--------------------------------- MODULE MSD0 ----------------------------------
(* The driver of the memory card (SPI_MSD0_Driver.c) and a card that answers   *)
(* it, is slow, or is exchanged for another: one command, block or wait a      *)
(* step. No byte is altered on its way: the driver checks no CRC.              *)
EXTENDS SDCard

CONSTANTS
    Retries,    \* stands for each of the loops' bounds
    MaxLost,    \* bound: commands or answers lost
    MaxCards    \* bound: cards put in after the first

ASSUME MSD0Assumption == Retries \in Nat \ {0} /\ MaxLost \in Nat /\ MaxCards \in Nat

VARIABLES
    card,               \* the card in the slot
    pc,                 \* where the driver is, "out" if it is not called
    op, sector, n,      \* the call, its sector, the blocks it has still to move
    data,               \* the block it writes, or has read last
    retry, path,        \* the count of the loop; 1 or 2 for a V1 or V2 card
    CardType, fast,     \* SD0_CardInfo.CardType; the speed of SPI
    ret, ready,         \* what the last call returned; did MSD0_Init last return 0?
    lost, cards,        \* the bounds' counters
    \* History, for the properties only.
    may,                \* what each sector of the card may hold
    swapped,            \* has the card been exchanged since the call?
    stray               \* was the card in the middle of blocks when it was
                        \* called, or taken for one of another capacity?
history == <<may, swapped, stray>>
cardVars == <<card, lost>>
callVars == <<op, sector, path>>
vars == <<card, pc, op, sector, n, data, retry, path, CardType, fast, ret, ready, lost, cards, may, swapped, stray>>

Single == {1}       \* sectors asked for alone; several are asked for from 0 on
Types == {"MMC", "SDV1", "SDV2", "SDV2HC"}

Init ==
    /\ card \in {Fresh(k) : k \in Kinds}
    /\ pc = "out" /\ op = "none" /\ sector = 0 /\ n = 0 /\ data = Blank
    /\ retry = 0 /\ path = 1 /\ CardType = "MMC" /\ fast = FALSE /\ ret = "none" /\ ready = FALSE
    /\ lost = 0 /\ cards = 0
    /\ may = [i \in Sectors |-> {Blank}] /\ swapped = FALSE /\ stray = FALSE

\* MSD0_send_command: the answers. At high speed a card that was not
\* initialized may not hear.
Answers(cmd, arg) ==
    LET heard == Takes(card, cmd, arg)
                 \cup IF fast /\ card.mode # "ready" THEN {<<card, "FF">>} ELSE {}
        l     == IF lost < MaxLost THEN Lost(card, cmd, arg) ELSE {}
    IN  {[card |-> o[1], r1 |-> o[2], lost |-> lost] : o \in heard}
        \cup {[card |-> o[1], r1 |-> o[2], lost |-> lost + 1] : o \in l}
Got(a) == card' = a.card /\ lost' = a.lost

Address(s) == IF CardType = "SDV2HC" THEN s ELSE s * B

Goto(l) == pc' = l /\ retry' = 0 /\ UNCHANGED ret
Return(r) == pc' = "out" /\ ret' = r /\ retry' = 0
\* Mutant: the count starts anew at each try.
AgainAnew(l, r) == IF retry + 1 = Retries THEN Return(r) ELSE pc' = pc /\ retry' = 0 /\ UNCHANGED ret

Again(l, r) == IF retry + 1 = Retries THEN Return(r) ELSE pc' = pc /\ retry' = retry + 1 /\ UNCHANGED ret

-----------------------------------------------------------------------------
(* MSD0_Init.                                                                 *)

Keep == UNCHANGED <<callVars, n, data, cards, history>> /\ ready' = (pc' = "out" /\ ret' = "ok")

Insert ==
    /\ pc = "insert" /\ IF card.kind = "none" THEN Return("err") ELSE Goto("reset")
    /\ Keep /\ UNCHANGED <<cardVars, CardType, fast>>

Reset ==
    /\ pc = "reset"
    /\ \E a \in Answers("CMD0", 0) : Got(a) /\ IF a.r1 = "01" THEN Goto("cmd8") ELSE Again("reset", "err")
    /\ Keep /\ UNCHANGED <<CardType, fast>>

\* An answer that is neither of the two, or another voltage, ends it: with 0.
Cmd8 ==
    /\ pc = "cmd8"
    /\ \E a \in Answers("CMD8", 1) :
        /\ Got(a)
        /\ CASE a.r1 = "05" -> CardType' = "SDV1" /\ path' = 1 /\ Goto("cmd55")
             [] a.r1 = "01" /\ card'.kind # "SDV2Other" -> path' = 2 /\ Goto("cmd55") /\ UNCHANGED CardType
             [] OTHER -> Return("ok") /\ UNCHANGED <<CardType, path>>
    /\ UNCHANGED <<op, sector, n, data, cards, fast, history>> /\ ready' = (pc' = "out")

\* An answer that is not 01 is what MSD0_Init returns, 00 too.
Cmd55 ==
    /\ pc = "cmd55"
    /\ \E a \in Answers("CMD55", 0) :
        /\ Got(a)
        /\ IF a.r1 = "01" THEN pc' = "acmd41" /\ UNCHANGED <<retry, ret>>
           ELSE Return(IF a.r1 = "00" THEN "ok" ELSE "err")
    /\ Keep /\ UNCHANGED <<CardType, fast>>

Acmd41 ==
    /\ pc = "acmd41"
    /\ \E a \in Answers("ACMD41", path - 1) :
        /\ Got(a)
        /\ IF a.r1 = "00" THEN Goto(IF path = 1 THEN "cmd59" ELSE "cmd58")
           ELSE IF retry + 1 < Retries THEN pc' = "cmd55" /\ retry' = retry + 1 /\ UNCHANGED ret
           ELSE IF path = 1 THEN Goto("cmd1") ELSE Return("err")
        /\ fast' = (fast \/ (a.r1 = "00" /\ path = 1))
    /\ Keep /\ UNCHANGED CardType

Cmd1 ==
    /\ pc = "cmd1"
    /\ \E a \in Answers("CMD1", 0) :
        /\ Got(a)
        /\ IF a.r1 = "00" THEN Goto("cmd59") /\ CardType' = "MMC" /\ fast' = TRUE
           ELSE Again("cmd1", "err") /\ UNCHANGED <<CardType, fast>>
    /\ Keep

\* No CRC, and the length of a block.
Cmd59 ==
    /\ pc = "cmd59"
    /\ \E a \in Answers("CMD59", 0) : Got(a) /\ IF a.r1 = "00" THEN Goto("cmd16") ELSE Return("err")
    /\ Keep /\ UNCHANGED <<CardType, fast>>
Cmd16 ==
    /\ pc = "cmd16"
    /\ \E a \in Answers("CMD16", 0) : Got(a) /\ Return(IF a.r1 = "00" THEN "ok" ELSE "err")
    /\ Keep /\ UNCHANGED <<CardType, fast>>

\* Mutant: the capacity bit is not looked at.
Cmd58NoCCS ==
    /\ pc = "cmd58"
    /\ \E a \in Answers("CMD58", 0) : Got(a) /\ Return(IF a.r1 = "00" THEN "ok" ELSE "err")
    /\ CardType' = "SDV2" /\ fast' = TRUE /\ Keep

\* The capacity is high or not.
Cmd58 ==
    /\ pc = "cmd58"
    /\ \E a \in Answers("CMD58", 0) :
        /\ Got(a)
        /\ IF a.r1 # "00" THEN Return("err") /\ UNCHANGED <<CardType, fast>>
           ELSE /\ Return("ok") /\ fast' = TRUE
                /\ CardType' = IF card'.kind = "SDV2HC" THEN "SDV2HC" ELSE "SDV2"
    /\ Keep

MSD0_Init == Insert \/ Reset \/ Cmd8 \/ Cmd55 \/ Acmd41 \/ Cmd1 \/ Cmd59 \/ Cmd16 \/ Cmd58

-----------------------------------------------------------------------------
(* Registers and blocks read: n blocks, or the registers CSD and CID.          *)

Done == n' = 0 /\ data' = Blank
Still ==
    /\ IF pc' = "out" THEN op' = "none" /\ sector' = 0 /\ swapped' = FALSE /\ stray' = FALSE
       ELSE UNCHANGED <<op, sector, swapped, stray>>
    /\ UNCHANGED <<path, CardType, fast, ready, cards>>

CommandOf ==
    CASE op = "Read" -> "CMD17" [] op = "ReadMulti" -> "CMD18"
      [] op = "Write" -> "CMD24" [] op = "WriteMulti" -> "CMD25"
      [] op = "CardInfo" -> IF n = 2 THEN "CMD9" ELSE "CMD10"

Command ==
    /\ pc = "command"
    /\ \E a \in Answers(CommandOf, IF op = "CardInfo" THEN 0 ELSE Address(sector)) :
        /\ Got(a)
        /\ IF a.r1 # "00" THEN Return("err") /\ Done
           ELSE Goto(IF op \in {"Write", "WriteMulti"} THEN "block" ELSE "token") /\ UNCHANGED <<n, data>>
    /\ UNCHANGED may /\ Still

\* MSD0_read_buffer: the token comes, with the block, or it does not.
Token ==
    /\ pc = "token"
    /\ \/ \E o \in Sends(card) :
            /\ card' = o[1] /\ data' = o[2] /\ n' = n - 1
            /\ IF op = "Read" THEN Goto("stop")
               ELSE IF n = 1 THEN IF op = "ReadMulti" THEN Goto("stop") ELSE Return("ok")
               ELSE Goto(IF op = "ReadMulti" THEN "token" ELSE "command")
       \/ /\ IF op = "CardInfo" THEN Return("err") ELSE Goto("stop")
          /\ data' = Blank /\ UNCHANGED <<card, n>>
    /\ UNCHANGED <<lost, may>> /\ Still

\* CMD12, whatever it is answered: n is zero if the blocks have come.
Stop ==
    /\ pc = "stop"
    /\ \E a \in Answers("CMD12", 0) : Got(a)
    /\ Return(IF n = 0 THEN "ok" ELSE "err")
    /\ Done /\ UNCHANGED may /\ Still

-----------------------------------------------------------------------------
(* Blocks written.                                                            *)

\* ACMD23, whatever it is answered.
Erase ==
    /\ pc = "erase" /\ Goto("command")
    /\ IF CardType # "MMC" THEN \E a \in Answers("ACMD23", n) : Got(a) ELSE UNCHANGED cardVars
    /\ UNCHANGED <<n, data, may>> /\ Still

\* The block that is being moved.
Cur == sector + (IF op \in {"Write", "Read"} THEN 1 ELSE 2) - n
StartToken == IF op = "Write" THEN "FE" ELSE "FC"
MayHold == [i \in Sectors |-> IF i = Cur \/ stray THEN may[i] \cup {data} ELSE may[i]]

\* Mutant: the answer to the block is not looked at.
BlockAny ==
    /\ pc = "block" /\ Goto("busy")
    /\ card' \in Gets(card, data, StartToken) \cup {Rejects(card)}
    /\ may' = MayHold
    /\ UNCHANGED <<n, data, lost>> /\ Still

\* The card accepts the block, or not.
Block ==
    /\ pc = "block"
    /\ \/ card' \in Gets(card, data, StartToken) /\ Goto("busy") /\ UNCHANGED <<n, data>>
       \/ card' = Rejects(card) /\ Return("err") /\ Done
    /\ may' = MayHold /\ UNCHANGED lost /\ Still

\* It is programmed, or takes too long. No answer is one that is not busy.
BusyWait ==
    /\ pc = "busy"
    /\ IF Busy(card) THEN Return("err") /\ Done /\ UNCHANGED may
       ELSE /\ n' = n - 1 /\ UNCHANGED data
            /\ may' = IF swapped \/ stray THEN may ELSE [may EXCEPT ![Cur] = {data}]
            /\ IF op = "Write" THEN Return("ok") ELSE Goto(IF n = 1 THEN "end" ELSE "block")
    /\ UNCHANGED cardVars /\ Still

\* The token that ends them, and the wait after it.
End ==
    /\ pc = "end"
    /\ \/ Return("ok") /\ card' = IF card.xfer = "gets" THEN Drop(card) ELSE card
       \/ Return("err") /\ card.xfer = "gets"
          /\ card' = [card EXCEPT !.xfer = "program", !.new = card.data[card.at]]
    /\ Done /\ UNCHANGED <<lost, may>> /\ Still

-----------------------------------------------------------------------------
(* Who calls it, and the card's own doing.                                    *)

Matched == CardType = "SDV2HC" <=> card.kind = "SDV2HC"

\* FatFs asks for sectors only once the card was initialized (chk_mounted).
Call ==
    /\ pc = "out"
    /\ op' \in {"Init"} \cup IF ready THEN {"CardInfo", "Read", "ReadMulti", "Write", "WriteMulti"} ELSE {}
    /\ sector' \in IF op' \in {"Read", "Write"} THEN Single ELSE {0}
    /\ n' = CASE op' = "Init" -> 0 [] op' \in {"Read", "Write"} -> 1 [] OTHER -> 2
    /\ data' \in IF op' \in {"Write", "WriteMulti"} THEN Data ELSE {Blank}
    /\ pc' = CASE op' = "Init" -> "insert" [] op' = "WriteMulti" -> "erase" [] OTHER -> "command"
    /\ retry' = 0 /\ ret' = "none"
    /\ swapped' = FALSE /\ stray' = (card.xfer \in {"sends", "gets", "programs"} \/ ~Matched) /\ path' = 1
    /\ UNCHANGED <<cardVars, CardType, fast, ready, cards, may>>

Driver == MSD0_Init \/ Command \/ Token \/ Stop \/ Erase \/ Block \/ BusyWait \/ End

Program == /\ Busy(card) /\ card' = Programmed(card)
           /\ UNCHANGED <<pc, callVars, n, data, retry, CardType, fast, ret, ready, lost, cards, history>>

\* The card is taken out, or another is put in its place.
Exchange ==
    /\ cards < MaxCards /\ cards' = cards + 1
    /\ card' \in {Fresh(k) : k \in Kinds \cup {"none"}} \ {card}
    /\ may' = [i \in Sectors |-> {Blank}] /\ swapped' = TRUE
    /\ UNCHANGED <<pc, callVars, n, data, retry, CardType, fast, ret, ready, lost, stray>>

Next == Call \/ Driver \/ Program \/ Exchange
Spec == Init /\ [][Next]_vars
FairSpec == Spec /\ WF_vars(Driver)

-----------------------------------------------------------------------------
TypeOK ==
    /\ card \in Card
    /\ pc \in {"out", "insert", "reset", "cmd8", "cmd55", "acmd41", "cmd1", "cmd59", "cmd16", "cmd58",
               "command", "token", "stop", "erase", "block", "busy", "end"}
    /\ sector \in {0} \cup Single /\ n \in 0 .. 2 /\ data \in Data \cup {Blank}
    /\ retry \in 0 .. Retries - 1 /\ CardType \in Types /\ ret \in {"none", "ok", "err"}

\* A sector holds the last block written to it that was acknowledged, or one
\* that failed since; and no other sector is touched, whatever the card's kind;
\* unless blocks of a call before were still on their way when it was written to,
\* or MSD0_Init did not get to know the capacity.
Stored == card.kind # "none" => \A i \in Sectors : card.data[i] \in may[i]

\* A block that is read is the sector's, on the same condition.
ReadsAre ==
    [][pc = "token" /\ n' < n /\ op \in {"Read", "ReadMulti"} => data' \in may[Cur] \/ stray]_vars

\* MSD0_Init returns 0 only if the card takes commands, addressed as it wants
\* them; or if its answer to CMD8 was none of the two, or of another voltage; or
\* if an answer that the card is initialized was lost, and CMD55 is then 00.
ReadyIfOk ==
    [][op = "Init" /\ pc # "out" /\ pc' = "out" /\ ret' = "ok" =>
        \/ card'.mode = "ready" /\ Matched'
        \/ pc = "cmd8" /\ card'.mode # "ready"
        \/ pc = "cmd55" /\ lost > 0]_vars

\* A call that succeeds leaves no block to be moved, if all answers arrived.
LeavesNothing == pc = "out" /\ ret = "ok" => card.xfer = "none" \/ lost > 0

\* Every call returns, whatever the card does, or if there is none.
Returns == pc # "out" ~> pc = "out"

\* The card is a memory: blocks are stored where they were sent, and read back.
Remembers == [](TypeOK /\ Stored /\ LeavesNothing) /\ ReadsAre
================================================================================
