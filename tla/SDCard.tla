--------------------------------- MODULE SDCard ---------------------------------
(* What a memory card does with the commands and the blocks it is sent over    *)
(* SPI, as SPI_MSD0_Driver.c reads its answers. A card c is a record:          *)
(*   kind     "none" if there is no card in the slot; an SD card of version 1, *)
(*            or 2 of standard or high capacity, or 2 for another voltage; an  *)
(*            MMC card that knows CMD55, or one that does not                  *)
(*   mode     "asleep" till it gets CMD0, "idle" till it is initialized        *)
(*   app      was CMD55 its last command?                                      *)
(*   xfer     "none", or what it is about: it is to send one block, or a       *)
(*            register, or blocks to the end; to get one block, or more; or it *)
(*            programs a block, after which it may be to get more              *)
(*   at       the sector this is about                                         *)
(*   data     the sectors' contents; new is what is programmed at at           *)
(* A command, or its answer, may be lost.                                      *)
EXTENDS Naturals

CONSTANTS
    Kinds,      \* the kinds of cards there are
    Data,       \* contents of a sector
    Blank,      \* and what it holds at first
    B           \* bytes in a block, standing for 512

ASSUME SDCardAssumption ==
    /\ Kinds \subseteq {"MMC", "MMCNoCMD55", "SDV1", "SDV2", "SDV2HC", "SDV2Other"}
    /\ B \in Nat \ {0, 1}

Sectors == 0 .. B       \* of a card; the driver is asked for 0 and 1
Card == [kind : Kinds \cup {"none"}, mode : {"asleep", "idle", "ready"}, app : BOOLEAN,
         xfer : {"none", "register", "send", "sends", "get", "gets", "program", "programs"},
         at : Sectors, data : [Sectors -> Data \cup {Blank}], new : Data \cup {Blank}]

Fresh(k) == [kind |-> k, mode |-> "asleep", app |-> FALSE, xfer |-> "none", at |-> 0,
             data |-> [i \in Sectors |-> Blank], new |-> Blank]

Drop(c) == [c EXCEPT !.xfer = "none", !.at = 0]

V2 == {"SDV2", "SDV2HC", "SDV2Other"}
SD == V2 \cup {"SDV1"}
Busy(c) == c.xfer \in {"program", "programs"}

\* An answer is R1: "01", "00", "bad" for any other, "05" for an illegal
\* command of an idle card, "FF" for none.
R1(c, r) == {<<[c EXCEPT !.app = FALSE], r>>}
Now(c) == IF c.mode = "idle" THEN "01" ELSE "00"
Illegal(c) == R1(c, IF c.mode = "idle" THEN "05" ELSE "bad")

\* The card's state may be set up at once, or not yet.
Initializes(c) == R1(c, "01") \cup R1([c EXCEPT !.mode = "ready"], "00")

\* The sector an address stands for; there may be none.
At(c, arg) == IF c.kind = "SDV2HC" THEN {arg} \cap Sectors ELSE {i \in Sectors : i * B = arg}

Starts(c, arg, xfer) ==
    IF c.mode # "ready" THEN Illegal(c)
    ELSE IF At(c, arg) = {} THEN R1(c, "bad")
    ELSE UNION {R1([c EXCEPT !.xfer = xfer, !.at = i], "00") : i \in At(c, arg)}

\* The outcomes of a command that the card attends to.
Does(c, cmd, arg) ==
    CASE cmd = "CMD0"  -> R1([Drop(c) EXCEPT !.mode = "idle"], "01")
      [] cmd = "CMD8"  -> IF c.kind \in V2 THEN R1(c, Now(c)) ELSE Illegal(c)
      [] cmd = "CMD55" -> IF c.kind = "MMCNoCMD55" THEN Illegal(c)
                          ELSE {<<[c EXCEPT !.app = TRUE], Now(c)>>}
      [] cmd = "ACMD41" -> IF ~c.app \/ c.kind \notin SD THEN Illegal(c)
                           ELSE IF c.mode = "ready" THEN R1(c, "00")
                           ELSE IF c.kind = "SDV2Other" \/ (c.kind = "SDV2HC" /\ arg = 0) THEN R1(c, "01")
                           ELSE Initializes(c)
      [] cmd = "CMD1"  -> IF c.kind \in V2 THEN Illegal(c) ELSE Initializes(c)
      [] cmd \in {"CMD16", "CMD58", "CMD59"} -> R1(c, Now(c))
      [] cmd = "ACMD23" -> Illegal(c)                   \* no CMD55 before it
      [] cmd \in {"CMD9", "CMD10"} -> Starts(c, 0, "register")
      [] cmd = "CMD17" -> Starts(c, arg, "send")
      [] cmd = "CMD18" -> Starts(c, arg, "sends")
      [] cmd = "CMD24" -> Starts(c, arg, "get")
      [] cmd = "CMD25" -> Starts(c, arg, "gets")
      [] cmd = "CMD12" -> IF c.xfer = "none" THEN Illegal(c) ELSE R1(Drop(c), Now(c))

\* In the middle of something else the card may drop that, or the command; what
\* it sends meanwhile is read as an answer, and busy reads as zero.
Takes(c, cmd, arg) ==
    CASE c.kind = "none" -> {<<c, "FF">>}
      [] c.kind # "none" /\ Busy(c) -> {<<c, "00">>}
      [] c.mode = "asleep" /\ cmd # "CMD0" -> {<<c, "FF">>}
      [] c.xfer \in {"register", "send"} /\ cmd # "CMD12" ->
            Does(Drop(c), cmd, arg) \cup R1(Drop(c), "bad")
      [] c.xfer = "sends" /\ cmd \notin {"CMD0", "CMD12"} -> {<<c, "00">>, <<c, "bad">>}
      [] c.xfer \in {"get", "gets"} /\ cmd \notin {"CMD0", "CMD12"} ->
            Does(Drop(c), cmd, arg) \cup {<<c, "FF">>, <<c, "bad">>}
      [] OTHER -> Does(c, cmd, arg)

\* Lost on the way there, or back.
Lost(c, cmd, arg) == {<<c, "FF">>} \cup {<<o[1], "FF">> : o \in Takes(c, cmd, arg)}

\* A block it has to send, <<c, data>>. Its end of a register is of no concern.
Sends(c) ==
    CASE c.xfer = "send" -> {<<Drop(c), c.data[c.at]>>}
      [] c.xfer = "register" -> {<<Drop(c), Blank>>}
      [] c.xfer = "sends" /\ c.at + 1 \in Sectors -> {<<[c EXCEPT !.at = @ + 1], c.data[c.at]>>}
      [] OTHER -> {}

\* A block it gets, and accepts; or does not. The token before the block tells
\* one from one of many.
Gets(c, d, token) ==
    CASE c.xfer = "get" /\ token = "FE" -> {[c EXCEPT !.xfer = "program", !.new = d]}
      [] c.xfer = "gets" /\ token = "FC" -> {[c EXCEPT !.xfer = "programs", !.new = d]}
      [] OTHER -> {}
Rejects(c) == IF c.xfer = "get" THEN Drop(c) ELSE c

Programmed(c) ==
    LET p == [c EXCEPT !.data[c.at] = c.new, !.new = Blank]
    IN  IF c.xfer = "programs" /\ c.at + 1 \in Sectors THEN [p EXCEPT !.xfer = "gets", !.at = @ + 1]
        ELSE Drop(p)
================================================================================
