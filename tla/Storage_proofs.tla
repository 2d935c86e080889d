------------------------------ MODULE Storage_proofs ----------------------------
(* The card as its driver leaves it, for every kind of card, number of sectors, *)
(* contents, retries, lost answers and exchanges of the card; and the logger    *)
(* over FatFs: the volume stays sound whatever fails, for every number of       *)
(* clusters, size of the FAT's sectors and of the directory.                    *)
EXTENDS MSD0, Logger, FiniteSetTheorems, WellFoundedInduction, TLAPS

-----------------------------------------------------------------------------
(* What a command does to the card.                                            *)

\* A card that moves blocks was initialized; an empty slot is no such card.
CardOk(c) ==
    /\ c \in Card
    /\ c.xfer # "none" => c.mode = "ready"
    /\ c.kind = "none" => c.mode = "asleep"

\* The same card, with the same contents.
SameCard(d, c) == CardOk(d) /\ d.kind = c.kind /\ d.data = c.data /\ d.new = c.new

\* What was moved is given up.
Dropped(d, c) == SameCard(d, c) /\ d.xfer = "none" /\ d.mode = c.mode

LEMMA DropIs ==
    ASSUME NEW c, CardOk(c)
    PROVE  Dropped(Drop(c), c)
<1>1. 0 \in Sectors
  BY SDCardAssumption DEF Sectors
<1> QED
  BY <1>1 DEF Drop, Dropped, SameCard, CardOk, Card

\* The outcome of R1.
LEMMA R1Is ==
    ASSUME NEW c, NEW r, NEW o \in R1(c, r)
    PROVE  o[1] = [c EXCEPT !.app = FALSE] /\ o[2] = r
  BY DEF R1

LEMMA AppIs ==
    ASSUME NEW c, CardOk(c), NEW b \in BOOLEAN
    PROVE  LET d == [c EXCEPT !.app = b]
           IN  SameCard(d, c) /\ d.xfer = c.xfer /\ d.mode = c.mode /\ d.at = c.at
  BY DEF SameCard, CardOk, Card

LEMMA ReadyIs ==
    ASSUME NEW c, CardOk(c), c.kind # "none"
    PROVE  LET d == [c EXCEPT !.mode = "ready"]
           IN  SameCard(d, c) /\ d.xfer = c.xfer /\ d.mode = "ready" /\ d.at = c.at
  BY DEF SameCard, CardOk, Card

LEMMA IdleIs ==
    ASSUME NEW c, CardOk(c), c.kind # "none", c.xfer = "none"
    PROVE  LET d == [c EXCEPT !.mode = "idle"]
           IN  SameCard(d, c) /\ d.xfer = c.xfer /\ d.mode = "idle" /\ d.at = c.at
  BY DEF SameCard, CardOk, Card

Transfers == {"register", "send", "sends", "get", "gets"}
Moves(c, x, i) == [c EXCEPT !.xfer = x, !.at = i]
LEMMA XferIs ==
    ASSUME NEW c, CardOk(c), c.mode = "ready", NEW x \in Transfers, NEW i \in Sectors
    PROVE  /\ SameCard(Moves(c, x, i), c) /\ Moves(c, x, i).mode = "ready"
           /\ Moves(c, x, i).xfer = x /\ Moves(c, x, i).at = i
  BY DEF Moves, SameCard, CardOk, Card, Transfers

\* A command that is not about blocks.
Heeded(d, c) == SameCard(d, c) /\ d.xfer = c.xfer /\ d.mode = c.mode /\ d.at = c.at

LEMMA R1Heeded ==
    ASSUME NEW c, CardOk(c), NEW r, NEW o \in R1(c, r)
    PROVE  Heeded(o[1], c) /\ o[2] = r
<1>1. o[1] = [c EXCEPT !.app = FALSE] /\ o[2] = r
  BY R1Is
<1> QED
  BY <1>1, AppIs DEF Heeded

LEMMA IllegalIs ==
    ASSUME NEW c, CardOk(c), NEW o \in Illegal(c)
    PROVE  Heeded(o[1], c) /\ o[2] \in {"05", "bad"} /\ (o[2] = "05" => c.mode = "idle")
<1>1. CASE c.mode = "idle"
  BY <1>1, R1Heeded DEF Illegal
<1>2. CASE c.mode # "idle"
  BY <1>2, R1Heeded DEF Illegal
<1> QED
  BY <1>1, <1>2

LEMMA NowIs ==
    ASSUME NEW c, CardOk(c), c.mode # "asleep", NEW o \in R1(c, Now(c))
    PROVE  Heeded(o[1], c) /\ o[2] \in {"00", "01"} /\ (o[2] = "00" => c.mode = "ready")
<1>1. Heeded(o[1], c) /\ o[2] = Now(c)
  BY R1Heeded
<1>2. c.mode \in {"asleep", "idle", "ready"}
  BY DEF CardOk, Card
<1> QED
  BY <1>1, <1>2 DEF Now

\* Its set-up may be done.
SetUp(d, r, c) ==
    /\ SameCard(d, c) /\ d.xfer = c.xfer
    /\ d.mode = c.mode \/ (d.mode = "ready" /\ r = "00")
    /\ r = "00" => d.mode = "ready"
    /\ r # "FF"

LEMMA HeededIsSetUp ==
    ASSUME NEW c, NEW d, NEW r, Heeded(d, c), r # "FF", r = "00" => c.mode = "ready"
    PROVE  SetUp(d, r, c)
  BY DEF Heeded, SetUp

LEMMA InitializesIs ==
    ASSUME NEW c, CardOk(c), c.kind # "none", NEW o \in Initializes(c)
    PROVE  SetUp(o[1], o[2], c)
<1>1. CASE o \in R1(c, "01")
  BY <1>1, R1Heeded, HeededIsSetUp
<1>2. CASE o \in R1([c EXCEPT !.mode = "ready"], "00")
  <2> DEFINE d == [c EXCEPT !.mode = "ready"]
  <2>1. SameCard(d, c) /\ d.xfer = c.xfer /\ d.mode = "ready"
    BY ReadyIs
  <2> HIDE DEF d
  <2>2. Heeded(o[1], d) /\ o[2] = "00"
    BY <1>2, <2>1, R1Heeded DEF SameCard, d
  <2> QED
    BY <2>1, <2>2 DEF Heeded, SameCard, SetUp
<1> QED
  BY <1>1, <1>2 DEF Initializes

\* A command that moves blocks, from or to the sector its address stands for.
Started(d, r, c, x, arg) ==
    /\ SameCard(d, c) /\ d.mode = c.mode
    /\ r # "00" => d.xfer = c.xfer
    /\ r = "00" => c.mode = "ready" /\ d.xfer = x /\ d.at \in At(c, arg)
    /\ r # "FF"

LEMMA StartsIs ==
    ASSUME NEW c, CardOk(c), NEW x \in Transfers, NEW arg, NEW o \in Starts(c, arg, x)
    PROVE  Started(o[1], o[2], c, x, arg)
<1>1. CASE c.mode # "ready"
  <2>1. o \in Illegal(c)
    BY <1>1 DEF Starts
  <2> QED
    BY <2>1, IllegalIs DEF Started, Heeded
<1>2. CASE c.mode = "ready" /\ At(c, arg) = {}
  <2>1. o \in R1(c, "bad")
    BY <1>2 DEF Starts
  <2> QED
    BY <2>1, R1Heeded DEF Started, Heeded
<1>3. CASE c.mode = "ready" /\ At(c, arg) # {}
  <2>1. o \in UNION {R1(Moves(c, x, i), "00") : i \in At(c, arg)}
    BY <1>3 DEF Starts, Moves
  <2>2. PICK i \in At(c, arg) : o \in R1(Moves(c, x, i), "00")
    BY <2>1
  <2>3. i \in Sectors
    BY DEF At
  <2> DEFINE d == Moves(c, x, i)
  <2>4. SameCard(d, c) /\ d.xfer = x /\ d.mode = "ready" /\ d.at = i
    BY <1>3, <2>3, XferIs
  <2> HIDE DEF d
  <2>5. Heeded(o[1], d) /\ o[2] = "00"
    BY <2>2, <2>4, R1Heeded DEF SameCard, d
  <2> QED
    BY <1>3, <2>4, <2>5 DEF Heeded, SameCard, Started
<1> QED
  BY <1>1, <1>2, <1>3

\* What a card that attends to a command does.
LEMMA DoesReset ==
    ASSUME NEW c, CardOk(c), c.kind # "none", NEW arg, NEW o \in Does(c, "CMD0", arg)
    PROVE  SameCard(o[1], c) /\ o[1].xfer = "none" /\ o[1].mode = "idle"
<1> DEFINE d == Drop(c)
           e == [d EXCEPT !.mode = "idle"]
<1>1. Dropped(d, c)
  BY DropIs
<1> HIDE DEF d
<1>2. CardOk(d) /\ d.kind # "none" /\ d.xfer = "none"
  BY <1>1 DEF Dropped, SameCard
<1>3. SameCard(e, d) /\ e.xfer = "none" /\ e.mode = "idle"
  BY <1>2, IdleIs
<1>4. o \in R1(e, "01")
  BY DEF Does, d
<1> HIDE DEF e
<1>5. Heeded(o[1], e)
  BY <1>3, <1>4, R1Heeded DEF SameCard
<1> QED
  BY <1>1, <1>3, <1>5 DEF Heeded, SameCard, Dropped

Asking == {"CMD8", "CMD55", "CMD16", "CMD58", "CMD59"}
\* It tells whether it is ready; of its version, before it is.
Told(d, r, c, cmd) ==
    /\ Heeded(d, c) /\ r # "FF"
    /\ r = "00" => c.mode = "ready"
    /\ r = "05" /\ cmd = "CMD8" => c.kind \notin V2

LEMMA DoesAsked ==
    ASSUME NEW c, CardOk(c), c.mode # "asleep", NEW cmd \in Asking, NEW arg, NEW o \in Does(c, cmd, arg)
    PROVE  Told(o[1], o[2], c, cmd)
<1>1. CASE cmd = "CMD8" /\ c.kind \in V2
  <2>1. o \in R1(c, Now(c))
    BY <1>1 DEF Does
  <2> QED
    BY <1>1, <2>1, NowIs DEF Told
<1>2. CASE cmd = "CMD8" /\ c.kind \notin V2
  <2>1. o \in Illegal(c)
    BY <1>2 DEF Does
  <2> QED
    BY <1>2, <2>1, IllegalIs DEF Told
<1>3. CASE cmd = "CMD55" /\ c.kind = "MMCNoCMD55"
  <2>1. o \in Illegal(c)
    BY <1>3 DEF Does
  <2> QED
    BY <1>3, <2>1, IllegalIs DEF Told
<1>4. CASE cmd = "CMD55" /\ c.kind # "MMCNoCMD55"
  <2> DEFINE d == [c EXCEPT !.app = TRUE]
  <2>1. o[1] = d /\ o[2] = Now(c)
    BY <1>4 DEF Does
  <2>2. SameCard(d, c) /\ d.xfer = c.xfer /\ d.mode = c.mode /\ d.at = c.at
    BY AppIs
  <2>3. c.mode \in {"asleep", "idle", "ready"}
    BY DEF CardOk, Card
  <2> HIDE DEF d
  <2> QED
    BY <1>4, <2>1, <2>2, <2>3 DEF Told, Heeded, Now
<1>5. CASE cmd \in {"CMD16", "CMD58", "CMD59"}
  <2>1. o \in R1(c, Now(c))
    BY <1>5 DEF Does
  <2> QED
    BY <1>5, <2>1, NowIs DEF Told
<1> QED
  BY <1>1, <1>2, <1>3, <1>4, <1>5 DEF Asking

LEMMA DoesSetUp ==
    ASSUME NEW c, CardOk(c), c.kind # "none", NEW cmd \in {"ACMD41", "CMD1"}, NEW arg, NEW o \in Does(c, cmd, arg)
    PROVE  SetUp(o[1], o[2], c)
<1>1. \/ o \in Illegal(c) \/ o \in Initializes(c) \/ o \in R1(c, "01")
      \/ (o \in R1(c, "00") /\ c.mode = "ready")
  <2>1. CASE cmd = "ACMD41"
    BY <2>1 DEF Does
  <2>2. CASE cmd = "CMD1"
    BY <2>2 DEF Does
  <2> QED
    BY <2>1, <2>2
<1>2. CASE o \in Illegal(c)
  BY <1>2, IllegalIs, HeededIsSetUp
<1>3. CASE o \in Initializes(c)
  BY <1>3, InitializesIs
<1>4. CASE o \in R1(c, "01")
  BY <1>4, R1Heeded, HeededIsSetUp
<1>5. CASE o \in R1(c, "00") /\ c.mode = "ready"
  BY <1>5, R1Heeded, HeededIsSetUp
<1> QED
  BY <1>1, <1>2, <1>3, <1>4, <1>5

LEMMA DoesErase ==
    ASSUME NEW c, CardOk(c), NEW arg, NEW o \in Does(c, "ACMD23", arg)
    PROVE  Heeded(o[1], c)
<1>1. o \in Illegal(c)
  BY DEF Does
<1> QED
  BY <1>1, IllegalIs

LEMMA DoesStop ==
    ASSUME NEW c, CardOk(c), NEW arg, NEW o \in Does(c, "CMD12", arg)
    PROVE  Dropped(o[1], c)
<1>1. CASE c.xfer = "none"
  <2>1. o \in Illegal(c)
    BY <1>1 DEF Does
  <2> QED
    BY <1>1, <2>1, IllegalIs DEF Heeded, Dropped
<1>2. CASE c.xfer # "none"
  <2> DEFINE d == Drop(c)
  <2>1. Dropped(d, c)
    BY DropIs
  <2>2. o \in R1(d, Now(c))
    BY <1>2 DEF Does
  <2> HIDE DEF d
  <2>3. Heeded(o[1], d)
    BY <2>1, <2>2, R1Heeded DEF Dropped, SameCard
  <2> QED
    BY <2>1, <2>3 DEF Dropped, Heeded, SameCard
<1> QED
  BY <1>1, <1>2

\* What each command about blocks is to start.
Starting == {"CMD9", "CMD10", "CMD17", "CMD18", "CMD24", "CMD25"}
XferOf(cmd) ==
    CASE cmd \in {"CMD9", "CMD10"} -> "register" [] cmd = "CMD17" -> "send" [] cmd = "CMD18" -> "sends"
      [] cmd = "CMD24" -> "get" [] cmd = "CMD25" -> "gets"
ArgOf(cmd, arg) == IF cmd \in {"CMD9", "CMD10"} THEN 0 ELSE arg

LEMMA DoesStart ==
    ASSUME NEW c, CardOk(c), NEW cmd \in Starting, NEW arg, NEW o \in Does(c, cmd, arg)
    PROVE  Started(o[1], o[2], c, XferOf(cmd), ArgOf(cmd, arg))
<1>1. o \in Starts(c, ArgOf(cmd, arg), XferOf(cmd)) /\ XferOf(cmd) \in Transfers
  <2>1. CASE cmd = "CMD9"
    BY <2>1 DEF Does, ArgOf, XferOf, Transfers
  <2>2. CASE cmd = "CMD10"
    BY <2>2 DEF Does, ArgOf, XferOf, Transfers
  <2>3. CASE cmd = "CMD17"
    BY <2>3 DEF Does, ArgOf, XferOf, Transfers
  <2>4. CASE cmd = "CMD18"
    BY <2>4 DEF Does, ArgOf, XferOf, Transfers
  <2>5. CASE cmd = "CMD24"
    BY <2>5 DEF Does, ArgOf, XferOf, Transfers
  <2>6. CASE cmd = "CMD25"
    BY <2>6 DEF Does, ArgOf, XferOf, Transfers
  <2> QED
    BY <2>1, <2>2, <2>3, <2>4, <2>5, <2>6 DEF Starting
<1> QED
  BY <1>1, StartsIs

-----------------------------------------------------------------------------
(* What the driver gets to know of it.                                         *)

\* An answer that is none, or not one to the command; the card goes on.
Unheeded(r, c) == r \in {"FF", "bad"} \/ (r = "00" /\ (Busy(c) \/ c.xfer = "sends"))

Attends(o, c, cmd, arg) ==
    /\ ~Busy(c) /\ c.kind # "none" /\ (c.mode = "asleep" => cmd = "CMD0")
    /\ \/ o \in Does(c, cmd, arg) /\ (c.xfer = "none" \/ cmd \in {"CMD0", "CMD12"})
       \/ o \in Does(Drop(c), cmd, arg) /\ cmd # "CMD12"

LEMMA TakesSplit ==
    ASSUME NEW c, CardOk(c), NEW cmd, NEW arg, NEW o \in Takes(c, cmd, arg)
    PROVE  \/ o[1] = c /\ Unheeded(o[2], c)
           \/ ~Busy(c) /\ o \in R1(Drop(c), "bad")
           \/ Attends(o, c, cmd, arg)
<1> USE DEF Unheeded, Attends
<1>1. CASE c.kind = "none"
  <2>1. c.mode = "asleep" /\ c.xfer = "none"
    BY <1>1 DEF CardOk
  <2>2. ~Busy(c)
    BY <2>1 DEF Busy
  <2>3. Takes(c, cmd, arg) = {<<c, "FF">>}
    <3>1. CASE cmd = "CMD0"
      BY <1>1, <2>1, <2>2, <3>1 DEF Takes
    <3>2. CASE cmd # "CMD0"
      BY <1>1, <2>1, <2>2, <3>2 DEF Takes
    <3> QED
      BY <3>1, <3>2
  <2> QED
    BY <2>3
<1>2. CASE c.kind # "none" /\ Busy(c)
  <2>1. c.mode = "ready" /\ c.xfer \in {"program", "programs"}
    BY <1>2 DEF CardOk, Busy
  <2>2. Takes(c, cmd, arg) = {<<c, "00">>}
    BY <1>2, <2>1 DEF Takes
  <2> QED
    BY <1>2, <2>2
<1>3. CASE c.kind # "none" /\ ~Busy(c) /\ c.mode = "asleep" /\ cmd # "CMD0"
  <2>1. c.xfer = "none"
    BY <1>3 DEF CardOk
  <2>2. Takes(c, cmd, arg) = {<<c, "FF">>}
    BY <1>3, <2>1 DEF Takes
  <2> QED
    BY <1>3, <2>2
<1> DEFINE Awake == c.kind # "none" /\ ~Busy(c) /\ (c.mode = "asleep" => cmd = "CMD0")
<1>4. CASE Awake /\ c.xfer \in {"register", "send"} /\ cmd # "CMD12"
  <2>0. c.mode = "ready"
    BY <1>4 DEF CardOk
  <2>1. o \in Does(Drop(c), cmd, arg) \cup R1(Drop(c), "bad")
    BY <1>4, <2>0 DEF Takes
  <2> QED
    BY <1>4, <2>0, <2>1
<1>5. CASE Awake /\ c.xfer = "sends" /\ cmd \notin {"CMD0", "CMD12"}
  <2>0. c.mode = "ready"
    BY <1>5 DEF CardOk
  <2> QED
    BY <1>5, <2>0 DEF Takes
<1>6. CASE Awake /\ c.xfer \in {"get", "gets"} /\ cmd \notin {"CMD0", "CMD12"}
  <2>0. c.mode = "ready"
    BY <1>6 DEF CardOk
  <2>1. o \in Does(Drop(c), cmd, arg) \cup {<<c, "FF">>, <<c, "bad">>}
    BY <1>6, <2>0 DEF Takes
  <2> QED
    BY <1>6, <2>0, <2>1
<1>7. CASE Awake /\ (c.xfer = "none" \/ cmd = "CMD12" \/ (cmd = "CMD0" /\ c.xfer \notin {"register", "send"}))
  <2>1. o \in Does(c, cmd, arg)
    BY <1>7 DEF Takes, Busy
  <2> QED
    BY <1>7, <2>1
<1>8. c.xfer \in {"none", "register", "send", "sends", "get", "gets", "program", "programs"}
  BY DEF CardOk, Card
<1> QED
  BY <1>1, <1>2, <1>3, <1>4, <1>5, <1>6, <1>7, <1>8 DEF Busy

\* An answer a comes from an outcome o, or the command did not reach the card.
Comes(a, o, cmd, arg) ==
    /\ o \in Takes(card, cmd, arg) /\ a.card = o[1]
    /\ (a.r1 = o[2] /\ a.lost = lost) \/ (a.r1 = "FF" /\ a.lost = lost + 1)
NotHeard(a) ==
    /\ a.card = card /\ a.r1 = "FF"
    /\ (a.lost = lost /\ card.mode # "ready") \/ a.lost = lost + 1

LEMMA AnswersSplit ==
    ASSUME NEW cmd, NEW arg, NEW a \in Answers(cmd, arg)
    PROVE  (\E o : Comes(a, o, cmd, arg)) \/ NotHeard(a)
<1> DEFINE heard == Takes(card, cmd, arg)
                    \cup IF fast /\ card.mode # "ready" THEN {<<card, "FF">>} ELSE {}
           l     == IF lost < MaxLost THEN Lost(card, cmd, arg) ELSE {}
<1>1. \/ \E o \in heard : a = [card |-> o[1], r1 |-> o[2], lost |-> lost]
      \/ \E o \in l : a = [card |-> o[1], r1 |-> o[2], lost |-> lost + 1]
  BY DEF Answers
<1>2. CASE \E o \in heard : a = [card |-> o[1], r1 |-> o[2], lost |-> lost]
  <2>1. PICK o \in heard : a = [card |-> o[1], r1 |-> o[2], lost |-> lost]
    BY <1>2
  <2>2. a.card = o[1] /\ a.r1 = o[2] /\ a.lost = lost
    BY <2>1
  <2>3. o \in Takes(card, cmd, arg) \/ (o = <<card, "FF">> /\ card.mode # "ready")
    BY <2>1
  <2> QED
    BY <2>2, <2>3 DEF Comes, NotHeard
<1>3. CASE \E o \in l : a = [card |-> o[1], r1 |-> o[2], lost |-> lost + 1]
  <2>1. PICK o \in l : a = [card |-> o[1], r1 |-> o[2], lost |-> lost + 1]
    BY <1>3
  <2>2. a.card = o[1] /\ a.r1 = o[2] /\ a.lost = lost + 1
    BY <2>1
  <2>3. o \in Lost(card, cmd, arg)
    BY <2>1
  <2>4. o = <<card, "FF">> \/ \E p \in Takes(card, cmd, arg) : o = <<p[1], "FF">>
    BY <2>3 DEF Lost
  <2> QED
    BY <2>2, <2>4 DEF Comes, NotHeard
<1> QED
  BY <1>1, <1>2, <1>3

\* What every command leaves as it is.
Left(d, c) == SameCard(d, c) /\ IF Busy(c) THEN d = c ELSE ~Busy(d)

LEMMA DropCard ==
    ASSUME NEW c, NEW o, CardOk(c), o \in R1(Drop(c), "bad")
    PROVE  Dropped(o[1], c) /\ o[2] = "bad"
<1> DEFINE d == Drop(c)
<1>1. Dropped(d, c) /\ o \in R1(d, "bad")
  BY DropIs
<1> HIDE DEF d
<1>2. Heeded(o[1], d) /\ o[2] = "bad"
  BY <1>1, R1Heeded DEF Dropped, SameCard
<1> QED
  BY <1>1, <1>2 DEF Dropped, Heeded, SameCard

LEMMA SameIsSame ==
    ASSUME NEW c, CardOk(c)
    PROVE  Left(c, c) /\ Heeded(c, c)
  BY DEF Left, SameCard, Heeded

LEMMA QuietIsLeft ==
    ASSUME NEW c, NEW d, SameCard(d, c), ~Busy(c), d.xfer \in {c.xfer, "none"} \cup Transfers
    PROVE  Left(d, c)
  BY DEF Left, Busy, Transfers

\* CMD0: only its 01 tells that the card was reset.
WasReset(d, r, c) ==
    /\ Left(d, c) /\ d.xfer \in {c.xfer, "none"}
    /\ r = "01" => d.xfer = "none" /\ d.mode = "idle"

LEMMA TakesReset ==
    ASSUME NEW c, CardOk(c), NEW arg, NEW o \in Takes(c, "CMD0", arg)
    PROVE  WasReset(o[1], o[2], c)
<1>1. CASE o[1] = c /\ Unheeded(o[2], c)
  BY <1>1, SameIsSame DEF WasReset, Unheeded
<1>2. CASE ~Busy(c) /\ o \in R1(Drop(c), "bad")
  <2>1. Dropped(o[1], c) /\ o[2] = "bad"
    BY <1>2, DropCard
  <2> QED
    BY <1>2, <2>1, QuietIsLeft DEF WasReset, Dropped
<1>3. CASE Attends(o, c, "CMD0", arg)
  <2> DEFINE d == Drop(c)
  <2>1. Dropped(d, c)
    BY DropIs
  <2>2. ~Busy(c) /\ c.kind # "none" /\ (o \in Does(c, "CMD0", arg) \/ o \in Does(d, "CMD0", arg))
    BY <1>3 DEF Attends
  <2> HIDE DEF d
  <2>3. SameCard(o[1], c) /\ o[1].xfer = "none" /\ o[1].mode = "idle"
    <3>1. CASE o \in Does(c, "CMD0", arg)
      BY <2>2, <3>1, DoesReset
    <3>2. CASE o \in Does(d, "CMD0", arg)
      <4>1. CardOk(d) /\ d.kind # "none"
        BY <2>1, <2>2 DEF Dropped, SameCard
      <4>2. SameCard(o[1], d) /\ o[1].xfer = "none" /\ o[1].mode = "idle"
        BY <3>2, <4>1, DoesReset
      <4> QED
        BY <2>1, <4>2 DEF Dropped, SameCard
    <3> QED
      BY <2>2, <3>1, <3>2
  <2> QED
    BY <2>2, <2>3, QuietIsLeft DEF WasReset
<1> QED
  BY <1>1, <1>2, <1>3, TakesSplit

LEMMA QuietAttends ==
    ASSUME NEW c, CardOk(c), c.xfer = "none", NEW cmd, cmd # "CMD0", NEW arg, NEW o \in Takes(c, cmd, arg)
    PROVE  \/ o[1] = c /\ o[2] = "FF"
           \/ c.kind # "none" /\ c.mode # "asleep" /\ o \in Does(c, cmd, arg)
<1>1. ~Busy(c)
  BY DEF Busy
<1>2. CASE c.kind = "none"
  <2>1. c.mode = "asleep"
    BY <1>2 DEF CardOk
  <2>2. Takes(c, cmd, arg) = {<<c, "FF">>}
    BY <1>1, <1>2, <2>1 DEF Takes
  <2> QED
    BY <2>2
<1>3. CASE c.kind # "none" /\ c.mode = "asleep"
  <2>1. Takes(c, cmd, arg) = {<<c, "FF">>}
    BY <1>1, <1>3 DEF Takes
  <2> QED
    BY <2>1
<1>4. CASE c.kind # "none" /\ c.mode # "asleep"
  <2>1. Takes(c, cmd, arg) = Does(c, cmd, arg)
    BY <1>1, <1>4 DEF Takes
  <2> QED
    BY <1>4, <2>1
<1> QED
  BY <1>2, <1>3, <1>4

\* A command that asks, of a card that moves no block.
WasAsked(d, r, c, cmd) ==
    /\ Heeded(d, c)
    /\ r = "00" => c.mode = "ready"
    /\ r = "05" /\ cmd = "CMD8" => c.kind \notin V2

LEMMA TakesAsked ==
    ASSUME NEW c, CardOk(c), c.xfer = "none", NEW cmd \in Asking, NEW arg, NEW o \in Takes(c, cmd, arg)
    PROVE  WasAsked(o[1], o[2], c, cmd)
<1>0. cmd # "CMD0"
  BY DEF Asking
<1>1. CASE o[1] = c /\ o[2] = "FF"
  BY <1>1, SameIsSame DEF WasAsked
<1>2. CASE c.mode # "asleep" /\ o \in Does(c, cmd, arg)
  <2>1. Told(o[1], o[2], c, cmd)
    BY <1>2, DoesAsked
  <2> QED
    BY <2>1 DEF Told, WasAsked
<1> QED
  BY <1>0, <1>1, <1>2, QuietAttends

\* A command that starts its set-up; only an idle card is set up.
WasSetUp(d, r, c) ==
    /\ SameCard(d, c) /\ d.xfer = "none"
    /\ d.mode = c.mode \/ (d.mode = "ready" /\ r = "00" /\ c.mode # "asleep")
    /\ r = "00" => d.mode = "ready"

LEMMA TakesSetUp ==
    ASSUME NEW c, CardOk(c), c.xfer = "none", NEW cmd \in {"ACMD41", "CMD1"}, NEW arg, NEW o \in Takes(c, cmd, arg)
    PROVE  WasSetUp(o[1], o[2], c)
<1>1. CASE o[1] = c /\ o[2] = "FF"
  BY <1>1, SameIsSame DEF WasSetUp, Heeded
<1>2. CASE c.kind # "none" /\ c.mode # "asleep" /\ o \in Does(c, cmd, arg)
  <2>1. SetUp(o[1], o[2], c)
    BY <1>2, DoesSetUp
  <2> QED
    BY <1>2, <2>1 DEF SetUp, WasSetUp
<1> QED
  BY <1>1, <1>2, QuietAttends

\* ACMD23, which a card may take for an end of what it was about.
WasErased(d, c) == Left(d, c) /\ d.xfer \in {c.xfer, "none"} /\ d.mode = c.mode

LEMMA TakesErase ==
    ASSUME NEW c, CardOk(c), NEW arg, NEW o \in Takes(c, "ACMD23", arg)
    PROVE  WasErased(o[1], c)
<1>1. CASE o[1] = c /\ Unheeded(o[2], c)
  BY <1>1, SameIsSame DEF WasErased
<1>2. CASE ~Busy(c) /\ o \in R1(Drop(c), "bad")
  <2>1. Dropped(o[1], c)
    BY <1>2, DropCard
  <2> QED
    BY <1>2, <2>1, QuietIsLeft DEF WasErased, Dropped
<1>3. CASE Attends(o, c, "ACMD23", arg)
  <2> DEFINE d == Drop(c)
  <2>1. Dropped(d, c)
    BY DropIs
  <2>2. ~Busy(c) /\ (o \in Does(c, "ACMD23", arg) \/ o \in Does(d, "ACMD23", arg))
    BY <1>3 DEF Attends
  <2> HIDE DEF d
  <2>3. SameCard(o[1], c) /\ o[1].xfer \in {c.xfer, "none"} /\ o[1].mode = c.mode
    <3>1. CASE o \in Does(c, "ACMD23", arg)
      BY <3>1, DoesErase DEF Heeded
    <3>2. CASE o \in Does(d, "ACMD23", arg)
      <4>1. Heeded(o[1], d)
        BY <2>1, <3>2, DoesErase DEF Dropped, SameCard
      <4> QED
        BY <2>1, <4>1 DEF Dropped, SameCard, Heeded
    <3> QED
      BY <2>2, <3>1, <3>2
  <2> QED
    BY <2>2, <2>3, QuietIsLeft DEF WasErased
<1> QED
  BY <1>1, <1>2, <1>3, TakesSplit

\* CMD12, which a card that is not busy heeds.
WasStopped(d, c) == Left(d, c) /\ d.mode = c.mode /\ (~Busy(c) => d.xfer = "none")

LEMMA TakesStop ==
    ASSUME NEW c, CardOk(c), NEW arg, NEW o \in Takes(c, "CMD12", arg)
    PROVE  WasStopped(o[1], c)
<1>1. CASE Busy(c)
  <2>1. c.kind # "none" /\ c.mode = "ready" /\ c.xfer \in {"program", "programs"}
    BY <1>1 DEF CardOk, Busy
  <2>2. Takes(c, "CMD12", arg) = {<<c, "00">>}
    BY <1>1, <2>1 DEF Takes
  <2> QED
    BY <1>1, <2>2, SameIsSame DEF WasStopped
<1>2. CASE ~Busy(c) /\ c.mode = "asleep"
  <2>1. c.xfer = "none"
    BY <1>2 DEF CardOk
  <2>2. o[1] = c
    BY <1>2, <2>1, QuietAttends
  <2> QED
    BY <1>2, <2>1, <2>2, SameIsSame DEF WasStopped
<1>3. CASE ~Busy(c) /\ c.mode # "asleep"
  <2>1. c.kind # "none"
    BY <1>3 DEF CardOk
  <2>2. c.xfer \in {"none", "register", "send", "sends", "get", "gets", "program", "programs"}
    BY DEF CardOk, Card
  <2>3. Takes(c, "CMD12", arg) = Does(c, "CMD12", arg)
    BY <1>3, <2>1, <2>2 DEF Takes
  <2>4. Dropped(o[1], c)
    BY <2>3, DoesStop
  <2> QED
    BY <1>3, <2>4, QuietIsLeft DEF WasStopped, Dropped
<1> QED
  BY <1>1, <1>2, <1>3

\* A command about blocks: 00 tells that it was started at the sector, unless the
\* card was busy, or in the middle of blocks, which read as 00 as well.
WasStarted(d, r, c, cmd, arg) ==
    /\ Left(d, c) /\ d.mode = c.mode
    /\ d.xfer \in {c.xfer, "none", XferOf(cmd)}
    /\ r # "00" => d.xfer \in {c.xfer, "none"}
    /\ r = "00" => \/ d = c /\ (Busy(c) \/ c.xfer = "sends")
                   \/ d.xfer = XferOf(cmd) /\ d.at \in At(c, ArgOf(cmd, arg))

LEMMA StartedIsStarted ==
    ASSUME NEW c, NEW d, ~Busy(c), NEW b, NEW r, NEW cmd \in Starting, NEW arg,
           Heeded(b, c) \/ Dropped(b, c), Started(d, r, b, XferOf(cmd), ArgOf(cmd, arg))
    PROVE  WasStarted(d, r, c, cmd, arg)
<1>1. SameCard(d, c) /\ d.mode = c.mode /\ b.kind = c.kind /\ b.xfer \in {c.xfer, "none"}
  BY DEF Heeded, Dropped, Started, SameCard
<1>2. At(b, ArgOf(cmd, arg)) = At(c, ArgOf(cmd, arg))
  BY <1>1 DEF At
<1>3. XferOf(cmd) \in Transfers
  BY DEF Starting, XferOf, Transfers
<1>4. d.xfer \in {c.xfer, "none", XferOf(cmd)}
  BY <1>1 DEF Started
<1>5. Left(d, c)
  BY <1>1, <1>3, <1>4, QuietIsLeft
<1> QED
  BY <1>1, <1>2, <1>4, <1>5 DEF Started, WasStarted

LEMMA TakesStart ==
    ASSUME NEW c, CardOk(c), NEW cmd \in Starting, NEW arg, NEW o \in Takes(c, cmd, arg)
    PROVE  WasStarted(o[1], o[2], c, cmd, arg)
<1>1. CASE o[1] = c /\ Unheeded(o[2], c)
  BY <1>1, SameIsSame DEF WasStarted, Unheeded, Heeded
<1>2. CASE ~Busy(c) /\ o \in R1(Drop(c), "bad")
  <2>1. Dropped(o[1], c) /\ o[2] = "bad"
    BY <1>2, DropCard
  <2> QED
    BY <1>2, <2>1, QuietIsLeft DEF WasStarted, Dropped
<1>3. CASE Attends(o, c, cmd, arg)
  <2> DEFINE d == Drop(c)
  <2>1. Dropped(d, c)
    BY DropIs
  <2>2. ~Busy(c) /\ (o \in Does(c, cmd, arg) \/ o \in Does(d, cmd, arg))
    BY <1>3 DEF Attends
  <2> HIDE DEF d
  <2>3. CASE o \in Does(c, cmd, arg)
    <3>1. Started(o[1], o[2], c, XferOf(cmd), ArgOf(cmd, arg))
      BY <2>3, DoesStart
    <3>2. Heeded(c, c)
      BY SameIsSame
    <3> QED
      BY <2>2, <3>1, <3>2, StartedIsStarted
  <2>4. CASE o \in Does(d, cmd, arg)
    <3>1. CardOk(d)
      BY <2>1 DEF Dropped, SameCard
    <3>2. Started(o[1], o[2], d, XferOf(cmd), ArgOf(cmd, arg))
      BY <2>4, <3>1, DoesStart
    <3> QED
      BY <2>1, <2>2, <3>2, StartedIsStarted
  <2> QED
    BY <2>2, <2>3, <2>4
<1> QED
  BY <1>1, <1>2, <1>3, TakesSplit
-----------------------------------------------------------------------------
(* What the driver is answered; a command or an answer may have been lost.     *)

More(a) == a.lost \in {lost, lost + 1}
AnsweredReset(a) == WasReset(a.card, a.r1, card) /\ More(a)
AnsweredAsked(a, cmd) == WasAsked(a.card, a.r1, card, cmd) /\ More(a)
AnsweredSetUp(a) ==
    /\ SameCard(a.card, card) /\ a.card.xfer = "none" /\ More(a)
    /\ \/ a.card.mode = card.mode
       \/ a.card.mode = "ready" /\ card.mode # "asleep" /\ (a.r1 = "00" \/ a.lost = lost + 1)
    /\ a.r1 = "00" => a.card.mode = "ready"
AnsweredErase(a) == WasErased(a.card, card) /\ More(a)
AnsweredStop(a) ==
    /\ Left(a.card, card) /\ a.card.mode = card.mode /\ More(a)
    /\ ~Busy(card) /\ a.lost = lost => a.card.xfer = "none"
AnsweredStart(a, cmd, arg) ==
    /\ Left(a.card, card) /\ a.card.mode = card.mode /\ More(a)
    /\ a.card.xfer \in {card.xfer, "none", XferOf(cmd)}
    /\ a.r1 # "00" /\ a.lost = lost => a.card.xfer \in {card.xfer, "none"}
    /\ a.r1 = "00" => \/ a.card = card /\ (Busy(card) \/ card.xfer = "sends")
                      \/ a.card.xfer = XferOf(cmd) /\ a.card.at \in At(card, ArgOf(cmd, arg))

LEMMA ResetAnswers ==
    ASSUME CardOk(card), NEW a \in Answers("CMD0", 0)
    PROVE  AnsweredReset(a)
<1>1. CASE \E o : Comes(a, o, "CMD0", 0)
  <2>1. PICK o : Comes(a, o, "CMD0", 0)
    BY <1>1
  <2>2. WasReset(o[1], o[2], card)
    BY <2>1, TakesReset DEF Comes
  <2> QED
    BY <2>1, <2>2 DEF Comes, WasReset, AnsweredReset, More
<1>2. CASE NotHeard(a)
  BY <1>2, SameIsSame DEF NotHeard, WasReset, AnsweredReset, More
<1> QED
  BY <1>1, <1>2, AnswersSplit

LEMMA AskedAnswers ==
    ASSUME CardOk(card), card.xfer = "none", NEW cmd \in Asking, NEW arg, NEW a \in Answers(cmd, arg)
    PROVE  AnsweredAsked(a, cmd)
<1>1. CASE \E o : Comes(a, o, cmd, arg)
  <2>1. PICK o : Comes(a, o, cmd, arg)
    BY <1>1
  <2>2. WasAsked(o[1], o[2], card, cmd)
    BY <2>1, TakesAsked DEF Comes
  <2> QED
    BY <2>1, <2>2 DEF Comes, WasAsked, AnsweredAsked, More
<1>2. CASE NotHeard(a)
  BY <1>2, SameIsSame DEF NotHeard, WasAsked, AnsweredAsked, More
<1> QED
  BY <1>1, <1>2, AnswersSplit

LEMMA SetUpAnswers ==
    ASSUME CardOk(card), card.xfer = "none", NEW cmd \in {"ACMD41", "CMD1"}, NEW arg, NEW a \in Answers(cmd, arg)
    PROVE  AnsweredSetUp(a)
<1>1. CASE \E o : Comes(a, o, cmd, arg)
  <2>1. PICK o : Comes(a, o, cmd, arg)
    BY <1>1
  <2>2. WasSetUp(o[1], o[2], card)
    BY <2>1, TakesSetUp DEF Comes
  <2> QED
    BY <2>1, <2>2 DEF Comes, WasSetUp, AnsweredSetUp, More
<1>2. CASE NotHeard(a)
  BY <1>2, SameIsSame DEF NotHeard, Heeded, AnsweredSetUp, More
<1> QED
  BY <1>1, <1>2, AnswersSplit

LEMMA EraseAnswers ==
    ASSUME CardOk(card), NEW arg, NEW a \in Answers("ACMD23", arg)
    PROVE  AnsweredErase(a)
<1>1. CASE \E o : Comes(a, o, "ACMD23", arg)
  <2>1. PICK o : Comes(a, o, "ACMD23", arg)
    BY <1>1
  <2>2. WasErased(o[1], card)
    BY <2>1, TakesErase DEF Comes
  <2> QED
    BY <2>1, <2>2 DEF Comes, AnsweredErase, More
<1>2. CASE NotHeard(a)
  BY <1>2, SameIsSame DEF NotHeard, WasErased, AnsweredErase, More
<1> QED
  BY <1>1, <1>2, AnswersSplit

LEMMA StopAnswers ==
    ASSUME CardOk(card), lost \in Nat, NEW a \in Answers("CMD12", 0)
    PROVE  AnsweredStop(a)
<1>1. CASE \E o : Comes(a, o, "CMD12", 0)
  <2>1. PICK o : Comes(a, o, "CMD12", 0)
    BY <1>1
  <2>2. WasStopped(o[1], card)
    BY <2>1, TakesStop DEF Comes
  <2> QED
    BY <2>1, <2>2 DEF Comes, WasStopped, AnsweredStop, More
<1>2. CASE NotHeard(a)
  <2>1. a.lost = lost => card.xfer = "none"
    BY <1>2 DEF NotHeard, CardOk
  <2> QED
    BY <1>2, <2>1, SameIsSame DEF NotHeard, AnsweredStop, More
<1> QED
  BY <1>1, <1>2, AnswersSplit

LEMMA StartAnswers ==
    ASSUME CardOk(card), lost \in Nat, NEW cmd \in Starting, NEW arg, NEW a \in Answers(cmd, arg)
    PROVE  AnsweredStart(a, cmd, arg)
<1>1. CASE \E o : Comes(a, o, cmd, arg)
  <2>1. PICK o : Comes(a, o, cmd, arg)
    BY <1>1
  <2>2. WasStarted(o[1], o[2], card, cmd, arg)
    BY <2>1, TakesStart DEF Comes
  <2>3. CASE a.r1 = o[2] /\ a.lost = lost
    BY <2>1, <2>2, <2>3 DEF Comes, WasStarted, AnsweredStart, More
  <2>4. CASE a.r1 = "FF" /\ a.lost = lost + 1
    BY <2>1, <2>2, <2>4 DEF Comes, WasStarted, AnsweredStart, More
  <2> QED
    BY <2>1, <2>3, <2>4 DEF Comes
<1>2. CASE NotHeard(a)
  BY <1>2, SameIsSame DEF NotHeard, AnsweredStart, More
<1> QED
  BY <1>1, <1>2, AnswersSplit

-----------------------------------------------------------------------------
(* The inductive invariant.                                                    *)

InInit == {"insert", "reset", "cmd8", "cmd55", "acmd41", "cmd1", "cmd59", "cmd16", "cmd58"}
InCall == {"command", "token", "stop", "erase", "block", "busy", "end"}
Blocks == {"Read", "ReadMulti", "Write", "WriteMulti"}

Typed ==
    /\ TypeOK /\ op \in {"none", "Init", "CardInfo"} \cup Blocks
    /\ path \in {1, 2} /\ fast \in BOOLEAN /\ ready \in BOOLEAN /\ lost \in Nat /\ cards \in Nat
    /\ may \in [Sectors -> SUBSET (Data \cup {Blank})] /\ swapped \in BOOLEAN /\ stray \in BOOLEAN

\* Where the driver is, what it was called for, and what is left of it.
Where ==
    /\ pc \in InInit => op = "Init"
    /\ pc \in InCall => /\ op \in {"CardInfo"} \cup Blocks
                        /\ sector = IF op \in {"Read", "Write"} THEN 1 ELSE 0
    /\ op \in {"Read", "Write"} => n <= 1
    /\ pc = "command" => IF op \in {"Read", "Write"} THEN n = 1 ELSE n = 2 \/ (op = "CardInfo" /\ n = 1)
    /\ pc = "token" => op \in {"CardInfo", "Read", "ReadMulti"} /\ n >= 1
    /\ pc = "stop" => op \in {"Read", "ReadMulti"}
    /\ pc = "erase" => op = "WriteMulti" /\ n = 2
    /\ pc \in {"block", "busy"} => op \in {"Write", "WriteMulti"} /\ n >= 1
    /\ pc = "end" => op = "WriteMulti"

\* A block that is being programmed may be held as well.
Kept == Stored /\ (Busy(card) => card.new \in may[card.at])

\* What the card is about after it has accepted a block.
Writes ==
    /\ pc = "busy" => card.xfer \in IF op = "Write" THEN {"program", "none"} ELSE {"programs", "gets", "none"}
    /\ pc = "end" => card.xfer \in {"gets", "none"}

\* The card is about what the call is about.
Own(c) ==
    /\ op = "Read" => c.xfer = "send"
    /\ op = "ReadMulti" => c.xfer = "sends"
    /\ op = "CardInfo" => c.xfer = "register"
    /\ op = "Write" => c.xfer = "get"
    /\ op = "WriteMulti" => c.xfer = "gets"

\* And about the block the call has come to, if nothing was astray at its start.
Programming == IF Busy(card) THEN card.at = Cur /\ card.new = data
               ELSE card.data[Cur] = data /\ (card.xfer = "gets" => card.at = Cur + 1)
Aimed == ~stray /\ pc \in InCall =>
    /\ ~swapped => Matched
    /\ pc \in {"erase", "command"} => card.xfer \notin {"sends", "gets", "programs"}
    /\ pc \in {"token", "block"} =>
          card.xfer \in {"none", "program"} \/ (Own(card) /\ (op # "CardInfo" => card.at = Cur))
    /\ pc = "busy" /\ ~swapped => Programming

\* Only CMD0 wakes a card that was put in.
Exchanged == swapped /\ pc \in InCall => card.mode = "asleep"

\* Blocks go on to come only while they are read, or if CMD12 was lost.
Reads ==
    /\ lost = 0 /\ card.xfer = "sends" => pc \in {"token", "stop"} /\ op = "ReadMulti"
    /\ pc = "stop" /\ n = 0 => card.xfer \in {"none", "sends"}

\* What MSD0_Init knows of the card as it goes on.
NotV2 == card.kind \notin V2 \/ card.mode = "asleep"
SetsUp ==
    /\ pc \in InInit \ {"insert", "reset"} => card.xfer = "none"
    /\ pc = "cmd8" => card.mode # "ready"
    /\ pc \in {"cmd55", "acmd41"} /\ card.mode = "ready" => lost > 0
    /\ pc \in {"cmd55", "acmd41"} /\ path = 1 => CardType = "SDV1" /\ NotV2
    /\ pc \in {"cmd1", "cmd59", "cmd16"} => CardType \in {"SDV1", "MMC"} /\ NotV2

Carried == Where /\ CardOk(card) /\ Kept /\ Writes /\ Aimed /\ Exchanged /\ Reads
IInv == Typed /\ Carried /\ SetsUp /\ LeavesNothing

LEMMA KeptLeft ==
    ASSUME Kept, Left(card', card), may' = may
    PROVE  Kept'
  BY DEF Kept, Stored, Left, SameCard, Busy, CardOk, Card

-----------------------------------------------------------------------------
(* The steps of MSD0_Init.                                                     *)

InitStep ==
    /\ pc \in InInit /\ pc' \in InInit \cup {"out"}
    /\ retry' \in 0 .. Retries - 1 /\ ret' \in {"none", "ok", "err"}
    /\ CardType' \in Types /\ path' \in {1, 2} /\ fast' \in BOOLEAN /\ ready' \in BOOLEAN
    /\ op' = op /\ sector' = sector /\ n' = n /\ data' = data /\ cards' = cards
    /\ may' = may /\ swapped' = swapped /\ stray' = stray
    /\ Left(card', card) /\ card'.xfer \in {card.xfer, "none"} /\ lost' \in {lost, lost + 1}

LEMMA InitStepCarries ==
    ASSUME IInv, InitStep
    PROVE  Typed' /\ Carried'
<1>1. Typed'
  BY DEF IInv, InitStep, Typed, TypeOK, InInit, Left, SameCard, CardOk
<1>2. Where' /\ Writes' /\ Aimed' /\ Exchanged'
  BY DEF IInv, Carried, InitStep, Where, Writes, Aimed, Exchanged, InInit, InCall
<1>3. CardOk(card')
  BY DEF InitStep, Left, SameCard
<1>4. Kept'
  BY KeptLeft DEF IInv, Carried, InitStep
<1>5. Reads'
  BY DEF IInv, Carried, InitStep, Reads, InInit, Typed
<1> QED
  BY <1>1, <1>2, <1>3, <1>4, <1>5 DEF Carried

\* MSD0_Init returns 0 for what ReadyIfOk allows.
ReadyStep ==
    op = "Init" /\ pc # "out" /\ pc' = "out" /\ ret' = "ok" =>
        \/ card'.mode = "ready" /\ Matched'
        \/ pc = "cmd8" /\ card'.mode # "ready"
        \/ pc = "cmd55" /\ lost > 0
InitGoesOn == InitStep /\ SetsUp' /\ LeavesNothing' /\ ReadyStep

\* What a step of the driver does to its control, the count being below its bound.
Controlled == retry' \in 0 .. Retries - 1 /\ ret' \in {"none", "ok", "err"}
LEMMA GotoIs ==
    ASSUME Typed, NEW l, Goto(l)
    PROVE  pc' = l /\ ret' = ret /\ Controlled
  BY MSD0Assumption DEF Typed, TypeOK, Goto, Controlled
LEMMA ReturnIs ==
    ASSUME Typed, NEW r \in {"ok", "err"}, Return(r)
    PROVE  pc' = "out" /\ ret' = r /\ Controlled
  BY MSD0Assumption DEF Return, Controlled
LEMMA AgainIs ==
    ASSUME Typed, NEW l, Again(l, "err")
    PROVE  Controlled /\ ((pc' = "out" /\ ret' = "err") \/ (pc' = pc /\ ret' = ret))
<1>1. CASE retry + 1 = Retries
  BY <1>1, ReturnIs DEF Again
<1>2. CASE retry + 1 # Retries
  BY <1>2, MSD0Assumption DEF Again, Typed, TypeOK, Controlled
<1> QED
  BY <1>1, <1>2

\* A step that leaves what MSD0_Init does not touch.
LEMMA InitStepIs ==
    ASSUME IInv, pc \in InInit, pc' \in InInit \cup {"out"}, Controlled,
           CardType' \in Types, path' \in {1, 2}, fast' \in BOOLEAN, ready' \in BOOLEAN,
           op' = op, UNCHANGED <<sector, n, data, cards, history>>,
           Left(card', card), card'.xfer \in {card.xfer, "none"}, lost' \in {lost, lost + 1}
    PROVE  InitStep
  BY DEF InitStep, Controlled, history
LEMMA KeepIs ==
    ASSUME IInv, pc \in InInit, pc' \in InInit \cup {"out"}, Controlled,
           CardType' \in Types, fast' \in BOOLEAN, Keep,
           Left(card', card), card'.xfer \in {card.xfer, "none"}, lost' \in {lost, lost + 1}
    PROVE  InitStep /\ path' = path
<1>1. /\ op' = op /\ path' = path /\ UNCHANGED <<sector, n, data, cards, history>>
      /\ ready' = (pc' = "out" /\ ret' = "ok")
  BY DEF Keep, callVars
<1>2. path' \in {1, 2} /\ ready' \in BOOLEAN
  BY <1>1 DEF IInv, Typed
<1> QED
  BY <1>1, <1>2, InitStepIs

LEMMA InsertGoesOn ==
    ASSUME IInv, Insert
    PROVE  InitGoesOn
<1>0. card' = card /\ lost' = lost /\ CardType' = CardType /\ fast' = fast /\ pc = "insert" /\ Keep
  BY DEF Insert, cardVars
<1>1. Typed /\ CardOk(card) /\ CardType \in Types /\ fast \in BOOLEAN
  BY DEF IInv, Typed, TypeOK, Carried
<1>2. Controlled /\ ((pc' = "out" /\ ret' = "err") \/ pc' = "reset")
  <2>1. CASE card.kind = "none"
    BY <1>1, <2>1, ReturnIs DEF Insert
  <2>2. CASE card.kind # "none"
    BY <1>1, <2>2, GotoIs DEF Insert
  <2> QED
    BY <2>1, <2>2
<1>3. InitStep
  <2>1. Left(card', card) /\ card'.xfer \in {card.xfer, "none"}
    BY <1>0, <1>1, SameIsSame
  <2> QED
    BY <1>0, <1>1, <1>2, <2>1, KeepIs DEF InInit
<1> QED
  BY <1>0, <1>2, <1>3 DEF InitGoesOn, SetsUp, LeavesNothing, ReadyStep, InInit

LEMMA ResetGoesOn ==
    ASSUME IInv, Reset
    PROVE  InitGoesOn
<1>0. CardType' = CardType /\ fast' = fast /\ pc = "reset" /\ Keep
  BY DEF Reset
<1>1. Typed /\ CardOk(card) /\ CardType \in Types /\ fast \in BOOLEAN
  BY DEF IInv, Typed, TypeOK, Carried
<1>2. PICK a \in Answers("CMD0", 0) : Got(a) /\ IF a.r1 = "01" THEN Goto("cmd8") ELSE Again("reset", "err")
  BY DEF Reset
<1>3. AnsweredReset(a) /\ card' = a.card /\ lost' = a.lost
  BY <1>1, <1>2, ResetAnswers DEF Got
<1>4. \/ a.r1 = "01" /\ pc' = "cmd8" /\ Controlled
      \/ Controlled /\ ((pc' = "out" /\ ret' = "err") \/ (pc' = "reset" /\ ret' = ret))
  BY <1>0, <1>1, <1>2, GotoIs, AgainIs
<1>5. InitStep
  BY <1>0, <1>1, <1>3, <1>4, KeepIs DEF AnsweredReset, WasReset, More, InInit
<1>6. pc' = "cmd8" => card'.xfer = "none" /\ card'.mode # "ready"
  BY <1>3, <1>4 DEF AnsweredReset, WasReset
<1> QED
  BY <1>0, <1>4, <1>5, <1>6 DEF InitGoesOn, SetsUp, LeavesNothing, ReadyStep, InInit

\* A command that asks: the card is as it was, and moves no block.
LEMMA AskedIs ==
    ASSUME IInv, pc \in InInit \ {"insert", "reset"}, NEW cmd \in Asking, NEW arg,
           NEW a \in Answers(cmd, arg), Got(a)
    PROVE  /\ Left(card', card) /\ card'.xfer = "none" /\ card'.mode = card.mode /\ card'.kind = card.kind
           /\ lost' \in {lost, lost + 1} /\ lost \in Nat /\ card.mode \in {"asleep", "idle", "ready"}
           /\ a.r1 = "00" => card'.mode = "ready"
           /\ a.r1 = "05" /\ cmd = "CMD8" => card'.kind \notin V2
<1>1. CardOk(card) /\ card.xfer = "none" /\ lost \in Nat /\ card.mode \in {"asleep", "idle", "ready"}
  BY DEF IInv, Carried, SetsUp, Typed, CardOk, Card
<1>2. AnsweredAsked(a, cmd) /\ card' = a.card /\ lost' = a.lost
  BY <1>1, AskedAnswers DEF Got
<1>3. ~Busy(card)
  BY <1>1 DEF Busy
<1>4. Heeded(card', card) /\ lost' \in {lost, lost + 1}
  BY <1>2 DEF AnsweredAsked, WasAsked, More
<1>5. Left(card', card)
  BY <1>1, <1>3, <1>4, QuietIsLeft DEF Heeded
<1> QED
  BY <1>1, <1>2, <1>4, <1>5 DEF AnsweredAsked, WasAsked, Heeded, SameCard

LEMMA Cmd8GoesOn ==
    ASSUME IInv, Cmd8
    PROVE  InitGoesOn
<1>0. pc = "cmd8" /\ op' = op /\ UNCHANGED <<sector, n, data, cards, fast, history>> /\ ready' = (pc' = "out")
  BY DEF Cmd8
<1>1. Typed /\ CardType \in Types /\ fast \in BOOLEAN /\ path \in {1, 2} /\ card.mode # "ready"
  BY <1>0 DEF IInv, Typed, TypeOK, SetsUp
<1>2. PICK a \in Answers("CMD8", 1) :
        /\ Got(a)
        /\ CASE a.r1 = "05" -> CardType' = "SDV1" /\ path' = 1 /\ Goto("cmd55")
             [] a.r1 = "01" /\ card'.kind # "SDV2Other" -> path' = 2 /\ Goto("cmd55") /\ UNCHANGED CardType
             [] OTHER -> Return("ok") /\ UNCHANGED <<CardType, path>>
  BY DEF Cmd8
<1>3. /\ Left(card', card) /\ card'.xfer = "none" /\ card'.mode = card.mode
      /\ lost' \in {lost, lost + 1} /\ (a.r1 = "05" => card'.kind \notin V2)
  BY <1>0, <1>2, AskedIs DEF Asking, InInit
<1>4. \/ a.r1 = "05" /\ CardType' = "SDV1" /\ path' = 1 /\ Goto("cmd55")
      \/ path' = 2 /\ Goto("cmd55") /\ CardType' = CardType
      \/ Return("ok") /\ CardType' = CardType /\ path' = path
  BY <1>2
<1>5. \/ a.r1 = "05" /\ CardType' = "SDV1" /\ path' = 1 /\ pc' = "cmd55" /\ Controlled
      \/ path' = 2 /\ pc' = "cmd55" /\ CardType' = CardType /\ Controlled
      \/ pc' = "out" /\ CardType' = CardType /\ path' = path /\ Controlled
  BY <1>1, <1>4, GotoIs, ReturnIs
<1>6. InitStep
  <2>1. pc \in InInit /\ pc' \in InInit \cup {"out"} /\ Controlled
    BY <1>0, <1>5 DEF InInit
  <2>2. CardType' \in Types /\ path' \in {1, 2} /\ fast' \in BOOLEAN /\ ready' \in BOOLEAN
    BY <1>0, <1>1, <1>5 DEF Types
  <2>3. card'.xfer \in {card.xfer, "none"} /\ UNCHANGED <<sector, n, data, cards, history>>
    BY <1>0, <1>3
  <2> QED
    BY <1>0, <1>3, <2>1, <2>2, <2>3, InitStepIs
<1>7. SetsUp'
  BY <1>1, <1>3, <1>5 DEF SetsUp, InInit, NotV2
<1> QED
  BY <1>0, <1>1, <1>3, <1>6, <1>7 DEF InitGoesOn, LeavesNothing, ReadyStep

LEMMA Cmd55GoesOn ==
    ASSUME IInv, Cmd55
    PROVE  InitGoesOn
<1>0. pc = "cmd55" /\ Keep /\ CardType' = CardType /\ fast' = fast
  BY DEF Cmd55
<1>1. Typed /\ CardType \in Types /\ fast \in BOOLEAN /\ retry \in 0 .. Retries - 1 /\ ret \in {"none", "ok", "err"}
  BY DEF IInv, Typed, TypeOK
<1>2. PICK a \in Answers("CMD55", 0) :
        /\ Got(a)
        /\ IF a.r1 = "01" THEN pc' = "acmd41" /\ UNCHANGED <<retry, ret>>
           ELSE Return(IF a.r1 = "00" THEN "ok" ELSE "err")
  BY DEF Cmd55
<1>3. /\ Left(card', card) /\ card'.xfer = "none" /\ card'.mode = card.mode /\ card'.kind = card.kind
      /\ lost' \in {lost, lost + 1} /\ lost \in Nat /\ (a.r1 = "00" => card'.mode = "ready")
  BY <1>0, <1>2, AskedIs DEF Asking, InInit
<1>4. \/ pc' = "acmd41" /\ Controlled
      \/ pc' = "out" /\ Controlled /\ (ret' = "ok" => a.r1 = "00")
  <2>1. CASE a.r1 = "01"
    BY <1>1, <1>2, <2>1 DEF Controlled
  <2>2. CASE a.r1 = "00"
    BY <1>1, <1>2, <2>2, ReturnIs
  <2>3. CASE a.r1 \notin {"00", "01"}
    BY <1>1, <1>2, <2>3, ReturnIs
  <2> QED
    BY <2>1, <2>2, <2>3
<1>5. InitStep /\ path' = path
  BY <1>0, <1>1, <1>3, <1>4, KeepIs DEF InInit
<1>6. SetsUp'
  BY <1>0, <1>3, <1>4, <1>5 DEF SetsUp, InInit, NotV2, IInv
<1>7. ret' = "ok" /\ pc' = "out" => lost > 0
  BY <1>0, <1>3, <1>4 DEF IInv, SetsUp
<1> QED
  BY <1>0, <1>3, <1>5, <1>6, <1>7 DEF InitGoesOn, LeavesNothing, ReadyStep

\* A command that sets the card up: only an idle card is.
LEMMA SetUpIs ==
    ASSUME IInv, pc \in InInit \ {"insert", "reset"}, NEW cmd \in {"ACMD41", "CMD1"}, NEW arg,
           NEW a \in Answers(cmd, arg), Got(a)
    PROVE  /\ Left(card', card) /\ card'.xfer = "none" /\ card'.kind = card.kind
           /\ lost' \in {lost, lost + 1} /\ lost \in Nat
           /\ \/ card'.mode = card.mode
              \/ card'.mode = "ready" /\ card.mode # "asleep" /\ (a.r1 = "00" \/ lost' = lost + 1)
           /\ a.r1 = "00" => card'.mode = "ready"
<1>1. CardOk(card) /\ card.xfer = "none" /\ lost \in Nat
  BY DEF IInv, Carried, SetsUp, Typed
<1>2. AnsweredSetUp(a) /\ card' = a.card /\ lost' = a.lost
  BY <1>1, SetUpAnswers DEF Got
<1>3. ~Busy(card)
  BY <1>1 DEF Busy
<1>4. Left(card', card)
  BY <1>2, <1>3, QuietIsLeft DEF AnsweredSetUp
<1> QED
  BY <1>1, <1>2, <1>4 DEF AnsweredSetUp, SameCard, More

LEMMA Acmd41GoesOn ==
    ASSUME IInv, Acmd41
    PROVE  InitGoesOn
<1>0. pc = "acmd41" /\ Keep /\ CardType' = CardType
  BY DEF Acmd41
<1>1. /\ Typed /\ CardType \in Types /\ fast \in BOOLEAN /\ retry \in 0 .. Retries - 1
      /\ ret \in {"none", "ok", "err"} /\ path \in {1, 2}
  BY DEF IInv, Typed, TypeOK
<1>2. PICK a \in Answers("ACMD41", path - 1) :
        /\ Got(a)
        /\ IF a.r1 = "00" THEN Goto(IF path = 1 THEN "cmd59" ELSE "cmd58")
           ELSE IF retry + 1 < Retries THEN pc' = "cmd55" /\ retry' = retry + 1 /\ UNCHANGED ret
           ELSE IF path = 1 THEN Goto("cmd1") ELSE Return("err")
        /\ fast' = (fast \/ (a.r1 = "00" /\ path = 1))
  BY DEF Acmd41
<1>3. /\ Left(card', card) /\ card'.xfer = "none" /\ card'.kind = card.kind
      /\ lost' \in {lost, lost + 1} /\ lost \in Nat
      /\ \/ card'.mode = card.mode
         \/ card'.mode = "ready" /\ card.mode # "asleep" /\ (a.r1 = "00" \/ lost' = lost + 1)
      /\ a.r1 = "00" => card'.mode = "ready"
  BY <1>0, <1>2, SetUpIs DEF InInit
<1>4. \/ pc' = "cmd59" /\ path = 1 /\ a.r1 = "00" /\ Controlled
      \/ pc' = "cmd58" /\ Controlled
      \/ pc' = "cmd55" /\ a.r1 # "00" /\ Controlled
      \/ pc' = "cmd1" /\ path = 1 /\ Controlled
      \/ pc' = "out" /\ ret' = "err" /\ Controlled
  <2>1. CASE a.r1 = "00" /\ path = 1
    BY <1>1, <1>2, <2>1, GotoIs
  <2>2. CASE a.r1 = "00" /\ path # 1
    BY <1>1, <1>2, <2>2, GotoIs
  <2>3. CASE a.r1 # "00" /\ retry + 1 < Retries
    BY <1>1, <1>2, <2>3, MSD0Assumption DEF Controlled
  <2>4. CASE a.r1 # "00" /\ ~(retry + 1 < Retries) /\ path = 1
    BY <1>1, <1>2, <2>4, GotoIs
  <2>5. CASE a.r1 # "00" /\ ~(retry + 1 < Retries) /\ path # 1
    BY <1>1, <1>2, <2>5, ReturnIs
  <2> QED
    BY <2>1, <2>2, <2>3, <2>4, <2>5
<1>5. InitStep /\ path' = path
  <2>1. fast' \in BOOLEAN
    BY <1>1, <1>2
  <2> QED
    BY <1>0, <1>1, <1>3, <1>4, <2>1, KeepIs DEF InInit
<1>6. path = 1 => CardType = "SDV1" /\ (card.kind \notin V2 \/ card.mode = "asleep")
  BY <1>0 DEF IInv, SetsUp, NotV2
<1>7. card.mode = "ready" => lost > 0
  BY <1>0 DEF IInv, SetsUp
<1>8. SetsUp'
  BY <1>0, <1>3, <1>4, <1>5, <1>6, <1>7 DEF SetsUp, InInit, NotV2
<1> QED
  BY <1>3, <1>4, <1>5, <1>8 DEF InitGoesOn, LeavesNothing, ReadyStep

LEMMA Cmd1GoesOn ==
    ASSUME IInv, Cmd1
    PROVE  InitGoesOn
<1>0. pc = "cmd1" /\ Keep
  BY DEF Cmd1
<1>1. Typed /\ CardType \in Types /\ fast \in BOOLEAN
  BY DEF IInv, Typed, TypeOK
<1>2. PICK a \in Answers("CMD1", 0) :
        /\ Got(a)
        /\ IF a.r1 = "00" THEN Goto("cmd59") /\ CardType' = "MMC" /\ fast' = TRUE
           ELSE Again("cmd1", "err") /\ UNCHANGED <<CardType, fast>>
  BY DEF Cmd1
<1>3. /\ Left(card', card) /\ card'.xfer = "none" /\ card'.kind = card.kind
      /\ lost' \in {lost, lost + 1}
      /\ card'.mode = card.mode \/ (card'.mode = "ready" /\ card.mode # "asleep")
  BY <1>0, <1>2, SetUpIs DEF InInit
<1>4. \/ pc' = "cmd59" /\ CardType' = "MMC" /\ fast' = TRUE /\ Controlled
      \/ pc' = "cmd1" /\ CardType' = CardType /\ fast' = fast /\ Controlled
      \/ pc' = "out" /\ ret' = "err" /\ CardType' = CardType /\ fast' = fast /\ Controlled
  <2>1. CASE a.r1 = "00"
    BY <1>1, <1>2, <2>1, GotoIs
  <2>2. CASE a.r1 # "00"
    BY <1>0, <1>1, <1>2, <2>2, AgainIs
  <2> QED
    BY <2>1, <2>2
<1>5. InitStep /\ path' = path
  <2>1. fast' \in BOOLEAN /\ CardType' \in Types
    BY <1>1, <1>4 DEF Types
  <2> QED
    BY <1>0, <1>1, <1>3, <1>4, <2>1, KeepIs DEF InInit
<1>6. CardType \in {"SDV1", "MMC"} /\ (card.kind \notin V2 \/ card.mode = "asleep")
  BY <1>0 DEF IInv, SetsUp, NotV2
<1>7. SetsUp'
  BY <1>0, <1>3, <1>4, <1>5, <1>6 DEF SetsUp, InInit, NotV2
<1> QED
  BY <1>3, <1>4, <1>5, <1>7 DEF InitGoesOn, LeavesNothing, ReadyStep

LEMMA Cmd59GoesOn ==
    ASSUME IInv, Cmd59
    PROVE  InitGoesOn
<1>0. pc = "cmd59" /\ Keep /\ CardType' = CardType /\ fast' = fast
  BY DEF Cmd59
<1>1. Typed /\ CardType \in Types /\ fast \in BOOLEAN
  BY DEF IInv, Typed, TypeOK
<1>2. PICK a \in Answers("CMD59", 0) : Got(a) /\ IF a.r1 = "00" THEN Goto("cmd16") ELSE Return("err")
  BY DEF Cmd59
<1>3. /\ Left(card', card) /\ card'.xfer = "none" /\ card'.mode = card.mode /\ card'.kind = card.kind
      /\ lost' \in {lost, lost + 1}
  BY <1>0, <1>2, AskedIs DEF Asking, InInit
<1>4. (pc' = "cmd16" \/ (pc' = "out" /\ ret' = "err")) /\ Controlled
  BY <1>1, <1>2, GotoIs, ReturnIs
<1>5. InitStep /\ path' = path
  BY <1>0, <1>1, <1>3, <1>4, KeepIs DEF InInit
<1>6. CardType \in {"SDV1", "MMC"} /\ (card.kind \notin V2 \/ card.mode = "asleep")
  BY <1>0 DEF IInv, SetsUp, NotV2
<1>7. SetsUp'
  BY <1>0, <1>3, <1>4, <1>6 DEF SetsUp, InInit, NotV2
<1> QED
  BY <1>3, <1>4, <1>5, <1>7 DEF InitGoesOn, LeavesNothing, ReadyStep

LEMMA Cmd16GoesOn ==
    ASSUME IInv, Cmd16
    PROVE  InitGoesOn
<1>0. pc = "cmd16" /\ Keep /\ CardType' = CardType /\ fast' = fast
  BY DEF Cmd16
<1>1. Typed /\ CardType \in Types /\ fast \in BOOLEAN
  BY DEF IInv, Typed, TypeOK
<1>2. PICK a \in Answers("CMD16", 0) : Got(a) /\ Return(IF a.r1 = "00" THEN "ok" ELSE "err")
  BY DEF Cmd16
<1>3. /\ Left(card', card) /\ card'.xfer = "none" /\ card'.mode = card.mode /\ card'.kind = card.kind
      /\ lost' \in {lost, lost + 1} /\ (a.r1 = "00" => card'.mode = "ready")
  BY <1>0, <1>2, AskedIs DEF Asking, InInit
<1>4. pc' = "out" /\ Controlled /\ (ret' = "ok" => a.r1 = "00")
  <2>1. CASE a.r1 = "00"
    BY <1>1, <1>2, <2>1, ReturnIs
  <2>2. CASE a.r1 # "00"
    BY <1>1, <1>2, <2>2, ReturnIs
  <2> QED
    BY <2>1, <2>2
<1>5. InitStep
  BY <1>0, <1>1, <1>3, <1>4, KeepIs DEF InInit
<1>6. CardType \in {"SDV1", "MMC"} /\ (card.kind \notin V2 \/ card.mode = "asleep")
  BY <1>0 DEF IInv, SetsUp, NotV2
<1>7. ret' = "ok" => card'.mode = "ready" /\ Matched'
  BY <1>0, <1>3, <1>4, <1>6 DEF Matched, V2
<1> QED
  BY <1>3, <1>4, <1>5, <1>7 DEF InitGoesOn, LeavesNothing, ReadyStep, SetsUp, InInit

LEMMA Cmd58GoesOn ==
    ASSUME IInv, Cmd58
    PROVE  InitGoesOn
<1>0. pc = "cmd58" /\ Keep
  BY DEF Cmd58
<1>1. Typed /\ CardType \in Types /\ fast \in BOOLEAN
  BY DEF IInv, Typed, TypeOK
<1>2. PICK a \in Answers("CMD58", 0) :
        /\ Got(a)
        /\ IF a.r1 # "00" THEN Return("err") /\ UNCHANGED <<CardType, fast>>
           ELSE /\ Return("ok") /\ fast' = TRUE
                /\ CardType' = IF card'.kind = "SDV2HC" THEN "SDV2HC" ELSE "SDV2"
  BY DEF Cmd58
<1>3. /\ Left(card', card) /\ card'.xfer = "none" /\ card'.mode = card.mode
      /\ lost' \in {lost, lost + 1} /\ (a.r1 = "00" => card'.mode = "ready")
  BY <1>0, <1>2, AskedIs DEF Asking, InInit
<1>4. pc' = "out" /\ Controlled
      /\ \/ ret' = "err" /\ CardType' = CardType /\ fast' = fast
         \/ /\ ret' = "ok" /\ a.r1 = "00" /\ fast' = TRUE
            /\ CardType' = IF card'.kind = "SDV2HC" THEN "SDV2HC" ELSE "SDV2"
  <2>1. CASE a.r1 = "00"
    BY <1>1, <1>2, <2>1, ReturnIs
  <2>2. CASE a.r1 # "00"
    BY <1>1, <1>2, <2>2, ReturnIs
  <2> QED
    BY <2>1, <2>2
<1>5. InitStep
  <2>1. fast' \in BOOLEAN /\ CardType' \in Types
    BY <1>1, <1>4 DEF Types
  <2> QED
    BY <1>0, <1>1, <1>3, <1>4, <2>1, KeepIs DEF InInit
<1>6. ret' = "ok" => card'.mode = "ready" /\ Matched'
  BY <1>3, <1>4 DEF Matched
<1> QED
  BY <1>3, <1>4, <1>5, <1>6 DEF InitGoesOn, LeavesNothing, ReadyStep, SetsUp, InInit

LEMMA InitKeeps ==
    ASSUME IInv, MSD0_Init
    PROVE  IInv' /\ ReadyStep /\ pc # "token"
<1>1. InitGoesOn
  BY InsertGoesOn, ResetGoesOn, Cmd8GoesOn, Cmd55GoesOn, Acmd41GoesOn, Cmd1GoesOn, Cmd59GoesOn,
     Cmd16GoesOn, Cmd58GoesOn DEF MSD0_Init
<1>2. InitStep
  BY <1>1 DEF InitGoesOn
<1>3. Typed' /\ Carried'
  BY <1>2, InitStepCarries
<1> QED
  BY <1>1, <1>2, <1>3 DEF InitGoesOn, InitStep, InInit, IInv

-----------------------------------------------------------------------------
(* The steps of the calls about blocks.                                        *)

\* A block that is read is one that the sector may hold.
ReadsStep ==
    pc = "token" /\ n' < n /\ op \in {"Read", "ReadMulti"} => data' \in may[Cur] \/ stray

Held == may \in [Sectors -> SUBSET (Data \cup {Blank})]
CallStep ==
    /\ pc \in InCall /\ Controlled /\ Still
    /\ n' \in 0 .. 2 /\ data' \in Data \cup {Blank} /\ lost' \in {lost, lost + 1}
    /\ CardOk(card') /\ Held' /\ Kept'

LEMMA CallTyped ==
    ASSUME IInv, CallStep, pc' \in InCall \cup {"out"}
    PROVE  Typed'
<1>1. /\ op' \in {"none", op} /\ sector' \in {0, sector} /\ swapped' \in {FALSE, swapped} /\ stray' \in {FALSE, stray}
      /\ path' = path /\ CardType' = CardType /\ fast' = fast /\ ready' = ready /\ cards' = cards
  <2>1. CASE pc' = "out"
    BY <2>1 DEF CallStep, Still
  <2>2. CASE pc' # "out"
    BY <2>2 DEF CallStep, Still
  <2> QED
    BY <2>1, <2>2
<1>2. Typed
  BY DEF IInv
<1>3. pc' \in InCall \cup {"out"} /\ Controlled /\ n' \in 0 .. 2 /\ data' \in Data \cup {Blank}
      /\ lost' \in {lost, lost + 1} /\ card' \in Card /\ Held'
  BY DEF CallStep, CardOk
<1>4. TypeOK'
  BY <1>1, <1>2, <1>3 DEF Typed, TypeOK, InCall, Controlled
<1>5. swapped' \in BOOLEAN /\ stray' \in BOOLEAN /\ fast' \in BOOLEAN /\ ready' \in BOOLEAN
  BY <1>1, <1>2 DEF Typed
<1>6. op' \in {"none", "Init", "CardInfo"} \cup Blocks /\ path' \in {1, 2}
  BY <1>1, <1>2 DEF Typed
<1>7. lost' \in Nat /\ cards' \in Nat
  BY <1>1, <1>2, <1>3 DEF Typed
<1> QED
  BY <1>3, <1>4, <1>5, <1>6, <1>7 DEF Typed, Held

LEMMA CallEnds ==
    ASSUME IInv, CallStep, pc' = "out", lost' = 0 => card'.xfer # "sends",
           ret' = "ok" => card'.xfer = "none" \/ lost' > 0
    PROVE  IInv'
<1>1. Typed'
  BY CallTyped
<1>2. op' = "none"
  BY DEF CallStep, Still
<1>3. Where' /\ Writes' /\ Aimed' /\ Exchanged' /\ Reads' /\ SetsUp'
  BY <1>2 DEF Where, Writes, Aimed, Exchanged, Reads, SetsUp, InInit, InCall
<1>4. LeavesNothing'
  BY DEF LeavesNothing
<1> QED
  BY <1>1, <1>3, <1>4 DEF CallStep, IInv, Carried

LEMMA CallGoes ==
    ASSUME IInv, CallStep, pc' \in InCall, Where', Writes', Aimed', Exchanged', Reads'
    PROVE  IInv'
<1>1. Typed'
  BY CallTyped
<1>2. SetsUp' /\ LeavesNothing'
  BY DEF SetsUp, LeavesNothing, InInit, InCall
<1> QED
  BY <1>1, <1>2 DEF CallStep, IInv, Carried

LEMMA StillIs ==
    ASSUME Still, pc' \in InCall
    PROVE  op' = op /\ sector' = sector /\ swapped' = swapped /\ stray' = stray /\ CardType' = CardType
  BY DEF Still, InCall

LEMMA Times ==
    ASSUME NEW i \in Nat, NEW s \in {0, 1}, NEW b \in Nat, b >= 2, i * b = s * b
    PROVE  i = s
<1>1. CASE i = 0
  <2>1. s * b = 0
    BY <1>1
  <2>2. s # 1
    BY <2>1
  <2> QED
    BY <1>1, <2>2
<1>2. CASE i = 1
  <2>1. s * b = b
    BY <1>2
  <2>2. s # 0
    BY <2>1
  <2> QED
    BY <1>2, <2>2
<1>3. CASE i >= 2
  <2>1. PICK k \in Nat : i = k + 2
    <3>1. i - 2 \in Nat /\ i = (i - 2) + 2
      BY <1>3
    <3> QED
      BY <3>1
  <2>2. i * b = k * b + 2 * b /\ k * b \in Nat
    BY <2>1
  <2>3. s * b <= b
    <3>1. CASE s = 0
      BY <3>1
    <3>2. CASE s = 1
      BY <3>2
    <3> QED
      BY <3>1, <3>2
  <2> QED
    BY <2>2, <2>3
<1> QED
  BY <1>1, <1>2, <1>3

\* The card is sent the address of the sector asked for, in its own unit.
LEMMA AddressIs ==
    ASSUME NEW s \in {0, 1}, Matched, NEW i \in At(card, Address(s))
    PROVE  i = s
<1>1. B \in Nat /\ B >= 2
  BY SDCardAssumption
<1>2. CASE card.kind = "SDV2HC"
  <2>1. Address(s) = s /\ i \in {s}
    BY <1>2 DEF Matched, Address, At
  <2> QED
    BY <2>1
<1>3. CASE card.kind # "SDV2HC"
  <2>1. Address(s) = s * B
    BY <1>3 DEF Matched, Address
  <2>2. i \in Sectors /\ i * B = s * B
    BY <1>3, <2>1 DEF At
  <2>3. i \in Nat
    BY <1>1, <2>2 DEF Sectors
  <2> QED
    BY <1>1, <2>2, <2>3, Times
<1> QED
  BY <1>2, <1>3

LEMMA CommandIs ==
    ASSUME op \in {"CardInfo"} \cup Blocks, op = "CardInfo" => n \in {1, 2}, NEW c, NEW arg,
           c.xfer = XferOf(CommandOf)
    PROVE  Own(c) /\ (c.xfer = "sends" => op = "ReadMulti") /\ (op # "CardInfo" => ArgOf(CommandOf, arg) = arg)
<1>1. CASE op = "Read"
  BY <1>1 DEF CommandOf, XferOf, Own, ArgOf
<1>2. CASE op = "ReadMulti"
  BY <1>2 DEF CommandOf, XferOf, Own, ArgOf
<1>3. CASE op = "Write"
  BY <1>3 DEF CommandOf, XferOf, Own, ArgOf
<1>4. CASE op = "WriteMulti"
  BY <1>4 DEF CommandOf, XferOf, Own, ArgOf
<1>5. CASE op = "CardInfo"
  BY <1>5 DEF CommandOf, XferOf, Own, ArgOf
<1> QED
  BY <1>1, <1>2, <1>3, <1>4, <1>5 DEF Blocks

LEMMA CommandStarts ==
    ASSUME op \in {"CardInfo"} \cup Blocks, op = "CardInfo" => n \in {1, 2}
    PROVE  CommandOf \in Starting
  BY DEF CommandOf, Starting, Blocks

LEMMA HeldKept ==
    ASSUME Typed, may' = may
    PROVE  Held'
  BY DEF Typed, Held

LEMMA CommandKeeps ==
    ASSUME IInv, Command
    PROVE  IInv'
<1>0. pc = "command" /\ pc \in InCall /\ may' = may /\ Still
  BY DEF Command, InCall
<1>1. /\ Typed /\ CardOk(card) /\ Kept /\ lost \in Nat /\ n \in 0 .. 2 /\ data \in Data \cup {Blank}
      /\ swapped \in BOOLEAN
  BY DEF IInv, Carried, Typed, TypeOK
<1>2. /\ op \in {"CardInfo"} \cup Blocks /\ sector = (IF op \in {"Read", "Write"} THEN 1 ELSE 0)
      /\ IF op \in {"Read", "Write"} THEN n = 1 ELSE n = 2 \/ (op = "CardInfo" /\ n = 1)
  BY <1>0 DEF IInv, Carried, Where
<1>3. op = "CardInfo" => n \in {1, 2}
  BY <1>2
<1> DEFINE arg == IF op = "CardInfo" THEN 0 ELSE Address(sector)
<1>4. PICK a \in Answers(CommandOf, arg) :
        /\ Got(a)
        /\ IF a.r1 # "00" THEN Return("err") /\ Done
           ELSE Goto(IF op \in {"Write", "WriteMulti"} THEN "block" ELSE "token") /\ UNCHANGED <<n, data>>
  BY DEF Command
<1>5. op # "CardInfo" => arg = Address(sector)
  OBVIOUS
<1> HIDE DEF arg
<1>6. AnsweredStart(a, CommandOf, arg) /\ card' = a.card /\ lost' = a.lost
  BY <1>1, <1>2, <1>3, <1>4, CommandStarts, StartAnswers DEF Got
<1>7. Left(card', card) /\ CardOk(card') /\ card'.mode = card.mode /\ lost' \in {lost, lost + 1}
  BY <1>6 DEF AnsweredStart, Left, SameCard, More
<1>8. Kept' /\ Held'
  BY <1>0, <1>1, <1>7, KeptLeft, HeldKept
<1>9. lost = 0 => card.xfer # "sends"
  BY <1>0 DEF IInv, Carried, Reads
<1>10. CASE a.r1 # "00"
  <2>1. pc' = "out" /\ ret' = "err" /\ Controlled /\ n' = 0 /\ data' = Blank
    BY <1>1, <1>4, <1>10, ReturnIs DEF Done
  <2>2. lost' = 0 => card'.xfer # "sends"
    BY <1>1, <1>6, <1>9, <1>10 DEF AnsweredStart, More
  <2>3. CallStep
    BY <1>0, <1>7, <1>8, <2>1 DEF CallStep
  <2> QED
    BY <2>1, <2>2, <2>3, CallEnds
<1>11. CASE a.r1 = "00"
  <2>1. pc' = (IF op \in {"Write", "WriteMulti"} THEN "block" ELSE "token") /\ Controlled
    BY <1>1, <1>4, <1>11, GotoIs
  <2>2. n' = n /\ data' = data /\ pc' \in InCall
    BY <1>4, <1>11, <2>1 DEF InCall
  <2>3. op' = op /\ sector' = sector /\ swapped' = swapped /\ stray' = stray /\ CardType' = CardType
    BY <1>0, <2>2, StillIs
  <2>4. CallStep
    BY <1>0, <1>1, <1>7, <1>8, <2>1, <2>2 DEF CallStep
  <2>5. Where'
    BY <1>2, <1>3, <2>1, <2>2, <2>3 DEF Where, InInit, InCall, Blocks
  <2>6. Writes' /\ Exchanged'
    BY <1>0, <1>7, <2>1, <2>2, <2>3 DEF Writes, Exchanged, IInv, Carried
  <2>7. \/ card' = card /\ (Busy(card) \/ card.xfer = "sends")
        \/ card'.xfer = XferOf(CommandOf) /\ card'.at \in At(card, ArgOf(CommandOf, arg))
    BY <1>6, <1>11 DEF AnsweredStart
  <2>8. card'.xfer = XferOf(CommandOf) =>
          Own(card') /\ (card'.xfer = "sends" => op = "ReadMulti") /\ (op # "CardInfo" => ArgOf(CommandOf, arg) = arg)
    BY <1>2, <1>3, CommandIs
  <2>9. Reads'
    <3>1. lost' = 0 /\ card'.xfer = "sends" => card'.xfer = XferOf(CommandOf)
      BY <1>1, <1>7, <1>9, <2>7 DEF Busy
    <3> QED
      BY <1>2, <2>1, <2>3, <2>8, <3>1 DEF Reads, Blocks
  <2>10. Aimed'
    <3> SUFFICES ASSUME ~stray
                 PROVE  Aimed'
      BY <2>3 DEF Aimed
    <3>1. (~swapped => Matched) /\ card.xfer \notin {"sends", "gets", "programs"}
      BY <1>0 DEF IInv, Carried, Aimed
    <3>2. ~swapped => Matched'
      BY <1>7, <2>3, <3>1 DEF Matched, Left, SameCard
    <3>3. card'.xfer \in {"none", "program"} \/ (Own(card)' /\ (op' # "CardInfo" => card'.at = Cur'))
      <4>1. CASE swapped
        <5>1. card'.mode = "asleep"
          BY <1>0, <1>7, <4>1 DEF IInv, Carried, Exchanged
        <5> QED
          BY <1>7, <5>1 DEF CardOk
      <4>2. CASE ~swapped /\ card' = card /\ (Busy(card) \/ card.xfer = "sends")
        BY <3>1, <4>2 DEF Busy
      <4>3. CASE ~swapped /\ card'.xfer = XferOf(CommandOf) /\ card'.at \in At(card, ArgOf(CommandOf, arg))
        <5>1. op # "CardInfo" => card'.at = sector
          BY <1>2, <1>5, <2>8, <3>1, <4>3, AddressIs
        <5>2. op # "CardInfo" => Cur' = sector
          BY <1>2, <2>2, <2>3 DEF Cur, Blocks
        <5>3. Own(card)'
          BY <2>3, <2>8, <4>3 DEF Own
        <5> QED
          BY <2>3, <5>1, <5>2, <5>3
      <4> QED
        BY <2>7, <4>1, <4>2, <4>3
    <3> QED
      BY <2>1, <2>3, <3>2, <3>3 DEF Aimed
  <2> QED
    BY <2>2, <2>4, <2>5, <2>6, <2>9, <2>10, CallGoes
<1> QED
  BY <1>10, <1>11

LEMMA EraseKeeps ==
    ASSUME IInv, Erase
    PROVE  IInv'
<1>0. /\ pc = "erase" /\ pc \in InCall /\ may' = may /\ Still /\ Goto("command") /\ n' = n /\ data' = data
  BY DEF Erase, InCall
<1>1. /\ Typed /\ CardOk(card) /\ Kept /\ lost \in Nat /\ n \in 0 .. 2 /\ data \in Data \cup {Blank}
      /\ op = "WriteMulti" /\ n = 2 /\ sector = 0
  BY <1>0 DEF IInv, Carried, Typed, TypeOK, Where, InCall
<1>2. Left(card', card) /\ card'.mode = card.mode /\ card'.xfer \in {card.xfer, "none"} /\ lost' \in {lost, lost + 1}
  <2>1. CASE card' = card /\ lost' = lost
    BY <1>1, <2>1, SameIsSame
  <2>2. CASE \E a \in Answers("ACMD23", n) : Got(a)
    <3>1. PICK a \in Answers("ACMD23", n) : Got(a)
      BY <2>2
    <3>2. AnsweredErase(a)
      BY <1>1, <3>1, EraseAnswers
    <3> QED
      BY <3>1, <3>2 DEF AnsweredErase, WasErased, More, Got
  <2> QED
    BY <2>1, <2>2 DEF Erase, cardVars
<1>3. pc' = "command" /\ Controlled /\ pc' \in InCall
  BY <1>0, <1>1, GotoIs DEF InCall
<1>4. CardOk(card') /\ Kept' /\ Held'
  BY <1>0, <1>1, <1>2, KeptLeft, HeldKept DEF Left, SameCard
<1>5. op' = op /\ sector' = sector /\ swapped' = swapped /\ stray' = stray /\ CardType' = CardType
  BY <1>0, <1>3, StillIs
<1>6. CallStep
  BY <1>0, <1>1, <1>2, <1>3, <1>4 DEF CallStep
<1>7. Where' /\ Writes'
  BY <1>0, <1>1, <1>3, <1>5 DEF Where, Writes, InInit, InCall, Blocks
<1>8. Exchanged' /\ Reads'
  BY <1>0, <1>1, <1>2, <1>3, <1>5 DEF Exchanged, Reads, IInv, Carried
<1>9. Aimed'
  BY <1>0, <1>2, <1>3, <1>5 DEF Aimed, Matched, Left, SameCard, IInv, Carried
<1> QED
  BY <1>3, <1>6, <1>7, <1>8, <1>9, CallGoes

LEMMA StopKeeps ==
    ASSUME IInv, Stop
    PROVE  IInv'
<1>0. /\ pc = "stop" /\ pc \in InCall /\ may' = may /\ Still /\ n' = 0 /\ data' = Blank
      /\ Return(IF n = 0 THEN "ok" ELSE "err")
  BY DEF Stop, InCall, Done
<1>1. Typed /\ CardOk(card) /\ Kept /\ lost \in Nat
  BY DEF IInv, Carried, Typed
<1>2. PICK a \in Answers("CMD12", 0) : Got(a)
  BY DEF Stop
<1>3. AnsweredStop(a) /\ card' = a.card /\ lost' = a.lost
  BY <1>1, <1>2, StopAnswers DEF Got
<1>4. pc' = "out" /\ Controlled /\ (ret' = "ok" => n = 0)
  <2>1. CASE n = 0
    BY <1>0, <1>1, <2>1, ReturnIs
  <2>2. CASE n # 0
    BY <1>0, <1>1, <2>2, ReturnIs
  <2> QED
    BY <2>1, <2>2
<1>5. CardOk(card') /\ Kept' /\ Held' /\ lost' \in {lost, lost + 1}
  BY <1>0, <1>1, <1>3, KeptLeft, HeldKept DEF Left, SameCard, AnsweredStop, More
<1>6. CallStep
  BY <1>0, <1>4, <1>5 DEF CallStep
<1>7. lost' = 0 => card'.xfer # "sends"
  <2>1. CASE Busy(card)
    BY <1>3, <2>1 DEF AnsweredStop, Left, Busy
  <2>2. CASE ~Busy(card)
    BY <1>1, <1>3, <2>2 DEF AnsweredStop, More
  <2> QED
    BY <2>1, <2>2
<1>8. ret' = "ok" => card'.xfer = "none" \/ lost' > 0
  <2> SUFFICES ASSUME ret' = "ok"
               PROVE  card'.xfer = "none" \/ lost' > 0
    OBVIOUS
  <2>1. ~Busy(card)
    BY <1>0, <1>4 DEF Busy, IInv, Carried, Reads
  <2> QED
    BY <1>1, <1>3, <2>1 DEF AnsweredStop, More
<1> QED
  BY <1>4, <1>6, <1>7, <1>8, CallEnds

\* A block the card sends, and what it is about then.
Sent(d, b, c) ==
    /\ Left(d, c) /\ b \in Data \cup {Blank}
    /\ \/ c.xfer = "send" /\ d.xfer = "none" /\ b = c.data[c.at]
       \/ c.xfer = "register" /\ d.xfer = "none"
       \/ c.xfer = "sends" /\ d.xfer = "sends" /\ d.at = c.at + 1 /\ b = c.data[c.at]

LEMMA SendsIs ==
    ASSUME NEW c, CardOk(c), NEW o \in Sends(c)
    PROVE  Sent(o[1], o[2], c)
<1>1. CASE c.xfer = "send"
  <2>1. o[1] = Drop(c) /\ o[2] = c.data[c.at]
    BY <1>1 DEF Sends
  <2>2. Dropped(o[1], c)
    BY <2>1, DropIs
  <2>3. Left(o[1], c)
    BY <1>1, <2>2, QuietIsLeft DEF Dropped, Busy
  <2> QED
    BY <1>1, <2>1, <2>2, <2>3 DEF Sent, Dropped, CardOk, Card
<1>2. CASE c.xfer = "register"
  <2>1. o[1] = Drop(c) /\ o[2] = Blank
    BY <1>2 DEF Sends
  <2>2. Dropped(o[1], c)
    BY <2>1, DropIs
  <2>3. Left(o[1], c)
    BY <1>2, <2>2, QuietIsLeft DEF Dropped, Busy
  <2> QED
    BY <1>2, <2>1, <2>2, <2>3 DEF Sent, Dropped
<1>3. CASE c.xfer = "sends"
  <2> DEFINE d == [c EXCEPT !.at = @ + 1]
  <2>1. c.at + 1 \in Sectors /\ o[1] = d /\ o[2] = c.data[c.at]
    BY <1>3 DEF Sends
  <2>2. SameCard(d, c) /\ d.xfer = "sends" /\ d.at = c.at + 1
    BY <1>3, <2>1 DEF SameCard, CardOk, Card
  <2> HIDE DEF d
  <2>3. Left(o[1], c)
    BY <1>3, <2>1, <2>2, QuietIsLeft DEF Busy
  <2> QED
    BY <1>3, <2>1, <2>2, <2>3 DEF Sent, CardOk, Card
<1> QED
  BY <1>1, <1>2, <1>3 DEF Sends

LEMMA TokenKeeps ==
    ASSUME IInv, Token
    PROVE  IInv' /\ ReadsStep
<1>0. pc = "token" /\ pc \in InCall /\ may' = may /\ Still /\ lost' = lost
  BY DEF Token, InCall
<1>1. /\ Typed /\ CardOk(card) /\ Kept /\ lost \in Nat /\ n \in 0 .. 2
      /\ op \in {"CardInfo", "Read", "ReadMulti"} /\ n >= 1 /\ (op = "Read" => n = 1)
      /\ sector = (IF op \in {"Read", "Write"} THEN 1 ELSE 0)
      /\ (lost = 0 /\ card.xfer = "sends" => op = "ReadMulti")
  BY <1>0 DEF IInv, Carried, Typed, TypeOK, Where, Reads
<1>2. /\ ~stray => /\ card.xfer \in {"none", "program"} \/ (Own(card) /\ (op # "CardInfo" => card.at = Cur))
                   /\ ~swapped => Matched
      /\ swapped => card.mode = "asleep"
  BY <1>0 DEF IInv, Carried, Aimed, Exchanged
<1>3. CASE \E o \in Sends(card) :
            /\ card' = o[1] /\ data' = o[2] /\ n' = n - 1
            /\ IF op = "Read" THEN Goto("stop")
               ELSE IF n = 1 THEN IF op = "ReadMulti" THEN Goto("stop") ELSE Return("ok")
               ELSE Goto(IF op = "ReadMulti" THEN "token" ELSE "command")
  <2>1. PICK o \in Sends(card) :
            /\ card' = o[1] /\ data' = o[2] /\ n' = n - 1
            /\ IF op = "Read" THEN Goto("stop")
               ELSE IF n = 1 THEN IF op = "ReadMulti" THEN Goto("stop") ELSE Return("ok")
               ELSE Goto(IF op = "ReadMulti" THEN "token" ELSE "command")
    BY <1>3
  <2>2. Sent(card', data', card) /\ n' = n - 1
    BY <1>1, <2>1, SendsIs
  <2>3. Left(card', card) /\ CardOk(card') /\ data' \in Data \cup {Blank} /\ card'.kind = card.kind
    BY <2>2 DEF Sent, Left, SameCard
  <2>4. \/ card.xfer = "send" /\ card'.xfer = "none" /\ data' = card.data[card.at]
        \/ card.xfer = "register" /\ card'.xfer = "none"
        \/ card.xfer = "sends" /\ card'.xfer = "sends" /\ card'.at = card.at + 1 /\ data' = card.data[card.at]
    BY <2>2 DEF Sent
  <2>5. Kept' /\ Held' /\ n' \in 0 .. 2
    BY <1>0, <1>1, <2>2, <2>3, KeptLeft, HeldKept
  <2>6. /\ Controlled
        /\ \/ pc' = "stop" /\ op \in {"Read", "ReadMulti"}
           \/ pc' = "token" /\ op = "ReadMulti" /\ n = 2
           \/ pc' = "command" /\ op = "CardInfo" /\ n = 2
           \/ pc' = "out" /\ op = "CardInfo"
    <3>1. CASE op = "Read"
      BY <1>1, <2>1, <3>1, GotoIs
    <3>2. CASE op = "ReadMulti"
      BY <1>1, <2>1, <3>2, GotoIs
    <3>3. CASE op = "CardInfo" /\ n = 1
      BY <1>1, <2>1, <3>3, ReturnIs
    <3>4. CASE op = "CardInfo" /\ n # 1
      BY <1>1, <2>1, <3>4, GotoIs
    <3> QED
      BY <1>1, <3>1, <3>2, <3>3, <3>4
  <2>7. CallStep
    BY <1>0, <1>1, <2>2, <2>3, <2>5, <2>6 DEF CallStep
  <2>8. IInv'
    <3>1. CASE pc' = "out"
      <4>1. lost' = 0 => card'.xfer # "sends"
        BY <1>0, <1>1, <2>4, <2>6, <3>1
      <4>2. card'.xfer = "none" \/ lost' > 0
        BY <1>0, <1>1, <2>4, <4>1
      <4> QED
        BY <2>7, <3>1, <4>1, <4>2, CallEnds
    <3>2. CASE pc' # "out"
      <4>1. pc' \in InCall
        BY <2>6, <3>2 DEF InCall
      <4>2. op' = op /\ sector' = sector /\ swapped' = swapped /\ stray' = stray /\ CardType' = CardType
        BY <1>0, <4>1, StillIs
      <4>3. Where' /\ Writes'
        BY <1>1, <2>2, <2>6, <3>2, <4>2 DEF Where, Writes, InInit, InCall, Blocks
      <4>4. Exchanged'
        BY <1>2, <2>4, <4>2, <1>1 DEF Exchanged, CardOk
      <4>5. Reads'
        BY <1>0, <1>1, <2>4, <2>6, <3>2, <4>2 DEF Reads
      <4>6. Aimed'
        <5> SUFFICES ASSUME ~stray
                     PROVE  Aimed'
          BY <4>2 DEF Aimed
        <5>1. ~swapped => Matched'
          BY <1>2, <2>3, <4>2 DEF Matched
        <5>2. pc' = "command" => card'.xfer = "none"
          BY <1>2, <2>4, <2>6 DEF Own
        <5>3. pc' = "token" => Own(card)' /\ card'.at = Cur'
          <6> SUFFICES ASSUME pc' = "token"
                       PROVE  Own(card)' /\ card'.at = Cur'
            OBVIOUS
          <6>1. op = "ReadMulti" /\ n = 2 /\ card.xfer = "sends" /\ card.at = Cur
            BY <1>2, <2>4, <2>6 DEF Own
          <6>2. card'.xfer = "sends" /\ card'.at = card.at + 1
            BY <2>4, <6>1
          <6>3. Cur = 0 /\ Cur' = 1
            BY <1>1, <2>2, <4>2, <6>1 DEF Cur
          <6> QED
            BY <4>2, <6>1, <6>2, <6>3 DEF Own
        <5> QED
          BY <2>6, <4>2, <5>1, <5>2, <5>3 DEF Aimed
      <4> QED
        BY <2>7, <4>1, <4>3, <4>4, <4>5, <4>6, CallGoes
    <3> QED
      BY <3>1, <3>2
  <2>9. ReadsStep
    <3> SUFFICES ASSUME op \in {"Read", "ReadMulti"}, ~stray
                 PROVE  data' \in may[Cur]
      BY DEF ReadsStep
    <3>1. card.at = Cur /\ data' = card.data[card.at]
      BY <1>2, <2>4 DEF Own
    <3>2. card.kind # "none" /\ card.at \in Sectors
      BY <1>1, <2>4 DEF CardOk, Card
    <3> QED
      BY <1>1, <3>1, <3>2 DEF Kept, Stored
  <2> QED
    BY <2>8, <2>9
<1>4. CASE /\ IF op = "CardInfo" THEN Return("err") ELSE Goto("stop")
           /\ data' = Blank /\ UNCHANGED <<card, n>>
  <2>0. data' = Blank /\ card' = card /\ n' = n
    BY <1>4
  <2>1. Controlled /\ ((pc' = "out" /\ ret' = "err" /\ op = "CardInfo") \/ (pc' = "stop" /\ op # "CardInfo"))
    <3>1. CASE op = "CardInfo"
      BY <1>1, <1>4, <3>1, ReturnIs
    <3>2. CASE op # "CardInfo"
      BY <1>1, <1>4, <3>2, GotoIs
    <3> QED
      BY <3>1, <3>2
  <2>2. Left(card', card)
    BY <1>1, <2>0, SameIsSame
  <2>3. Kept' /\ Held' /\ CardOk(card')
    BY <1>0, <1>1, <2>0, <2>2, KeptLeft, HeldKept
  <2>4. CallStep
    BY <1>0, <1>1, <2>0, <2>1, <2>3 DEF CallStep
  <2>5. IInv'
    <3>1. CASE pc' = "out"
      BY <1>0, <1>1, <2>0, <2>1, <2>4, <3>1, CallEnds
    <3>2. CASE pc' = "stop"
      <4>1. pc' \in InCall
        BY <3>2 DEF InCall
      <4>2. op' = op /\ sector' = sector /\ swapped' = swapped /\ stray' = stray /\ CardType' = CardType
        BY <1>0, <4>1, StillIs
      <4>3. Where' /\ Writes' /\ Exchanged' /\ Reads'
        BY <1>0, <1>1, <1>2, <2>0, <2>1, <3>2, <4>2 DEF Where, Writes, Exchanged, Reads, InInit, InCall, Blocks
      <4>4. Aimed'
        BY <1>2, <2>0, <3>2, <4>2 DEF Aimed, Matched
      <4> QED
        BY <2>4, <4>1, <4>3, <4>4, CallGoes
    <3> QED
      BY <2>1, <3>1, <3>2
  <2> QED
    BY <1>1, <2>0, <2>5 DEF ReadsStep
<1> QED
  BY <1>3, <1>4 DEF Token

\* A block the card accepts.
Accepted(e, d, token, c) ==
    /\ CardOk(e) /\ e.kind = c.kind /\ e.data = c.data /\ e.mode = c.mode /\ e.at = c.at /\ e.new = d
    /\ \/ token = "FE" /\ c.xfer = "get" /\ e.xfer = "program"
       \/ token = "FC" /\ c.xfer = "gets" /\ e.xfer = "programs"

LEMMA GetsIs ==
    ASSUME NEW c, CardOk(c), NEW d \in Data \cup {Blank}, NEW token, NEW e \in Gets(c, d, token)
    PROVE  Accepted(e, d, token, c)
<1>1. CASE c.xfer = "get" /\ token = "FE"
  <2>1. e = [c EXCEPT !.xfer = "program", !.new = d]
    BY <1>1 DEF Gets
  <2> QED
    BY <1>1, <2>1 DEF Accepted, CardOk, Card
<1>2. CASE c.xfer = "gets" /\ token = "FC"
  <2>1. e = [c EXCEPT !.xfer = "programs", !.new = d]
    BY <1>2 DEF Gets
  <2> QED
    BY <1>2, <2>1 DEF Accepted, CardOk, Card
<1> QED
  BY <1>1, <1>2 DEF Gets

LEMMA RejectsIs ==
    ASSUME NEW c, CardOk(c)
    PROVE  Left(Rejects(c), c) /\ Rejects(c).xfer \in {c.xfer, "none"}
<1>1. CASE c.xfer = "get"
  <2>1. Dropped(Drop(c), c) /\ Rejects(c) = Drop(c)
    BY <1>1, DropIs DEF Rejects
  <2>2. ~Busy(c)
    BY <1>1 DEF Busy
  <2> QED
    BY <2>1, <2>2, QuietIsLeft DEF Dropped
<1>2. CASE c.xfer # "get"
  BY <1>2, SameIsSame DEF Rejects
<1> QED
  BY <1>1, <1>2

\* What a sector may hold while a block is written to it.
LEMMA MayHoldIs ==
    ASSUME Typed, may' = MayHold
    PROVE  /\ Held' /\ \A i \in Sectors : may[i] \subseteq may'[i] /\ (i = Cur \/ stray => data \in may'[i])
  BY DEF Typed, TypeOK, MayHold, Held

LEMMA BlockKeeps ==
    ASSUME IInv, Block
    PROVE  IInv'
<1>0. pc = "block" /\ pc \in InCall /\ may' = MayHold /\ Still /\ lost' = lost
  BY DEF Block, InCall
<1>1. /\ Typed /\ CardOk(card) /\ Kept /\ lost \in Nat /\ n \in 0 .. 2 /\ data \in Data \cup {Blank}
      /\ op \in {"Write", "WriteMulti"} /\ n >= 1 /\ (op = "Write" => n = 1)
      /\ sector = (IF op \in {"Read", "Write"} THEN 1 ELSE 0)
  BY <1>0 DEF IInv, Carried, Typed, TypeOK, Where
<1>2. /\ ~stray => /\ card.xfer \in {"none", "program"} \/ (Own(card) /\ (op # "CardInfo" => card.at = Cur))
                   /\ ~swapped => Matched
      /\ swapped => card.mode = "asleep"
      /\ lost = 0 => card.xfer # "sends"
  BY <1>0 DEF IInv, Carried, Aimed, Exchanged, Reads
<1>3. Held' /\ \A i \in Sectors : may[i] \subseteq may'[i] /\ (i = Cur \/ stray => data \in may'[i])
  BY <1>0, <1>1, MayHoldIs
<1>4. CASE card' \in Gets(card, data, StartToken) /\ Goto("busy") /\ UNCHANGED <<n, data>>
  <2>1. Accepted(card', data, StartToken, card) /\ n' = n /\ data' = data
    BY <1>1, <1>4, GetsIs
  <2>2. pc' = "busy" /\ pc' \in InCall /\ Controlled
    BY <1>1, <1>4, GotoIs DEF InCall
  <2>3. op' = op /\ sector' = sector /\ swapped' = swapped /\ stray' = stray /\ CardType' = CardType
    BY <1>0, <2>2, StillIs
  <2>4. /\ CardOk(card') /\ card'.kind = card.kind /\ card'.data = card.data /\ card'.mode = card.mode
        /\ card'.at = card.at /\ card'.new = data /\ card.xfer \in {"get", "gets"}
        /\ card'.xfer = (IF op = "Write" THEN "program" ELSE "programs")
    BY <1>1, <2>1 DEF Accepted, StartToken
  <2>5. card.at \in Sectors /\ card.kind # "none" /\ (~stray => card.at = Cur)
    BY <1>1, <1>2, <2>4 DEF CardOk, Card
  <2>6. Kept'
    <3>1. Stored'
      BY <1>1, <1>3, <2>4 DEF Kept, Stored
    <3>2. card'.new \in may'[card'.at]
      BY <1>3, <2>4, <2>5
    <3> QED
      BY <3>1, <3>2 DEF Kept
  <2>7. CallStep
    BY <1>0, <1>1, <1>3, <2>1, <2>2, <2>4, <2>6 DEF CallStep
  <2>8. Where' /\ Writes' /\ Reads'
    BY <1>1, <2>1, <2>2, <2>3, <2>4 DEF Where, Writes, Reads, InInit, InCall, Blocks
  <2>9. Exchanged'
    BY <1>2, <2>3, <2>4 DEF Exchanged
  <2>10. Aimed'
    <3>1. Cur' = Cur
      BY <2>1, <2>3 DEF Cur
    <3>2. ~stray => Programming'
      BY <2>1, <2>4, <2>5, <3>1 DEF Programming, Busy
    <3>3. ~stray /\ ~swapped => Matched'
      BY <1>2, <2>3, <2>4 DEF Matched
    <3> QED
      BY <2>2, <2>3, <3>2, <3>3 DEF Aimed
  <2> QED
    BY <2>2, <2>7, <2>8, <2>9, <2>10, CallGoes
<1>5. CASE card' = Rejects(card) /\ Return("err") /\ Done
  <2>1. Left(card', card) /\ card'.xfer \in {card.xfer, "none"}
    BY <1>1, <1>5, RejectsIs
  <2>2. pc' = "out" /\ ret' = "err" /\ Controlled /\ n' = 0 /\ data' = Blank
    BY <1>1, <1>5, ReturnIs DEF Done
  <2>3. CardOk(card') /\ card'.kind = card.kind /\ card'.data = card.data
    BY <2>1 DEF Left, SameCard
  <2>4. Kept'
    <3>1. Stored'
      BY <1>1, <1>3, <2>3 DEF Kept, Stored
    <3>2. Busy(card') => card' = card /\ card.at \in Sectors /\ card.new \in may[card.at]
      BY <1>1, <2>1 DEF Left, Kept, CardOk, Card
    <3> QED
      BY <1>3, <3>1, <3>2 DEF Kept
  <2>5. CallStep
    BY <1>0, <1>3, <2>2, <2>3, <2>4 DEF CallStep
  <2> QED
    BY <1>0, <1>2, <2>1, <2>2, <2>5, CallEnds
<1> QED
  BY <1>4, <1>5 DEF Block

LEMMA BusyWaitKeeps ==
    ASSUME IInv, BusyWait
    PROVE  IInv'
<1>0. pc = "busy" /\ pc \in InCall /\ Still /\ card' = card /\ lost' = lost
  BY DEF BusyWait, InCall, cardVars
<1>1. /\ Typed /\ CardOk(card) /\ Kept /\ lost \in Nat /\ n \in 0 .. 2 /\ data \in Data \cup {Blank}
      /\ op \in {"Write", "WriteMulti"} /\ n >= 1 /\ (op = "Write" => n = 1)
      /\ sector = (IF op \in {"Read", "Write"} THEN 1 ELSE 0)
      /\ card.xfer \in (IF op = "Write" THEN {"program", "none"} ELSE {"programs", "gets", "none"})
      /\ swapped \in BOOLEAN /\ stray \in BOOLEAN
  BY <1>0 DEF IInv, Carried, Typed, TypeOK, Where, Writes
<1>2. /\ ~stray /\ ~swapped => Matched /\ Programming
      /\ swapped => card.xfer = "none"
  BY <1>0, <1>1 DEF IInv, Carried, Aimed, Exchanged, CardOk
<1>3. CASE Busy(card)
  <2>1. Return("err") /\ n' = 0 /\ data' = Blank /\ may' = may
    BY <1>3 DEF BusyWait, Done
  <2>2. pc' = "out" /\ ret' = "err" /\ Controlled
    BY <1>1, <2>1, ReturnIs
  <2>3. Left(card', card)
    BY <1>0, <1>1, SameIsSame
  <2>4. Kept' /\ Held' /\ CardOk(card')
    BY <1>0, <1>1, <2>1, <2>3, KeptLeft, HeldKept
  <2>5. CallStep
    BY <1>0, <2>1, <2>2, <2>4 DEF CallStep
  <2>6. card'.xfer # "sends"
    BY <1>0, <1>3 DEF Busy
  <2> QED
    BY <2>2, <2>5, <2>6, CallEnds
<1>4. CASE ~Busy(card)
  <2>1. /\ n' = n - 1 /\ data' = data
        /\ may' = (IF swapped \/ stray THEN may ELSE [may EXCEPT ![Cur] = {data}])
        /\ IF op = "Write" THEN Return("ok") ELSE Goto(IF n = 1 THEN "end" ELSE "block")
    BY <1>4 DEF BusyWait
  <2>2. /\ Controlled
        /\ \/ pc' = "out" /\ op = "Write"
           \/ pc' = "end" /\ op = "WriteMulti" /\ n = 1
           \/ pc' = "block" /\ op = "WriteMulti" /\ n = 2
    <3>1. CASE op = "Write"
      BY <1>1, <2>1, <3>1, ReturnIs
    <3>2. CASE op = "WriteMulti" /\ n = 1
      BY <1>1, <2>1, <3>2, GotoIs
    <3>3. CASE op = "WriteMulti" /\ n = 2
      BY <1>1, <2>1, <3>3, GotoIs
    <3> QED
      BY <1>1, <3>1, <3>2, <3>3
  <2>3. Held' /\ Kept'
    <3>1. CASE swapped \/ stray
      <4>1. may' = may
        BY <2>1, <3>1
      <4>2. Left(card', card)
        BY <1>0, <1>1, SameIsSame
      <4> QED
        BY <1>1, <4>1, <4>2, KeptLeft, HeldKept
    <3>2. CASE ~swapped /\ ~stray
      <4>1. may' = [may EXCEPT ![Cur] = {data}]
        BY <2>1, <3>2
      <4>2. card.data[Cur] = data
        BY <1>2, <1>4, <3>2 DEF Programming
      <4>3. Held'
        BY <1>1, <4>1 DEF Held, Typed
      <4>4. Stored'
        BY <1>0, <1>1, <4>1, <4>2 DEF Kept, Stored, Typed
      <4> QED
        BY <1>0, <1>4, <4>3, <4>4 DEF Kept
    <3> QED
      BY <1>1, <3>1, <3>2
  <2>4. CallStep
    BY <1>0, <1>1, <2>1, <2>2, <2>3 DEF CallStep
  <2>5. CASE pc' = "out"
    <3>1. card'.xfer = "none"
      BY <1>0, <1>1, <1>4, <2>2, <2>5 DEF Busy
    <3> QED
      BY <2>4, <2>5, <3>1, CallEnds
  <2>6. CASE pc' # "out"
    <3>1. pc' \in InCall
      BY <2>2, <2>6 DEF InCall
    <3>2. op' = op /\ sector' = sector /\ swapped' = swapped /\ stray' = stray /\ CardType' = CardType
      BY <1>0, <3>1, StillIs
    <3>3. op = "WriteMulti" /\ card.xfer \in {"gets", "none"}
      BY <1>1, <1>4, <2>2, <2>6 DEF Busy
    <3>4. Where'
      BY <1>1, <2>1, <2>2, <2>6, <3>2, <3>3 DEF Where, InInit, InCall, Blocks
    <3>5. Writes' /\ Reads' /\ Exchanged'
      BY <1>0, <2>2, <2>6, <3>2, <3>3 DEF Writes, Reads, Exchanged, IInv, Carried
    <3>6. Aimed'
      <4>1. ~stray /\ ~swapped => Matched'
        BY <1>0, <1>2, <3>2 DEF Matched
      <4>2. ~stray => card'.xfer = "none" \/ (pc' = "end") \/ (Own(card)' /\ card'.at = Cur')
        <5> SUFFICES ASSUME ~stray, pc' = "block", card.xfer = "gets"
                     PROVE  Own(card)' /\ card'.at = Cur'
          BY <1>0, <2>2, <2>6, <3>3
        <5>1. card.at = Cur + 1
          BY <1>2, <1>4 DEF Programming
        <5>2. Cur = 0 /\ Cur' = 1
          BY <1>1, <2>1, <2>2, <2>6, <3>2, <3>3 DEF Cur
        <5> QED
          BY <1>0, <3>2, <3>3, <5>1, <5>2 DEF Own
      <4> QED
        BY <2>2, <2>6, <3>2, <4>1, <4>2 DEF Aimed
    <3> QED
      BY <2>4, <3>1, <3>4, <3>5, <3>6, CallGoes
  <2> QED
    BY <2>5, <2>6
<1> QED
  BY <1>3, <1>4

LEMMA EndKeeps ==
    ASSUME IInv, End
    PROVE  IInv'
<1>0. pc = "end" /\ pc \in InCall /\ Still /\ n' = 0 /\ data' = Blank /\ lost' = lost /\ may' = may
  BY DEF End, InCall, Done
<1>1. Typed /\ CardOk(card) /\ Kept /\ card.xfer \in {"gets", "none"}
  BY <1>0 DEF IInv, Carried, Writes
<1>2. ~Busy(card)
  BY <1>1 DEF Busy
<1>3. CASE Return("ok") /\ card' = IF card.xfer = "gets" THEN Drop(card) ELSE card
  <2>1. pc' = "out" /\ Controlled
    BY <1>1, <1>3, ReturnIs
  <2>2. Left(card', card) /\ card'.xfer = "none"
    <3>1. CASE card.xfer = "gets"
      <4>1. Dropped(Drop(card), card) /\ card' = Drop(card)
        BY <1>1, <1>3, <3>1, DropIs
      <4> QED
        BY <1>2, <4>1, QuietIsLeft DEF Dropped
    <3>2. CASE card.xfer # "gets"
      BY <1>1, <1>3, <3>2, SameIsSame
    <3> QED
      BY <3>1, <3>2
  <2>3. Kept' /\ Held' /\ CardOk(card')
    BY <1>0, <1>1, <2>2, KeptLeft, HeldKept DEF Left, SameCard
  <2>4. CallStep
    BY <1>0, <2>1, <2>3 DEF CallStep
  <2> QED
    BY <2>1, <2>2, <2>4, CallEnds
<1>4. CASE Return("err") /\ card.xfer = "gets"
           /\ card' = [card EXCEPT !.xfer = "program", !.new = card.data[card.at]]
  <2>1. pc' = "out" /\ ret' = "err" /\ Controlled
    BY <1>1, <1>4, ReturnIs
  <2>2. card.kind # "none" /\ card.at \in Sectors /\ card.mode = "ready" /\ card.data[card.at] \in Data \cup {Blank}
    BY <1>1, <1>4 DEF CardOk, Card
  <2>3. /\ CardOk(card') /\ card'.kind = card.kind /\ card'.data = card.data /\ card'.at = card.at
        /\ card'.new = card.data[card.at] /\ card'.xfer = "program"
    BY <1>1, <1>4, <2>2 DEF CardOk, Card
  <2>4. Kept'
    BY <1>0, <1>1, <2>2, <2>3 DEF Kept, Stored
  <2>5. Held'
    BY <1>0, <1>1, HeldKept
  <2>6. CallStep
    BY <1>0, <2>1, <2>3, <2>4, <2>5 DEF CallStep
  <2> QED
    BY <2>1, <2>3, <2>6, CallEnds
<1> QED
  BY <1>3, <1>4 DEF End

-----------------------------------------------------------------------------
(* The caller, the card's own doing, and another card.                         *)

LEMMA CallKeeps ==
    ASSUME IInv, Call
    PROVE  IInv' /\ pc = "out"
<1>0. /\ pc = "out" /\ retry' = 0 /\ ret' = "none" /\ swapped' = FALSE /\ path' = 1 /\ card' = card /\ lost' = lost
      /\ CardType' = CardType /\ fast' = fast /\ ready' = ready /\ cards' = cards /\ may' = may
      /\ stray' = (card.xfer \in {"sends", "gets", "programs"} \/ ~Matched)
  BY DEF Call, cardVars
<1>1. Typed /\ CardOk(card) /\ Kept /\ (lost = 0 => card.xfer # "sends")
  BY <1>0 DEF IInv, Carried, Reads
<1>2. op' \in {"Init", "CardInfo", "Read", "ReadMulti", "Write", "WriteMulti"}
  BY DEF Call
<1>3. n' = IF op' = "Init" THEN 0 ELSE IF op' \in {"Read", "Write"} THEN 1 ELSE 2
  BY <1>2 DEF Call
<1>4. pc' = IF op' = "Init" THEN "insert" ELSE IF op' = "WriteMulti" THEN "erase" ELSE "command"
  BY <1>2 DEF Call
<1>5. sector' = (IF op' \in {"Read", "Write"} THEN 1 ELSE 0) /\ data' \in Data \cup {Blank}
  BY DEF Call, Single
<1>6. Typed'
  <2>1. TypeOK'
    BY <1>0, <1>1, <1>2, <1>3, <1>4, <1>5, MSD0Assumption DEF Typed, TypeOK, Single
  <2>2. stray' \in BOOLEAN /\ swapped' \in BOOLEAN
    BY <1>0
  <2> QED
    BY <1>0, <1>1, <1>2, <2>1, <2>2 DEF Typed, Blocks
<1>7. Kept'
  BY <1>0, <1>1, SameIsSame, KeptLeft
<1>8. Where' /\ Writes' /\ Exchanged' /\ Reads'
  BY <1>0, <1>1, <1>2, <1>3, <1>4, <1>5 DEF Where, Writes, Exchanged, Reads, InInit, InCall, Blocks
<1>9. Aimed'
  <2>1. ~stray' => Matched' /\ card'.xfer \notin {"sends", "gets", "programs"}
    BY <1>0 DEF Matched
  <2> QED
    BY <1>4, <2>1 DEF Aimed, InCall
<1>10. SetsUp' /\ LeavesNothing'
  BY <1>4 DEF SetsUp, LeavesNothing, InInit
<1> QED
  BY <1>0, <1>1, <1>6, <1>7, <1>8, <1>9, <1>10 DEF IInv, Carried

\* What is programmed is at its sector; an only card that gets more is at the next.
WasProgrammed(d, c) ==
    /\ CardOk(d) /\ d.kind = c.kind /\ d.mode = c.mode /\ ~Busy(d)
    /\ d.data = [c.data EXCEPT ![c.at] = c.new]
    /\ d.xfer = "none" \/ (c.xfer = "programs" /\ d.xfer = "gets" /\ d.at = c.at + 1)

LEMMA ProgrammedIs ==
    ASSUME NEW c, CardOk(c), Busy(c)
    PROVE  WasProgrammed(Programmed(c), c)
<1> DEFINE p == [c EXCEPT !.data[c.at] = c.new, !.new = Blank]
           g == [p EXCEPT !.xfer = "gets", !.at = @ + 1]
<1>1. c.at \in Sectors /\ c.mode = "ready" /\ c.kind # "none"
  BY DEF CardOk, Card, Busy
<1>2. /\ CardOk(p) /\ p.kind = c.kind /\ p.mode = c.mode /\ p.at = c.at
      /\ p.data = [c.data EXCEPT ![c.at] = c.new]
  BY <1>1 DEF CardOk, Card
<1>3. Programmed(c) = IF c.xfer = "programs" /\ c.at + 1 \in Sectors THEN g ELSE Drop(p)
  BY DEF Programmed
<1> HIDE DEF p
<1>4. CASE c.xfer = "programs" /\ c.at + 1 \in Sectors
  <2>1. /\ CardOk(g) /\ g.kind = c.kind /\ g.mode = c.mode /\ g.at = c.at + 1 /\ g.xfer = "gets"
        /\ g.data = p.data
    BY <1>1, <1>2, <1>4 DEF CardOk, Card
  <2> HIDE DEF g
  <2> QED
    BY <1>2, <1>3, <1>4, <2>1 DEF WasProgrammed, Busy
<1>5. CASE ~(c.xfer = "programs" /\ c.at + 1 \in Sectors)
  <2>1. Dropped(Drop(p), p)
    BY <1>2, DropIs
  <2> QED
    BY <1>2, <1>3, <1>5, <2>1 DEF WasProgrammed, Dropped, SameCard, Busy
<1> QED
  BY <1>4, <1>5

LEMMA ProgramKeeps ==
    ASSUME IInv, Program
    PROVE  IInv' /\ pc' = pc /\ n' = n
<1>0. /\ Busy(card) /\ card' = Programmed(card) /\ pc' = pc /\ op' = op /\ sector' = sector /\ path' = path
      /\ n' = n /\ data' = data /\ retry' = retry /\ CardType' = CardType /\ fast' = fast /\ ret' = ret
      /\ ready' = ready /\ lost' = lost /\ cards' = cards /\ may' = may /\ swapped' = swapped /\ stray' = stray
  BY DEF Program, callVars, history
<1>1. Typed /\ CardOk(card) /\ Kept /\ Where /\ Writes /\ Aimed /\ Exchanged /\ Reads /\ SetsUp /\ LeavesNothing
  BY DEF IInv, Carried
<1>2. WasProgrammed(card', card)
  BY <1>0, <1>1, ProgrammedIs
<1>3. /\ CardOk(card') /\ card'.kind = card.kind /\ card'.mode = card.mode /\ ~Busy(card')
      /\ card'.data = [card.data EXCEPT ![card.at] = card.new]
      /\ card'.xfer = "none" \/ (card.xfer = "programs" /\ card'.xfer = "gets" /\ card'.at = card.at + 1)
  BY <1>2 DEF WasProgrammed
<1>4. /\ card.xfer \in {"program", "programs"} /\ card.mode = "ready" /\ card.kind # "none" /\ card.at \in Sectors
      /\ card.data \in [Sectors -> Data \cup {Blank}]
  BY <1>0, <1>1 DEF Busy, CardOk, Card
<1>5. Typed'
  <2>1. TypeOK'
    BY <1>0, <1>1, <1>3 DEF Typed, TypeOK, CardOk
  <2> QED
    BY <1>0, <1>1, <2>1 DEF Typed, Blocks
<1>6. Kept'
  BY <1>0, <1>1, <1>3, <1>4 DEF Kept, Stored
<1>7. Where'
  BY <1>0, <1>1 DEF Where, InInit, InCall, Blocks
<1>8. Writes' /\ Exchanged' /\ Reads'
  BY <1>0, <1>1, <1>3, <1>4 DEF Writes, Exchanged, Reads
<1>9. Aimed'
  <2> SUFFICES ASSUME ~stray, pc \in InCall
               PROVE  Aimed'
    BY <1>0 DEF Aimed
  <2>1. ~swapped => Matched'
    BY <1>0, <1>1, <1>3 DEF Aimed, Matched
  <2>2. pc \in {"erase", "command", "token", "block"} => card'.xfer = "none"
    <3>1. op \in {"CardInfo"} \cup Blocks
      BY <1>1 DEF Where
    <3>2. ~Own(card)
      BY <1>4, <3>1 DEF Own, Blocks
    <3>3. pc \in {"erase", "command", "token", "block"} => card.xfer = "program"
      BY <1>1, <1>4, <3>2 DEF Aimed
    <3> QED
      BY <1>3, <3>3
  <2>3. pc = "busy" /\ ~swapped => Programming'
    <3> SUFFICES ASSUME pc = "busy", ~swapped
                 PROVE  Programming'
      OBVIOUS
    <3>1. card.at = Cur /\ card.new = data
      BY <1>0, <1>1 DEF Aimed, Programming
    <3>2. Cur' = Cur
      BY <1>0 DEF Cur
    <3> QED
      BY <1>0, <1>3, <1>4, <3>1, <3>2 DEF Programming
  <2> QED
    BY <1>0, <2>1, <2>2, <2>3 DEF Aimed
<1>10. SetsUp' /\ LeavesNothing'
  BY <1>0, <1>1, <1>3, <1>4 DEF SetsUp, LeavesNothing, InInit, NotV2
<1> QED
  BY <1>0, <1>3, <1>5, <1>6, <1>7, <1>8, <1>9, <1>10 DEF IInv, Carried

LEMMA FreshIs ==
    ASSUME NEW k \in Kinds \cup {"none"}
    PROVE  /\ CardOk(Fresh(k)) /\ Fresh(k).kind = k /\ Fresh(k).mode = "asleep" /\ Fresh(k).xfer = "none"
           /\ Fresh(k).data = [i \in Sectors |-> Blank]
<1>1. 0 \in Sectors
  BY SDCardAssumption DEF Sectors
<1> QED
  BY <1>1 DEF Fresh, CardOk, Card

LEMMA ExchangeKeeps ==
    ASSUME IInv, Exchange
    PROVE  IInv' /\ pc' = pc /\ n' = n
<1>0. /\ pc' = pc /\ op' = op /\ sector' = sector /\ path' = path
      /\ n' = n /\ data' = data /\ retry' = retry /\ CardType' = CardType /\ fast' = fast /\ ret' = ret
      /\ ready' = ready /\ lost' = lost /\ cards' = cards + 1 /\ may' = [i \in Sectors |-> {Blank}]
      /\ swapped' = TRUE /\ stray' = stray
  BY DEF Exchange, callVars
<1>1. PICK k \in Kinds \cup {"none"} : card' = Fresh(k)
  BY DEF Exchange
<1>2. /\ CardOk(card') /\ card'.mode = "asleep" /\ card'.xfer = "none"
      /\ card'.data = [i \in Sectors |-> Blank]
  BY <1>1, FreshIs
<1>3. Typed /\ Where /\ SetsUp
  BY DEF IInv, Carried
<1>4. Typed'
  <2>1. TypeOK'
    BY <1>0, <1>2, <1>3 DEF Typed, TypeOK, CardOk
  <2> QED
    BY <1>0, <1>3, <2>1 DEF Typed, Blocks
<1>5. Kept'
  BY <1>0, <1>2 DEF Kept, Stored, Busy
<1>6. Where'
  BY <1>0, <1>3 DEF Where, InInit, InCall, Blocks
<1>7. Writes' /\ Exchanged' /\ Reads' /\ LeavesNothing'
  BY <1>2 DEF Writes, Exchanged, Reads, LeavesNothing
<1>8. Aimed'
  BY <1>0, <1>2 DEF Aimed
<1>9. SetsUp'
  BY <1>0, <1>2, <1>3 DEF SetsUp, InInit, NotV2
<1> QED
  BY <1>0, <1>2, <1>4, <1>5, <1>6, <1>7, <1>8, <1>9 DEF IInv, Carried

-----------------------------------------------------------------------------
(* The theorems.                                                               *)

LEMMA InitIInv ==
    ASSUME Init
    PROVE  IInv
<1>0. /\ pc = "out" /\ op = "none" /\ sector = 0 /\ n = 0 /\ data = Blank
      /\ retry = 0 /\ path = 1 /\ CardType = "MMC" /\ fast = FALSE /\ ret = "none" /\ ready = FALSE
      /\ lost = 0 /\ cards = 0
      /\ may = [i \in Sectors |-> {Blank}] /\ swapped = FALSE /\ stray = FALSE
  BY DEF Init
<1>1. PICK k \in Kinds : card = Fresh(k)
  BY DEF Init
<1>2. CardOk(card) /\ card.mode = "asleep" /\ card.xfer = "none" /\ card.data = [i \in Sectors |-> Blank]
  BY <1>1, FreshIs
<1>3. Typed
  <2>1. TypeOK
    BY <1>0, <1>2, MSD0Assumption DEF TypeOK, CardOk, Types
  <2> QED
    BY <1>0, <2>1 DEF Typed
<1>4. Kept
  BY <1>0, <1>2 DEF Kept, Stored, Busy
<1> QED
  BY <1>0, <1>2, <1>3, <1>4 DEF IInv, Carried, Where, Writes, Aimed, Exchanged, Reads, SetsUp, LeavesNothing,
     InInit, InCall

Steady == ReadyStep /\ ReadsStep

LEMMA NextIInv ==
    ASSUME IInv, [Next]_vars
    PROVE  IInv' /\ Steady
<1>0. pc \in InCall => op # "Init"
  BY DEF IInv, Carried, Where, Blocks
<1>1. CASE Call
  BY <1>1, CallKeeps DEF Steady, ReadyStep, ReadsStep
<1>2. CASE MSD0_Init
  BY <1>2, InitKeeps DEF Steady, ReadsStep
<1>3. CASE Command
  BY <1>0, <1>3, CommandKeeps DEF Command, Steady, ReadyStep, ReadsStep, InCall
<1>4. CASE Token
  BY <1>0, <1>4, TokenKeeps DEF Token, Steady, ReadyStep, InCall
<1>5. CASE Stop
  BY <1>0, <1>5, StopKeeps DEF Stop, Steady, ReadyStep, ReadsStep, InCall
<1>6. CASE Erase
  BY <1>0, <1>6, EraseKeeps DEF Erase, Steady, ReadyStep, ReadsStep, InCall
<1>7. CASE Block
  BY <1>0, <1>7, BlockKeeps DEF Block, Steady, ReadyStep, ReadsStep, InCall
<1>8. CASE BusyWait
  BY <1>0, <1>8, BusyWaitKeeps DEF BusyWait, Steady, ReadyStep, ReadsStep, InCall
<1>9. CASE End
  BY <1>0, <1>9, EndKeeps DEF End, Steady, ReadyStep, ReadsStep, InCall
<1>10. n \in 0 .. 2
  BY DEF IInv, Typed, TypeOK
<1>11. CASE Program
  BY <1>10, <1>11, ProgramKeeps DEF Steady, ReadyStep, ReadsStep
<1>12. CASE Exchange
  BY <1>10, <1>12, ExchangeKeeps DEF Steady, ReadyStep, ReadsStep
<1>13. CASE UNCHANGED vars
  <2>0. /\ card' = card /\ pc' = pc /\ op' = op /\ sector' = sector /\ n' = n /\ data' = data /\ retry' = retry
        /\ path' = path /\ CardType' = CardType /\ fast' = fast /\ ret' = ret /\ ready' = ready /\ lost' = lost
        /\ cards' = cards /\ may' = may /\ swapped' = swapped /\ stray' = stray
    BY <1>13 DEF vars
  <2>1. Typed'
    BY <2>0 DEF IInv, Typed, TypeOK
  <2>2. CardOk(card)' /\ Kept' /\ Where' /\ Writes'
    BY <2>0 DEF IInv, Carried, CardOk, Kept, Stored, Busy, Where, Writes, InInit, InCall, Blocks
  <2>3. Aimed' /\ Exchanged' /\ Reads'
    BY <2>0 DEF IInv, Carried, Aimed, Matched, Own, Programming, Cur, Busy, Exchanged, Reads
  <2>4. SetsUp' /\ LeavesNothing'
    BY <2>0 DEF IInv, SetsUp, NotV2, LeavesNothing, InInit
  <2>5. Steady
    BY <1>10, <2>0 DEF Steady, ReadyStep, ReadsStep
  <2> QED
    BY <2>1, <2>2, <2>3, <2>4, <2>5 DEF IInv, Carried
<1> QED
  BY <1>1, <1>2, <1>3, <1>4, <1>5, <1>6, <1>7, <1>8, <1>9, <1>11, <1>12, <1>13 DEF Next, Driver

\* The invariant holds, and no step breaks what MSD0_Init and the reads promise.
LEMMA Invariant == Spec => []IInv /\ [][Steady]_vars
<1>1. Init => IInv
  BY InitIInv
<1>2. IInv /\ [Next]_vars => IInv' /\ Steady
  BY NextIInv
<1> QED
  BY <1>1, <1>2, PTL DEF Spec

\* The card is a memory, for every kind of card, number of retries, lost answers
\* and exchanges: MSD0_WriteSingleBlock and MSD0_WriteMultiBlock put a block where
\* they were asked to and nowhere else, what MSD0_ReadSingleBlock and
\* MSD0_ReadMultiBlock return is the sector's, and a call that returns 0 leaves
\* the card with nothing to move, unless an answer was lost.
THEOREM CardRemembers == Spec => Remembers
<1>1. IInv => TypeOK /\ Stored /\ LeavesNothing
  BY DEF IInv, Typed, Carried, Kept
<1>2. Steady => (pc = "token" /\ n' < n /\ op \in {"Read", "ReadMulti"} => data' \in may[Cur] \/ stray)
  BY DEF Steady, ReadsStep
<1> QED
  BY <1>1, <1>2, Invariant, PTL DEF Remembers, ReadsAre

\* MSD0_Init returns 0 for a card that is ready and is addressed as it wants to
\* be, but for the two ways out of it that the code leaves open.
THEOREM ReadyCard == Spec => ReadyIfOk
<1>1. Steady =>
        (op = "Init" /\ pc # "out" /\ pc' = "out" /\ ret' = "ok" =>
           \/ card'.mode = "ready" /\ Matched'
           \/ pc = "cmd8" /\ card'.mode # "ready"
           \/ pc = "cmd55" /\ lost > 0)
  BY DEF Steady, ReadyStep
<1> QED
  BY <1>1, Invariant, PTL DEF ReadyIfOk


-----------------------------------------------------------------------------
(* FatFs and the logger.                                                      *)

-----------------------------------------------------------------------------
(* Layout, and what is in them.                                              *)

FatSectors == {FatSector(c) : c \in Clusters}
Meta == {DirSector} \cup FatSectors
Layout == Meta \cup {DataSector(c) : c \in Clusters}

FatVal == {0, EOC} \cup Clusters
Directory == [1 .. Slots -> Entry]
FatPart(x) == [{c \in Clusters : FatSector(c) = x} -> FatVal]
Content(x) == IF x = DirSector THEN Directory ELSE FatPart(x)
DataVal == {None} \cup SUBSET Name
Windows == {None} \cup UNION {Content(x) : x \in Meta}

Disks == {d \in [Layout -> DataVal \cup Windows] : \A x \in Meta : d[x] \in Content(x)}

\* Layout of different kinds are different.
LEMMA SectorsApart ==
    /\ NoSector \notin Meta
    /\ DirSector \notin FatSectors
    /\ \A c \in Clusters : DataSector(c) \notin Meta /\ FatSector(c) \in Meta /\ FatSector(c) # DirSector
    /\ \A c, e \in Clusters : DataSector(c) = DataSector(e) => c = e
    /\ Meta \subseteq Layout /\ \A c \in Clusters : DataSector(c) \in Layout
  BY DEF Meta, FatSectors, Layout, NoSector, DirSector, FatSector, DataSector

\* Numbers of clusters.
LEMMA Numbers ==
    /\ N \in Nat \ {0} /\ Slots \in Nat \ {0} /\ Clusters \subseteq Nat
    /\ 0 \notin Clusters /\ 1 \notin Clusters /\ EOC \notin Clusters /\ DiskError \notin Clusters
    /\ EOC # 0 /\ DiskError # 0 /\ DiskError # EOC /\ EOC # 1 /\ DiskError # 1
    /\ DiskError \notin FatVal /\ 1 \notin FatVal
    /\ \A c \in Clusters : c - 1 \in {1} \cup Clusters
  BY FatFsAssumption DEF Clusters, EOC, DiskError, FatVal

\* The directory and the FAT of a disk.
Dir(d) == d[DirSector]
LEMMA DiskParts ==
    ASSUME NEW d \in Disks
    PROVE  /\ Dir(d) \in Directory
           /\ \A c \in Clusters : Fat(d, c) \in FatVal
           /\ \A x \in Meta : d[x] \in Content(x) /\ d[x] \in Windows
<1>1. \A x \in Meta : d[x] \in Content(x)
  BY DEF Disks
<1>2. Dir(d) \in Directory
  BY <1>1 DEF Dir, Content, Meta
<1>3. ASSUME NEW c \in Clusters PROVE Fat(d, c) \in FatVal
  <2>1. d[FatSector(c)] \in FatPart(FatSector(c))
    BY <1>1, SectorsApart DEF Content
  <2> QED
    BY <2>1 DEF FatPart, Fat
<1>4. \A x \in Meta : d[x] \in Windows
  BY <1>1 DEF Windows
<1> QED
  BY <1>1, <1>2, <1>3, <1>4

\* A sector written.
LEMMA DiskWritten ==
    ASSUME NEW d \in Disks, NEW x \in Meta, NEW w \in Content(x)
    PROVE  [d EXCEPT ![x] = w] \in Disks
<1>1. w \in Windows /\ x \in Layout /\ Meta \subseteq Layout
  BY SectorsApart DEF Windows
<1>2. d \in [Layout -> DataVal \cup Windows] /\ \A y \in Meta : d[y] \in Content(y)
  BY DEF Disks
<1>3. [d EXCEPT ![x] = w] \in [Layout -> DataVal \cup Windows]
  BY <1>1, <1>2
<1>4. \A y \in Meta : [d EXCEPT ![x] = w][y] \in Content(y)
  BY <1>1, <1>2
<1> QED
  BY <1>3, <1>4 DEF Disks

\* Only data changed.
SameMeta(e, d) == e \in Disks /\ Dir(e) = Dir(d) /\ \A c \in Clusters : Fat(e, c) = Fat(d, c)

LEMMA DataWritten ==
    ASSUME NEW d \in Disks, NEW a \in Clusters, NEW w \in DataVal
    PROVE  /\ SameMeta([d EXCEPT ![DataSector(a)] = w], d)
           /\ \A c \in Clusters : [d EXCEPT ![DataSector(a)] = w][DataSector(c)] =
                                        IF c = a THEN w ELSE d[DataSector(c)]
<1>1. d \in [Layout -> DataVal \cup Windows] /\ DataSector(a) \in Layout
  BY SectorsApart DEF Disks
<1>2. \A x \in Meta : [d EXCEPT ![DataSector(a)] = w][x] = d[x]
  BY <1>1, SectorsApart
<1>3. [d EXCEPT ![DataSector(a)] = w] \in Disks
  BY <1>1, <1>2 DEF Disks
<1>4. \A c \in Clusters : FatSector(c) \in Meta /\ DataSector(c) \in Layout
  BY SectorsApart
<1>5. \A c \in Clusters : [d EXCEPT ![DataSector(a)] = w][DataSector(c)] =
                                        IF c = a THEN w ELSE d[DataSector(c)]
  BY <1>1, <1>4, SectorsApart
<1> QED
  BY <1>2, <1>3, <1>4, <1>5 DEF Dir, Fat, Meta, SameMeta

\* An entry of the FAT in its sector.
FatSet(e, d, c, v) ==
    /\ e \in Disks /\ Dir(e) = Dir(d)
    /\ \A b \in Clusters : Fat(e, b) = IF b = c THEN v ELSE Fat(d, b)
    /\ \A b \in Clusters : e[DataSector(b)] = d[DataSector(b)]

LEMMA FatWritten ==
    ASSUME NEW d \in Disks, NEW c \in Clusters, NEW v \in FatVal,
           NEW w, w = [d[FatSector(c)] EXCEPT ![c] = v]
    PROVE  w \in Content(FatSector(c)) /\ FatSet([d EXCEPT ![FatSector(c)] = w], d, c, v)
<1> DEFINE x == FatSector(c)
<1>1. d \in [Layout -> DataVal \cup Windows] /\ x \in Meta /\ x \in Layout /\ x # DirSector
  BY SectorsApart DEF Disks
<1>2. d[x] \in FatPart(x) /\ c \in {e \in Clusters : FatSector(e) = x}
  BY <1>1 DEF Disks, Content
<1>3. w \in FatPart(x) /\ \A e \in {f \in Clusters : FatSector(f) = x} : w[e] = IF e = c THEN v ELSE d[x][e]
  BY <1>2 DEF FatPart
<1>4. w \in Content(x)
  BY <1>1, <1>3 DEF Content
<1>5. [d EXCEPT ![x] = w] \in Disks
  BY <1>1, <1>4, DiskWritten
<1>6. \A y \in Layout : [d EXCEPT ![x] = w][y] = IF y = x THEN w ELSE d[y]
  BY <1>1
<1>7. ASSUME NEW e \in Clusters PROVE Fat([d EXCEPT ![x] = w], e) = IF e = c THEN v ELSE Fat(d, e)
  <2>1. FatSector(e) \in Layout
    BY SectorsApart
  <2>2. CASE FatSector(e) = x
    BY <1>3, <1>6, <2>1, <2>2 DEF Fat
  <2>3. CASE FatSector(e) # x
    BY <1>6, <2>1, <2>3 DEF Fat
  <2> QED
    BY <2>2, <2>3
<1>8. Dir([d EXCEPT ![x] = w]) = Dir(d)
  BY <1>1, <1>6, SectorsApart DEF Dir, Meta
<1>9. \A e \in Clusters : [d EXCEPT ![x] = w][DataSector(e)] = d[DataSector(e)]
  BY <1>1, <1>6, SectorsApart
<1> QED
  BY <1>4, <1>5, <1>7, <1>8, <1>9 DEF FatSet

\* An entry of the directory in its sector.
DirSet(e, d, i, b) ==
    /\ e \in Disks /\ Dir(e) = [Dir(d) EXCEPT ![i] = b]
    /\ \A c \in Clusters : Fat(e, c) = Fat(d, c) /\ e[DataSector(c)] = d[DataSector(c)]

LEMMA DirWritten ==
    ASSUME NEW d \in Disks, NEW i \in 1 .. Slots, NEW b \in Entry, NEW w, w = [Dir(d) EXCEPT ![i] = b]
    PROVE  w \in Content(DirSector) /\ DirSet([d EXCEPT ![DirSector] = w], d, i, b)
<1>1. d \in [Layout -> DataVal \cup Windows] /\ DirSector \in Meta /\ DirSector \in Layout
  BY SectorsApart DEF Disks, Meta
<1>2. w \in Content(DirSector)
  BY DiskParts DEF Content, Directory
<1>3. [d EXCEPT ![DirSector] = w] \in Disks
  BY <1>1, <1>2, DiskWritten
<1>4. \A y \in Layout : [d EXCEPT ![DirSector] = w][y] = IF y = DirSector THEN w ELSE d[y]
  BY <1>1
<1>5. \A c \in Clusters : /\ FatSector(c) \in Layout /\ FatSector(c) # DirSector
                          /\ DataSector(c) \in Layout /\ DataSector(c) # DirSector
  BY SectorsApart DEF Meta
<1> QED
  BY <1>1, <1>2, <1>3, <1>4, <1>5 DEF DirSet, Dir, Fat
-----------------------------------------------------------------------------
(* The memory's side: the FATFS object with its window, and the open file.    *)

Results == {"OK", "DISK_ERR", "NOT_READY", "NO_FILE", "INT_ERR", "INVALID_OBJECT"}
File == [open : BOOLEAN, error : BOOLEAN, written : BOOLEAN, slot : 1 .. Slots,
         sclust : {0, DiskError} \cup Clusters, clust : {0} \cup Clusters, fptr : 0 .. N, fsize : 0 .. N]
State == [disk : Disks, awake : BOOLEAN, mounted : BOOLEAN, win : Windows,
          winsect : Meta \cup {NoSector}, wflag : BOOLEAN, last_clust : {0, 1} \cup Clusters,
          fp : File, fault : SUBSET Nat, io : Nat, res : Results, val : 0 .. N + 3]

\* The volume with the window in it: what the card will be.
View(t) == IF t.winsect = NoSector THEN t.disk ELSE [t.disk EXCEPT ![t.winsect] = t.win]

\* The window is a sector's contents, and the card's unless it is dirty.
MemOk(t) ==
    /\ t \in State
    /\ t.winsect # NoSector => t.win \in Content(t.winsect)
    /\ t.wflag => t.winsect # NoSector
    /\ ~t.wflag => View(t) = t.disk
    /\ ~t.mounted => t.winsect = NoSector

\* Why an access may have failed.
Fails(t) == ~t.awake \/ \E i \in t.fault : i < t.io

\* What an access to the card leaves.
Same(r, s) ==
    /\ r.mounted = s.mounted /\ r.awake = s.awake /\ r.fault = s.fault /\ r.fp = s.fp
    /\ r.last_clust = s.last_clust /\ s.io <= r.io
Moved(r, s) ==
    /\ MemOk(r) /\ Same(r, s) /\ View(r) = View(s) /\ r.disk \in {s.disk, View(s)}
    /\ r.res \in {"OK", "DISK_ERR"} /\ (~Ok(r) => Fails(r))
    /\ r.winsect = s.winsect \/ r.disk = View(s)

\* The view is a disk, and its data are the card's.
LEMMA ViewType ==
    ASSUME NEW t, MemOk(t)
    PROVE  /\ View(t) \in Disks /\ t.disk \in Disks
           /\ \A c \in Clusters : View(t)[DataSector(c)] = t.disk[DataSector(c)]
           /\ t.winsect # NoSector => t.winsect \in Meta /\ View(t)[t.winsect] = t.win
<1>1. t.disk \in Disks /\ t.winsect \in Meta \cup {NoSector}
  BY DEF MemOk, State
<1>2. CASE t.winsect = NoSector
  BY <1>1, <1>2 DEF View
<1>3. CASE t.winsect # NoSector
  <2>1. t.winsect \in Meta /\ t.win \in Content(t.winsect) /\ View(t) = [t.disk EXCEPT ![t.winsect] = t.win]
    BY <1>1, <1>3 DEF MemOk, View
  <2>2. View(t) \in Disks
    BY <1>1, <2>1, DiskWritten
  <2>3. t.disk \in [Layout -> DataVal \cup Windows] /\ t.winsect \in Layout
    BY <1>1, <2>1, SectorsApart DEF Disks
  <2>4. \A c \in Clusters : DataSector(c) \in Layout /\ DataSector(c) # t.winsect
    BY <2>1, SectorsApart
  <2> QED
    BY <1>1, <2>1, <2>2, <2>3, <2>4
<1> QED
  BY <1>2, <1>3

\* The same state but for its result and the accesses counted.
LEMMA ViewSame ==
    ASSUME NEW r, NEW s, r.disk = s.disk, r.winsect = s.winsect, r.win = s.win
    PROVE  View(r) = View(s)
  BY DEF View

\* A state of which only the result and the value changed.
LEMMA Yielded ==
    ASSUME NEW s \in State, NEW v \in Results
    PROVE  /\ Yields(s, v) \in State
           /\ Yields(s, v) = [s EXCEPT !.res = v] /\ Yields(s, v).res = v
           /\ View(Yields(s, v)) = View(s)
           /\ MemOk(s) => MemOk(Yields(s, v))
<1>1. /\ Yields(s, v) \in State /\ Yields(s, v).res = v
      /\ Yields(s, v).disk = s.disk /\ Yields(s, v).winsect = s.winsect /\ Yields(s, v).win = s.win
      /\ Yields(s, v).wflag = s.wflag /\ Yields(s, v).mounted = s.mounted
  BY DEF Yields, State
<1>2. View(Yields(s, v)) = View(s)
  BY <1>1, ViewSame
<1>3. Yields(s, v) = [s EXCEPT !.res = v]
  BY DEF Yields
<1> QED
  BY <1>1, <1>2, <1>3 DEF MemOk

\* An access counted.
LEMMA CountedType ==
    ASSUME NEW s \in State, NEW v \in Results
    PROVE  /\ Counted(s, v) \in State /\ Counted(s, v).res = v /\ Counted(s, v).io = s.io + 1
           /\ Counted(s, v).disk = s.disk /\ Counted(s, v).winsect = s.winsect /\ Counted(s, v).win = s.win
           /\ Counted(s, v).wflag = s.wflag /\ Same(Counted(s, v), s) /\ Counted(s, v).val = s.val
<1>1. s.io \in Nat /\ s.io + 1 \in Nat /\ s.io <= s.io + 1
  BY DEF State
<1>2. Counted(s, v) = [s EXCEPT !.io = s.io + 1, !.res = v]
  BY DEF Counted
<1> QED
  BY <1>1, <1>2 DEF State, Same

\* The dirty window is written, or stays dirty.
LEMMA WritesBack ==
    ASSUME NEW s, MemOk(s), NEW r, r = WriteBack(s)
    PROVE  /\ Moved(r, s) /\ r.winsect = s.winsect /\ r.win = s.win
           /\ Ok(r) => r.disk = View(s) /\ ~r.wflag
           /\ ~Ok(r) => r.wflag /\ r.disk = s.disk
<1>1. s \in State /\ s.disk \in Disks /\ View(s) \in Disks /\ s.io \in Nat
  BY ViewType DEF MemOk, State
<1>2. CASE ~s.wflag
  <2>1. r = Yields(s, "OK")
    BY <1>2 DEF WriteBack
  <2>2. MemOk(r) /\ View(r) = View(s) /\ r.res = "OK"
    BY <1>1, <2>1, Yielded DEF Results
  <2>3. Same(r, s) /\ r.winsect = s.winsect /\ r.win = s.win /\ r.wflag = s.wflag /\ r.disk = s.disk
    BY <1>1, <2>1 DEF Yields, State, Same
  <2> QED
    BY <1>2, <2>2, <2>3 DEF Moved, MemOk, Ok
<1>3. CASE s.wflag
  <2>1. /\ s.winsect # NoSector /\ s.winsect \in Meta /\ s.win \in Content(s.winsect)
        /\ View(s) = [s.disk EXCEPT ![s.winsect] = s.win] /\ View(s)[s.winsect] = s.win
    BY <1>3, ViewType DEF MemOk, View
  <2> DEFINE w == disk_write(s, s.winsect, s.win)
  <2>2. r = IF Ok(w) THEN [w EXCEPT !.wflag = FALSE] ELSE w
    BY <1>3 DEF WriteBack
  <2>3. CASE Reaches(s)
    <3> DEFINE k == Counted(s, "OK")
    <3>1. w = [k EXCEPT !.disk[s.winsect] = s.win]
      BY <2>3 DEF disk_write
    <3>2. /\ k \in State /\ k.res = "OK" /\ k.io = s.io + 1 /\ k.disk = s.disk
          /\ k.winsect = s.winsect /\ k.win = s.win /\ k.wflag = s.wflag /\ Same(k, s)
      BY <1>1, CountedType DEF Results
    <3> HIDE DEF k
    <3>3. w = [k EXCEPT !.disk = View(s)]
      BY <2>1, <3>1, <3>2
    <3>4. /\ w \in State /\ w.res = "OK" /\ w.disk = View(s) /\ w.winsect = s.winsect /\ w.win = s.win
          /\ Same(w, s)
      BY <1>1, <3>2, <3>3 DEF State, Same
    <3> HIDE DEF w
    <3>5. /\ r \in State /\ r.res = "OK" /\ r.disk = View(s) /\ r.winsect = s.winsect /\ r.win = s.win
          /\ Same(r, s) /\ ~r.wflag
      BY <2>2, <3>4 DEF State, Same, Ok
    <3>6. View(r) = View(s)
      <4>1. View(r) = [View(s) EXCEPT ![s.winsect] = s.win]
        BY <2>1, <3>5 DEF View
      <4>2. View(s) \in [Layout -> DataVal \cup Windows]
        BY <1>1 DEF Disks
      <4> QED
        BY <2>1, <4>1, <4>2
    <3> QED
      BY <2>1, <3>5, <3>6 DEF Moved, MemOk, Same, Ok
  <2>4. CASE ~Reaches(s)
    <3>1. w = Counted(s, "DISK_ERR")
      BY <2>4 DEF disk_write
    <3>2. /\ w \in State /\ w.res = "DISK_ERR" /\ w.io = s.io + 1 /\ w.disk = s.disk
          /\ w.winsect = s.winsect /\ w.win = s.win /\ w.wflag = s.wflag /\ Same(w, s)
      BY <1>1, <3>1, CountedType DEF Results
    <3> HIDE DEF w
    <3>3. r = w
      BY <2>2, <3>2 DEF Ok
    <3>4. View(r) = View(s)
      BY <3>2, <3>3, ViewSame
    <3>5. Fails(r)
      BY <1>1, <2>4, <3>2, <3>3 DEF Reaches, Fails, Same
    <3> QED
      BY <1>3, <2>1, <3>2, <3>3, <3>4, <3>5 DEF Moved, MemOk, Same, Ok
  <2> QED
    BY <2>3, <2>4
<1> QED
  BY <1>2, <1>3

\* One access after another.
LEMMA MovesOn ==
    ASSUME NEW s, NEW r, NEW q, Moved(r, s), Moved(q, r), MemOk(s)
    PROVE  Moved(q, s) /\ (r.disk = View(s) => q.disk = View(s))
<1>1. s.io \in Nat /\ r.io \in Nat /\ q.io \in Nat
  BY DEF Moved, MemOk, State
<1> QED
  BY <1>1 DEF Moved, Same

\* A read: it succeeds, or not.
LEMMA ReadsSector ==
    ASSUME NEW s, MemOk(s), NEW r, r = disk_read(s)
    PROVE  /\ Moved(r, s) /\ r.disk = s.disk /\ r.winsect = s.winsect /\ r.win = s.win /\ r.wflag = s.wflag
           /\ Ok(r) => r.awake
<1> DEFINE v == IF Reaches(s) THEN "OK" ELSE "DISK_ERR"
<1>1. v \in Results /\ s \in State /\ r = Counted(s, v)
  BY DEF Results, MemOk, disk_read
<1>2. /\ r \in State /\ r.res = v /\ r.io = s.io + 1 /\ r.disk = s.disk /\ r.winsect = s.winsect
      /\ r.win = s.win /\ r.wflag = s.wflag /\ Same(r, s)
  BY <1>1, CountedType
<1>3. View(r) = View(s)
  BY <1>2, ViewSame
<1>4. s.io \in Nat /\ s.io < r.io
  BY <1>1, <1>2 DEF State
<1>5. ~Ok(r) => Fails(r)
  BY <1>2, <1>4 DEF Ok, Reaches, Fails, Same
<1>6. Ok(r) => r.awake
  BY <1>2 DEF Ok, Reaches, Same
<1> QED
  BY <1>2, <1>3, <1>5, <1>6 DEF Moved, MemOk, Same

\* move_window: it is on the sector, or the window is where it was.
LEMMA MovesWindow ==
    ASSUME NEW s, MemOk(s), NEW x \in Meta \cup {NoSector}, s.mounted \/ x = NoSector,
           NEW r, r = move_window(s, x)
    PROVE  /\ Moved(r, s)
           /\ Ok(r) /\ x # NoSector => r.winsect = x /\ r.win = View(s)[x]
           /\ Ok(r) /\ x # s.winsect => r.disk = View(s)
           /\ Ok(r) /\ x # s.winsect /\ x # NoSector => r.awake
           /\ ~Ok(r) => x # s.winsect /\ r.winsect = s.winsect
<1>1. s \in State /\ s.disk \in Disks /\ View(s) \in Disks
  BY ViewType DEF MemOk
<1>2. CASE s.winsect = x
  <2>1. r = Yields(s, "OK")
    BY <1>2 DEF move_window
  <2>2. MemOk(r) /\ View(r) = View(s) /\ r.res = "OK"
    BY <1>1, <2>1, Yielded DEF Results
  <2>3. Same(r, s) /\ r.winsect = s.winsect /\ r.win = s.win /\ r.disk = s.disk
    BY <1>1, <2>1 DEF Yields, State, Same
  <2>4. x # NoSector => s.win = View(s)[x]
    BY <1>2, ViewType
  <2> QED
    BY <1>2, <2>2, <2>3, <2>4 DEF Moved, Ok
<1>3. CASE s.winsect # x
  <2> DEFINE w == WriteBack(s)
             d == disk_read(w)
  <2>1. r = IF Ok(w) /\ x # NoSector
            THEN IF Ok(d) THEN [d EXCEPT !.win = d.disk[x], !.winsect = x] ELSE d
            ELSE w
    BY <1>3 DEF move_window
  <2>2. /\ Moved(w, s) /\ w.winsect = s.winsect /\ w.win = s.win
        /\ Ok(w) => w.disk = View(s) /\ ~w.wflag
    BY WritesBack
  <2> HIDE DEF w
  <2>3. CASE ~(Ok(w) /\ x # NoSector)
    BY <1>3, <2>1, <2>2, <2>3
  <2>4. CASE Ok(w) /\ x # NoSector
    <3>1. MemOk(w) /\ x \in Meta
      BY <2>2, <2>4 DEF Moved
    <3>2. /\ Moved(d, w) /\ d.disk = w.disk /\ d.winsect = w.winsect /\ d.win = w.win /\ d.wflag = w.wflag
          /\ Ok(d) => d.awake
      BY <3>1, ReadsSector
    <3> HIDE DEF d
    <3>3. Moved(d, s) /\ d.disk = View(s)
      BY <2>2, <2>4, <3>2, MovesOn
    <3>4. CASE ~Ok(d)
      BY <1>3, <2>1, <2>2, <2>4, <3>2, <3>3, <3>4
    <3>5. CASE Ok(d)
      <4>1. r = [d EXCEPT !.win = d.disk[x], !.winsect = x]
        BY <2>1, <2>4, <3>5
      <4>2. d \in State /\ d.disk = View(s) /\ ~d.wflag /\ d.awake
        BY <2>2, <2>4, <3>2, <3>3, <3>5 DEF Moved, MemOk
      <4>3. View(s)[x] \in Content(x) /\ View(s)[x] \in Windows
        BY <1>1, <3>1, DiskParts
      <4>4. /\ r \in State /\ r.disk = View(s) /\ r.win = View(s)[x] /\ r.winsect = x /\ ~r.wflag
            /\ Same(r, d) /\ r.res = "OK" /\ r.awake /\ r.mounted = d.mounted
        <5> DEFINE v == View(s)[x]
        <5>1. r = [d EXCEPT !.win = v, !.winsect = x]
          BY <4>1, <4>2
        <5>2. v \in Windows /\ x \in Meta \cup {NoSector}
          BY <3>1, <4>3
        <5> HIDE DEF v
        <5>3. r \in State
          BY <4>2, <5>1, <5>2 DEF State
        <5>4. /\ r.disk = d.disk /\ r.win = v /\ r.winsect = x /\ r.wflag = d.wflag /\ r.res = d.res
              /\ r.awake = d.awake /\ r.mounted = d.mounted /\ r.fault = d.fault /\ r.fp = d.fp
              /\ r.last_clust = d.last_clust /\ r.io = d.io
          BY <4>2, <5>1 DEF State
        <5>5. d.io \in Nat
          BY <4>2 DEF State
        <5> QED
          BY <3>5, <4>2, <5>3, <5>4, <5>5 DEF Same, Ok, v
      <4>5. View(r) = View(s)
        <5>1. View(r) = [View(s) EXCEPT ![x] = View(s)[x]]
          BY <3>1, <4>4, SectorsApart DEF View
        <5>2. View(s) \in [Layout -> DataVal \cup Windows]
          BY <1>1 DEF Disks
        <5> QED
          BY <5>1, <5>2
      <4>6. s.mounted /\ r.mounted
        BY <3>1, <3>3, <4>4, SectorsApart DEF Moved, Same
      <4>7. MemOk(r)
        BY <3>1, <4>3, <4>4, <4>5, <4>6 DEF MemOk
      <4>8. Same(r, s)
        <5>1. s.io \in Nat /\ d.io \in Nat /\ r.io \in Nat
          BY <1>1, <4>2, <4>4 DEF State
        <5>2. \A a, b, e \in Nat : a <= b /\ b <= e => a <= e
          OBVIOUS
        <5>3. s.io <= d.io /\ d.io <= r.io
          BY <3>3, <4>4 DEF Moved, Same
        <5>4. s.io <= r.io
          BY <5>1, <5>2, <5>3
        <5> QED
          BY <3>3, <4>4, <5>4 DEF Moved, Same
      <4> QED
        BY <4>4, <4>5, <4>7, <4>8 DEF Moved, Ok
    <3> QED
      BY <3>4, <3>5
  <2> QED
    BY <2>3, <2>4
<1> QED
  BY <1>2, <1>3

\* get_fat: the entry as the view has it, or the error.
Fetches(r, s, c) ==
    /\ Moved(r, s)
    /\ Ok(r) => r.val = Fat(View(s), c) /\ r.val \in FatVal /\ r.winsect = FatSector(c)
    /\ Ok(r) /\ s.winsect # FatSector(c) => r.disk = View(s) /\ r.awake
    /\ ~Ok(r) => r.val = DiskError

LEMMA GetsFat ==
    ASSUME NEW s, MemOk(s), s.mounted, NEW c \in Clusters
    PROVE  Fetches(get_fat(s, c), s, c) /\ get_fat(s, c).val \in FatVal \cup {DiskError}
<1> DEFINE x == FatSector(c)
           m == move_window(s, x)
           r == get_fat(s, c)
<1>1. x \in Meta /\ x # NoSector
  BY SectorsApart DEF FatSectors
<1>2. /\ Moved(m, s)
      /\ Ok(m) => m.winsect = x /\ m.win = View(s)[x]
      /\ Ok(m) /\ x # s.winsect => m.disk = View(s) /\ m.awake
  BY <1>1, MovesWindow
<1>3. r = [m EXCEPT !.val = IF Ok(m) THEN m.win[c] ELSE DiskError]
  BY DEF get_fat
<1>4. m \in State
  BY <1>2 DEF Moved, MemOk
<1> HIDE DEF m, r
<1>5. View(s) \in Disks /\ Fat(View(s), c) \in FatVal
  BY ViewType, DiskParts
<1>6. Ok(m) => m.win[c] = Fat(View(s), c)
  BY <1>2 DEF Fat
<1>7. (IF Ok(m) THEN m.win[c] ELSE DiskError) \in 0 .. N + 3
  BY <1>5, <1>6, Numbers DEF FatVal, EOC, DiskError, Clusters
<1>8. /\ r \in State /\ r.disk = m.disk /\ r.win = m.win /\ r.winsect = m.winsect /\ r.wflag = m.wflag
      /\ r.res = m.res /\ r.awake = m.awake /\ r.fault = m.fault /\ r.io = m.io /\ r.fp = m.fp
      /\ r.mounted = m.mounted /\ r.last_clust = m.last_clust
      /\ r.val = IF Ok(m) THEN m.win[c] ELSE DiskError
  BY <1>3, <1>4, <1>7 DEF State
<1>9. View(r) = View(m)
  BY <1>8, ViewSame
<1>10. Moved(r, s)
  BY <1>2, <1>8, <1>9 DEF Moved, MemOk, Same, Ok, Fails
<1> QED
  BY <1>2, <1>5, <1>6, <1>8, <1>10 DEF Fetches, Ok, r


\* put_fat: the entry is set in the window, or the window is left dirty.
Puts(r, s, c, v) ==
    /\ MemOk(r) /\ Same(r, s) /\ r.disk \in {s.disk, View(s)}
    /\ r.res \in {"OK", "DISK_ERR"} /\ (~Ok(r) => Fails(r) /\ View(r) = View(s))
    /\ Ok(r) => r.winsect = FatSector(c) /\ FatSet(View(r), View(s), c, v)

LEMMA PutsFat ==
    ASSUME NEW s, MemOk(s), s.mounted, s.winsect # NoSector, NEW c \in Clusters, NEW v \in FatVal
    PROVE  Puts(put_fat(s, c, v), s, c, v)
<1> DEFINE x == FatSector(c)
           m == move_window(s, x)
           r == put_fat(s, c, v)
<1>1. x \in Meta /\ x # NoSector
  BY SectorsApart DEF FatSectors
<1>2. /\ Moved(m, s)
      /\ Ok(m) => m.winsect = x /\ m.win = View(s)[x]
      /\ ~Ok(m) => m.winsect = s.winsect
  BY <1>1, MovesWindow
<1>3. r = IF Ok(m) THEN [m EXCEPT !.win[c] = v, !.wflag = TRUE] ELSE [m EXCEPT !.wflag = TRUE]
  BY DEF put_fat
<1>4. m \in State /\ MemOk(m) /\ m.winsect \in Meta \cup {NoSector}
  BY <1>2 DEF Moved, MemOk, State
<1>5. View(s) \in Disks /\ View(m) = View(s) /\ View(m) \in Disks /\ m.disk \in Disks
  BY <1>2, <1>4, ViewType DEF Moved
<1> HIDE DEF m, r
<1>6. CASE ~Ok(m)
  <2>1. r = [m EXCEPT !.wflag = TRUE]
    BY <1>3, <1>6
  <2>2. /\ r \in State /\ r.disk = m.disk /\ r.win = m.win /\ r.winsect = m.winsect /\ r.wflag
        /\ r.res = m.res /\ r.awake = m.awake /\ r.fault = m.fault /\ r.io = m.io /\ r.fp = m.fp
        /\ r.mounted = m.mounted /\ r.last_clust = m.last_clust
    BY <1>4, <2>1 DEF State
  <2>3. View(r) = View(m)
    BY <2>2, ViewSame
  <2>4. m.winsect # NoSector
    BY <1>2, <1>6
  <2>5. MemOk(r)
    BY <1>4, <2>2, <2>3, <2>4 DEF MemOk
  <2> QED
    <3>1. Same(r, s) /\ r.disk \in {s.disk, View(s)} /\ Same(m, s)
      BY <1>2, <1>5, <2>2 DEF Moved, Same
    <3>2. r.res \in {"OK", "DISK_ERR"} /\ ~Ok(r) /\ Fails(r)
      BY <1>2, <1>6, <2>2 DEF Moved, Ok, Fails
    <3>3. View(r) = View(s)
      BY <1>5, <2>3
    <3> QED
      BY <2>5, <3>1, <3>2, <3>3 DEF Puts, r
<1>7. CASE Ok(m)
  <2> DEFINE w == [m.win EXCEPT ![c] = v]
  <2>1. r = [m EXCEPT !.win = w, !.wflag = TRUE]
    BY <1>3, <1>4, <1>7 DEF State
  <2>2. w = [View(s)[FatSector(c)] EXCEPT ![c] = v]
    BY <1>2, <1>7
  <2> HIDE DEF w
  <2>3. w \in Content(x) /\ FatSet([View(s) EXCEPT ![x] = w], View(s), c, v)
    BY <1>5, <2>2, FatWritten
  <2>4. w \in Windows
    BY <1>1, <2>3 DEF Windows
  <2>5. /\ r \in State /\ r.disk = m.disk /\ r.win = w /\ r.winsect = x /\ r.wflag
        /\ r.res = m.res /\ r.awake = m.awake /\ r.fault = m.fault /\ r.io = m.io /\ r.fp = m.fp
        /\ r.mounted = m.mounted /\ r.last_clust = m.last_clust
    BY <1>2, <1>4, <1>7, <2>1, <2>4 DEF State
  <2>6. View(r) = [View(s) EXCEPT ![x] = w]
    <3>1. View(r) = [m.disk EXCEPT ![x] = w]
      BY <1>1, <2>5 DEF View
    <3>2. View(s) = [m.disk EXCEPT ![x] = m.win]
      BY <1>1, <1>2, <1>5, <1>7 DEF View
    <3>3. m.disk \in [Layout -> DataVal \cup Windows]
      BY <1>5 DEF Disks
    <3> QED
      BY <3>1, <3>2, <3>3
  <2>7. MemOk(r)
    <3>1. r.mounted
      BY <1>2, <2>5 DEF Moved, Same
    <3> QED
      BY <1>1, <2>3, <2>5, <3>1 DEF MemOk
  <2>8. Same(r, s) /\ r.disk \in {s.disk, View(s)} /\ Ok(r) /\ r.res = "OK"
    BY <1>2, <1>5, <1>7, <2>5 DEF Moved, Same, Ok
  <2> QED
    BY <2>3, <2>5, <2>6, <2>7, <2>8 DEF Puts, r
<1> QED
  BY <1>6, <1>7

-----------------------------------------------------------------------------
(* Whose the clusters are: own[c] is the slot of the directory whose file has *)
(* cluster c, or 0.                                                           *)

Owners == [Clusters -> 0 .. Slots]

\* ch is a path of k clusters of slot i.
Path(d, own, i, ch, k) ==
    /\ ch \in [1 .. k -> Clusters]
    /\ \A a, b \in 1 .. k : ch[a] = ch[b] => a = b
    /\ \A a \in 1 .. k : own[ch[a]] = i /\ (a < k => Fat(d, ch[a]) = ch[a + 1])
HasPath(d, own, i, first, k) == \E ch : Path(d, own, i, ch, k) /\ (k > 0 => ch[1] = first)

EntrySound(d, own, i) ==
    LET e == Dir(d)[i]
    IN  (e.clust \in Clusters => own[e.clust] = i) /\ HasPath(d, own, i, e.clust, e.size)
LinkSound(d, own, c) ==
    own[c] # 0 => Fat(d, c) # 0 /\ (Fat(d, c) \in Clusters => own[Fat(d, c)] = own[c])
NamesApart(dir) == \A i, j \in 1 .. Slots : dir[i].name = dir[j].name /\ dir[i].name # None => i = j

\* A disk on which the slots' chains are apart.
Vol(d, own) ==
    /\ d \in Disks /\ own \in Owners /\ NamesApart(Dir(d))
    /\ \A i \in 1 .. Slots : EntrySound(d, own, i)
    /\ \A c \in Clusters : LinkSound(d, own, c)
Sound(d) == \E own : Vol(d, own)

\* The file that is open, on a disk.
FileSound(d, own, f) ==
    /\ f.fsize = f.fptr
    /\ ~f.open => f = Closed
    /\ f.sclust \in Clusters => own[f.sclust] = f.slot
    /\ \E ch : /\ Path(d, own, f.slot, ch, f.fptr)
               /\ f.fptr > 0 => ch[1] = f.sclust /\ (~f.error => ch[f.fptr] = f.clust)
    /\ f.open /\ ~f.error => IF f.fptr = 0 THEN f.sclust = 0
                             ELSE f.clust \in Clusters /\ Fat(d, f.clust) = EOC /\ own[f.clust] = f.slot

\* What slot i has on d it has on e.
Keeps(e, new, d, own, i) ==
    \A c \in Clusters : own[c] = i => new[c] = i /\ (Fat(d, c) \in Clusters => Fat(e, c) = Fat(d, c))

LEMMA PathKept ==
    ASSUME NEW e, NEW new, NEW d, NEW own, NEW i, Keeps(e, new, d, own, i),
           NEW k \in Nat, NEW ch, Path(d, own, i, ch, k)
    PROVE  Path(e, new, i, ch, k)
<1>1. ch \in [1 .. k -> Clusters] /\ \A a, b \in 1 .. k : ch[a] = ch[b] => a = b
  BY DEF Path
<1>2. ASSUME NEW a \in 1 .. k PROVE new[ch[a]] = i /\ (a < k => Fat(e, ch[a]) = ch[a + 1])
  <2>1. ch[a] \in Clusters /\ own[ch[a]] = i /\ (a < k => Fat(d, ch[a]) = ch[a + 1])
    BY <1>1 DEF Path
  <2>2. a < k => a + 1 \in 1 .. k
    OBVIOUS
  <2>3. a < k => ch[a + 1] \in Clusters
    BY <1>1, <2>2
  <2> QED
    BY <2>1, <2>3 DEF Keeps
<1> QED
  BY <1>1, <1>2 DEF Path

LEMMA HasPathKept ==
    ASSUME NEW e, NEW new, NEW d, NEW own, NEW i, Keeps(e, new, d, own, i),
           NEW first, NEW k \in Nat, HasPath(d, own, i, first, k)
    PROVE  HasPath(e, new, i, first, k)
<1>1. PICK ch : Path(d, own, i, ch, k) /\ (k > 0 => ch[1] = first)
  BY DEF HasPath
<1>2. Path(e, new, i, ch, k)
  BY <1>1, PathKept
<1> QED
  BY <1>1, <1>2 DEF HasPath

\* No file is longer than there are clusters.
LEMMA PathShort ==
    ASSUME NEW d, NEW own, NEW i, NEW k \in Nat, NEW ch, Path(d, own, i, ch, k)
    PROVE  k <= N
<1>1. N \in Nat
  BY Numbers
<1>2. IsFiniteSet(1 .. N) /\ Cardinality(1 .. N) = N /\ IsFiniteSet(1 .. k) /\ Cardinality(1 .. k) = k
  <2>1. \A m \in Nat : IsFiniteSet(1 .. m) /\ Cardinality(1 .. m) = m
    BY FS_Interval
  <2> QED
    BY <1>1, <2>1
<1>3. SUFFICES ASSUME N < k PROVE FALSE
  BY <1>1
<1> DEFINE f == [a \in 1 .. k |-> ch[a] - 1]
<1>4. ch \in [1 .. k -> 2 .. N + 1] /\ \A a, b \in 1 .. k : ch[a] = ch[b] => a = b
  BY DEF Path, Clusters
<1>5. f \in [1 .. k -> 1 .. N]
  BY <1>1, <1>4
<1>6. \E a, b \in 1 .. k : a # b /\ f[a] = f[b]
  <2> HIDE DEF f
  <2> QED
    BY <1>1, <1>2, <1>3, <1>5, FS_PigeonHole
<1>7. PICK a \in 1 .. k, b \in 1 .. k : a # b /\ f[a] = f[b]
  BY <1>6
<1>8. ch[a] \in 2 .. N + 1 /\ ch[b] \in 2 .. N + 1
  BY <1>4
<1>9. ch[a] = ch[b]
  BY <1>1, <1>7, <1>8
<1> QED
  BY <1>4, <1>7, <1>9

\* A path that is one of k clusters and a cluster more.
Grows(d, own, i, ch, k, c) ==
    \E h : Path(d, own, i, h, k + 1) /\ h[k + 1] = c /\ \A a \in 1 .. k : h[a] = ch[a]

\* A path is made longer by a cluster.
LEMMA PathGrows ==
    ASSUME NEW d, NEW own, NEW i, NEW k \in Nat, NEW ch, Path(d, own, i, ch, k),
           NEW c \in Clusters, own[c] = i, \A a \in 1 .. k : ch[a] # c, k > 0 => Fat(d, ch[k]) = c
    PROVE  Grows(d, own, i, ch, k, c)
<1> DEFINE h == [a \in 1 .. k + 1 |-> IF a = k + 1 THEN c ELSE ch[a]]
<1>1. ch \in [1 .. k -> Clusters] /\ \A a, b \in 1 .. k : ch[a] = ch[b] => a = b
  BY DEF Path
<1>2. \A a \in 1 .. k + 1 : a = k + 1 \/ a \in 1 .. k
  OBVIOUS
<1>3. \A a \in 1 .. k : a \in 1 .. k + 1 /\ a # k + 1
  OBVIOUS
<1>4. h[k + 1] = c /\ \A a \in 1 .. k : h[a] = ch[a]
  BY <1>3
<1>5. h \in [1 .. k + 1 -> Clusters]
  BY <1>1, <1>2
<1> HIDE DEF h
<1>6. \A a, b \in 1 .. k + 1 : h[a] = h[b] => a = b
  BY <1>1, <1>2, <1>4
<1>7. ASSUME NEW a \in 1 .. k + 1 PROVE own[h[a]] = i /\ (a < k + 1 => Fat(d, h[a]) = h[a + 1])
  <2>1. CASE a = k + 1
    BY <1>4, <2>1
  <2>2. CASE a \in 1 .. k
    <3>1. h[a] = ch[a] /\ own[ch[a]] = i
      BY <1>4, <2>2 DEF Path
    <3>2. CASE a = k
      BY <1>4, <3>1, <3>2
    <3>3. CASE a # k
      <4>1. a < k /\ a + 1 \in 1 .. k
        BY <2>2, <3>3
      <4>2. Fat(d, ch[a]) = ch[a + 1] /\ h[a + 1] = ch[a + 1]
        BY <1>4, <2>2, <4>1 DEF Path
      <4> QED
        BY <3>1, <4>2
    <3> QED
      BY <3>2, <3>3
  <2> QED
    BY <1>2, <2>1, <2>2
<1>8. Path(d, own, i, h, k + 1)
  BY <1>5, <1>6, <1>7 DEF Path
<1> QED
  BY <1>4, <1>8 DEF Grows

\* The entries and the links of a changed disk.
LEMMA EntryKept ==
    ASSUME NEW e, NEW new, NEW d \in Disks, NEW own, NEW i \in 1 .. Slots, EntrySound(d, own, i),
           Keeps(e, new, d, own, i), Dir(e)[i] = Dir(d)[i]
    PROVE  EntrySound(e, new, i)
<1> DEFINE b == Dir(d)[i]
<1>1. Dir(d) \in Directory
  BY DiskParts
<1>2. b \in Entry
  BY <1>1 DEF Directory
<1>3. b.size \in Nat
  BY <1>2, Numbers DEF Entry
<1>4. (b.clust \in Clusters => own[b.clust] = i) /\ HasPath(d, own, i, b.clust, b.size)
  BY DEF EntrySound
<1>5. HasPath(e, new, i, b.clust, b.size)
  BY <1>3, <1>4, HasPathKept
<1>6. b.clust \in Clusters => new[b.clust] = i
  BY <1>4 DEF Keeps
<1> QED
  BY <1>5, <1>6 DEF EntrySound

LEMMA FileKept ==
    ASSUME NEW e, NEW new, NEW d, NEW own, NEW f \in File, FileSound(d, own, f),
           Keeps(e, new, d, own, f.slot),
           f.clust \in Clusters /\ own[f.clust] = f.slot /\ Fat(d, f.clust) = EOC => Fat(e, f.clust) = EOC
    PROVE  FileSound(e, new, f)
<1>1. f.fptr \in Nat
  BY Numbers DEF File
<1>2. PICK ch : /\ Path(d, own, f.slot, ch, f.fptr)
                /\ f.fptr > 0 => ch[1] = f.sclust /\ (~f.error => ch[f.fptr] = f.clust)
  BY DEF FileSound
<1>3. Path(e, new, f.slot, ch, f.fptr)
  BY <1>1, <1>2, PathKept
<1>4. f.sclust \in Clusters => new[f.sclust] = f.slot
  BY DEF FileSound, Keeps
<1>5. f.open /\ ~f.error => IF f.fptr = 0 THEN f.sclust = 0
                     ELSE f.clust \in Clusters /\ Fat(e, f.clust) = EOC /\ new[f.clust] = f.slot
  BY DEF FileSound, Keeps
<1>6. f.fsize = f.fptr /\ (~f.open => f = Closed)
  BY DEF FileSound
<1> QED
  BY <1>2, <1>3, <1>4, <1>5, <1>6 DEF FileSound

\* Where only data changed, the files stand.
LEMMA SameMetaVol ==
    ASSUME NEW e, NEW d, NEW own, SameMeta(e, d), Vol(d, own)
    PROVE  Vol(e, own) /\ \A f \in File : FileSound(d, own, f) => FileSound(e, own, f)
<1>1. \A i : Keeps(e, own, d, own, i)
  BY DEF Keeps, SameMeta
<1>2. \A i \in 1 .. Slots : EntrySound(d, own, i) /\ Dir(e)[i] = Dir(d)[i] /\ d \in Disks
  BY DEF Vol, SameMeta
<1>3. \A i \in 1 .. Slots : EntrySound(e, own, i)
  BY <1>1, <1>2, EntryKept
<1>4. \A c \in Clusters : LinkSound(e, own, c)
  BY DEF Vol, SameMeta, LinkSound
<1>5. ASSUME NEW f \in File, FileSound(d, own, f) PROVE FileSound(e, own, f)
  <2>1. f.clust \in Clusters /\ own[f.clust] = f.slot /\ Fat(d, f.clust) = EOC => Fat(e, f.clust) = EOC
    BY DEF SameMeta
  <2> QED
    BY <1>1, <1>5, <2>1, FileKept
<1> QED
  BY <1>3, <1>4, <1>5 DEF Vol, SameMeta

\* A free cluster is taken for slot i: it is the end of a chain.
LEMMA TakenVol ==
    ASSUME NEW e, NEW d, NEW own, NEW c \in Clusters, NEW i \in 1 .. Slots,
           Vol(d, own), Fat(d, c) = 0, FatSet(e, d, c, EOC)
    PROVE  /\ own[c] = 0 /\ Vol(e, [own EXCEPT ![c] = i])
           /\ \A j \in 1 .. Slots : Keeps(e, [own EXCEPT ![c] = i], d, own, j)
           /\ \A f \in File : FileSound(d, own, f) => FileSound(e, [own EXCEPT ![c] = i], f)
<1> DEFINE new == [own EXCEPT ![c] = i]
<1>1. own \in Owners /\ own[c] = 0
  BY Numbers DEF Vol, LinkSound
<1>2. new \in Owners /\ \A b \in Clusters : new[b] = IF b = c THEN i ELSE own[b]
  BY <1>1, Numbers DEF Owners
<1> HIDE DEF new
<1>3. e \in Disks /\ Dir(e) = Dir(d) /\ \A b \in Clusters : Fat(e, b) = IF b = c THEN EOC ELSE Fat(d, b)
  BY DEF FatSet
<1>4. \A j \in 1 .. Slots : j # 0
  OBVIOUS
<1>5. ASSUME NEW j \in 1 .. Slots PROVE Keeps(e, new, d, own, j)
  BY <1>1, <1>2, <1>3, <1>4 DEF Keeps
<1>6. \A j \in 1 .. Slots : EntrySound(e, new, j)
  <2>1. \A j \in 1 .. Slots : EntrySound(d, own, j) /\ Dir(e)[j] = Dir(d)[j] /\ d \in Disks
    BY <1>3 DEF Vol
  <2> QED
    BY <1>5, <2>1, EntryKept
<1>7. ASSUME NEW b \in Clusters PROVE LinkSound(e, new, b)
  <2>1. CASE b = c
    BY <1>3, <2>1, Numbers DEF LinkSound
  <2>2. CASE b # c
    BY <1>1, <1>2, <1>3, <2>2 DEF LinkSound, Vol
  <2> QED
    BY <2>1, <2>2
<1>8. Vol(e, new)
  BY <1>2, <1>3, <1>6, <1>7 DEF Vol
<1>9. ASSUME NEW f \in File, FileSound(d, own, f) PROVE FileSound(e, new, f)
  <2>1. f.slot \in 1 .. Slots
    BY DEF File
  <2>2. f.clust \in Clusters /\ own[f.clust] = f.slot /\ Fat(d, f.clust) = EOC => Fat(e, f.clust) = EOC
    BY <1>3
  <2> QED
    BY <1>5, <1>9, <2>1, <2>2, FileKept
<1> QED
  BY <1>1, <1>5, <1>8, <1>9 DEF new

\* The last cluster of a chain is linked to another of its slot.
LEMMA JoinedVol ==
    ASSUME NEW e, NEW d, NEW own, NEW c \in Clusters, NEW b \in Clusters, own[b] = own[c],
           Vol(d, own), Fat(d, c) \notin Clusters, FatSet(e, d, c, b)
    PROVE  Vol(e, own) /\ \A j : Keeps(e, own, d, own, j)
<1>1. e \in Disks /\ Dir(e) = Dir(d) /\ \A a \in Clusters : Fat(e, a) = IF a = c THEN b ELSE Fat(d, a)
  BY DEF FatSet
<1>2. \A j : Keeps(e, own, d, own, j)
  BY <1>1 DEF Keeps
<1>3. \A j \in 1 .. Slots : EntrySound(e, own, j)
  <2>1. \A j \in 1 .. Slots : EntrySound(d, own, j) /\ Dir(e)[j] = Dir(d)[j] /\ d \in Disks
    BY <1>1 DEF Vol
  <2> QED
    BY <1>2, <2>1, EntryKept
<1>4. ASSUME NEW a \in Clusters PROVE LinkSound(e, own, a)
  <2>1. CASE a = c
    BY <1>1, <2>1, Numbers DEF LinkSound
  <2>2. CASE a # c
    BY <1>1, <2>2 DEF LinkSound, Vol
  <2> QED
    BY <2>1, <2>2
<1> QED
  BY <1>1, <1>2, <1>3, <1>4 DEF Vol

\* A cluster that is nobody's is freed.
LEMMA ClearedVol ==
    ASSUME NEW e, NEW d, NEW own, NEW c \in Clusters, own[c] = 0, Vol(d, own), FatSet(e, d, c, 0)
    PROVE  Vol(e, own)
<1>1. e \in Disks /\ Dir(e) = Dir(d) /\ \A a \in Clusters : Fat(e, a) = IF a = c THEN 0 ELSE Fat(d, a)
  BY DEF FatSet
<1>2. \A j \in 1 .. Slots : j # 0
  OBVIOUS
<1>3. \A j \in 1 .. Slots : Keeps(e, own, d, own, j)
  BY <1>1, <1>2 DEF Keeps
<1>4. \A j \in 1 .. Slots : EntrySound(e, own, j)
  <2>1. \A j \in 1 .. Slots : EntrySound(d, own, j) /\ Dir(e)[j] = Dir(d)[j] /\ d \in Disks
    BY <1>1 DEF Vol
  <2> QED
    BY <1>3, <2>1, EntryKept
<1>5. ASSUME NEW a \in Clusters PROVE LinkSound(e, own, a)
  BY <1>1 DEF LinkSound, Vol
<1> QED
  BY <1>1, <1>4, <1>5 DEF Vol

\* The empty path; a file that is closed, or was opened just now.
LEMMA PathEmpty ==
    ASSUME NEW d, NEW own, NEW i
    PROVE  \E ch : Path(d, own, i, ch, 0)
<1>1. Path(d, own, i, [a \in 1 .. 0 |-> 2], 0)
  BY DEF Path
<1> QED
  BY <1>1

LEMMA ClosedSound ==
    ASSUME NEW d, NEW own
    PROVE  FileSound(d, own, Closed) /\ \A i : FileSound(d, own, Opened(i))
<1>1. \A i : \E ch : Path(d, own, i, ch, 0)
  BY PathEmpty
<1>2. /\ Closed.fptr = 0 /\ Closed.fsize = 0 /\ Closed.sclust = 0 /\ ~Closed.open
      /\ \A i : /\ Opened(i).fptr = 0 /\ Opened(i).fsize = 0 /\ Opened(i).sclust = 0
                /\ Opened(i).open /\ Opened(i).slot = i
  BY DEF Closed, Opened
<1>3. FileSound(d, own, Closed)
  BY <1>1, <1>2, Numbers DEF FileSound
<1>4. \A i : FileSound(d, own, Opened(i))
  BY <1>1, <1>2, Numbers DEF FileSound
<1> QED
  BY <1>3, <1>4

\* Clusters that are nobody's, and are followed by such only.
Trash(d, own, T) ==
    T \subseteq Clusters /\ \A c \in T : own[c] = 0 /\ (Fat(d, c) \in Clusters => Fat(d, c) \in T)

\* An entry is emptied: its clusters are nobody's then.
LEMMA EmptiedVol ==
    ASSUME NEW e, NEW d, NEW own, NEW i \in 1 .. Slots, NEW nm \in Name, Vol(d, own),
           \A j \in 1 .. Slots : Dir(d)[j].name = nm => j = i,
           NEW b, b = [name |-> nm, clust |-> 0, size |-> 0], DirSet(e, d, i, b)
    PROVE  \E new, T : Vol(e, new) /\ Trash(e, new, T) /\ (Dir(d)[i].clust \in Clusters => Dir(d)[i].clust \in T)
<1> DEFINE new == [c \in Clusters |-> IF own[c] = i THEN 0 ELSE own[c]]
           T == {c \in Clusters : own[c] = i}
<1>1. own \in Owners /\ d \in Disks /\ Dir(d) \in Directory /\ NamesApart(Dir(d))
  BY DiskParts DEF Vol
<1>2. new \in Owners /\ \A c \in Clusters : new[c] = IF own[c] = i THEN 0 ELSE own[c]
  BY <1>1, Numbers DEF Owners
<1> HIDE DEF new
<1>3. /\ e \in Disks /\ \A c \in Clusters : Fat(e, c) = Fat(d, c)
      /\ \A j \in 1 .. Slots : Dir(e)[j] = IF j = i THEN b ELSE Dir(d)[j]
  BY <1>1 DEF DirSet, Directory
<1>4. NamesApart(Dir(e))
  <2>1. b.name = nm
    OBVIOUS
  <2> QED
    BY <1>1, <1>3, <2>1 DEF NamesApart
<1>5. ASSUME NEW j \in 1 .. Slots PROVE EntrySound(e, new, j)
  <2>1. CASE j = i
    <3>1. Dir(e)[j].clust = 0 /\ Dir(e)[j].size = 0
      BY <1>3, <2>1
    <3>2. HasPath(e, new, j, 0, 0)
      BY PathEmpty DEF HasPath
    <3> QED
      BY <3>1, <3>2, Numbers DEF EntrySound
  <2>2. CASE j # i
    <3>1. Keeps(e, new, d, own, j)
      BY <1>2, <1>3, <2>2 DEF Keeps
    <3>2. EntrySound(d, own, j) /\ Dir(e)[j] = Dir(d)[j]
      BY <1>3, <2>2 DEF Vol
    <3> QED
      BY <1>1, <3>1, <3>2, EntryKept
  <2> QED
    BY <2>1, <2>2
<1>6. \A c \in Clusters : LinkSound(d, own, c)
  BY DEF Vol
<1>7. ASSUME NEW c \in Clusters PROVE LinkSound(e, new, c)
  BY <1>2, <1>3, <1>6 DEF LinkSound
<1>8. Vol(e, new)
  BY <1>2, <1>3, <1>4, <1>5, <1>7 DEF Vol
<1>9. i # 0
  OBVIOUS
<1>10. Trash(e, new, T)
  BY <1>2, <1>3, <1>6, <1>9 DEF Trash, LinkSound
<1>11. EntrySound(d, own, i)
  BY DEF Vol
<1>12. Dir(d)[i].clust \in Clusters => Dir(d)[i].clust \in T
  BY <1>11 DEF EntrySound
<1> QED
  BY <1>8, <1>10, <1>12

\* The entry of an open file is brought up to date.
LEMMA SyncedVol ==
    ASSUME NEW e, NEW d, NEW own, NEW f \in File, Vol(d, own), FileSound(d, own, f),
           NEW b, b = [Dir(d)[f.slot] EXCEPT !.clust = f.sclust, !.size = f.fsize], DirSet(e, d, f.slot, b)
    PROVE  Vol(e, own) /\ FileSound(e, own, f)
<1> DEFINE i == f.slot
<1>1. d \in Disks /\ Dir(d) \in Directory /\ NamesApart(Dir(d)) /\ i \in 1 .. Slots
  BY DiskParts DEF Vol, File
<1>2. Dir(d)[i] \in Entry
  BY <1>1 DEF Directory
<1>3. b.name = Dir(d)[i].name /\ b.clust = f.sclust /\ b.size = f.fptr
  BY <1>2 DEF Entry, FileSound
<1>4. /\ e \in Disks /\ \A c \in Clusters : Fat(e, c) = Fat(d, c)
      /\ \A j \in 1 .. Slots : Dir(e)[j] = IF j = i THEN b ELSE Dir(d)[j]
  BY <1>1 DEF DirSet, Directory
<1>5. \A j : Keeps(e, own, d, own, j)
  BY <1>4 DEF Keeps
<1>6. NamesApart(Dir(e))
  <2>1. ASSUME NEW j \in 1 .. Slots PROVE Dir(e)[j].name = Dir(d)[j].name
    BY <1>3, <1>4
  <2> QED
    BY <1>1, <2>1 DEF NamesApart
<1>7. FileSound(e, own, f)
  <2>1. f.clust \in Clusters /\ own[f.clust] = f.slot /\ Fat(d, f.clust) = EOC => Fat(e, f.clust) = EOC
    BY <1>4
  <2> QED
    BY <1>5, <2>1, FileKept
<1>8. ASSUME NEW j \in 1 .. Slots PROVE EntrySound(e, own, j)
  <2>1. CASE j = i
    <3>1. HasPath(e, own, i, f.sclust, f.fptr)
      BY <1>7 DEF FileSound, HasPath
    <3>2. f.sclust \in Clusters => own[f.sclust] = i
      BY DEF FileSound
    <3> QED
      BY <1>3, <1>4, <2>1, <3>1, <3>2 DEF EntrySound
  <2>2. CASE j # i
    <3>1. EntrySound(d, own, j) /\ Dir(e)[j] = Dir(d)[j]
      BY <1>4, <2>2 DEF Vol
    <3> QED
      BY <1>1, <1>5, <3>1, EntryKept
  <2> QED
    BY <2>1, <2>2
<1>9. \A c \in Clusters : LinkSound(e, own, c)
  BY <1>4 DEF Vol, LinkSound
<1> QED
  BY <1>4, <1>6, <1>7, <1>8, <1>9 DEF Vol

-----------------------------------------------------------------------------
(* The card and the view of it are sound at every access.                     *)

Good(t, own) == MemOk(t) /\ Sound(t.disk) /\ Vol(View(t), own)

LEMMA MovedGood ==
    ASSUME NEW s, NEW r, NEW own, Good(s, own), Moved(r, s)
    PROVE  Good(r, own)
  BY DEF Good, Moved, Sound

\* Only the result and the value differ.
Only(r, s) ==
    /\ r.disk = s.disk /\ r.win = s.win /\ r.winsect = s.winsect /\ r.wflag = s.wflag /\ r.mounted = s.mounted
    /\ r.awake = s.awake /\ r.fault = s.fault /\ r.io = s.io /\ r.fp = s.fp /\ r.last_clust = s.last_clust

LEMMA OnlyGood ==
    ASSUME NEW s, MemOk(s), NEW r \in State, Only(r, s)
    PROVE  /\ MemOk(r) /\ View(r) = View(s) /\ Same(r, s)
           /\ \A own : Good(s, own) => Good(r, own)
           /\ \A q : Moved(s, q) /\ r.res = s.res => Moved(r, q)
<1>1. View(r) = View(s)
  BY ViewSame DEF Only
<1>2. s.io \in Nat
  BY DEF MemOk, State
<1>3. MemOk(r) /\ Same(r, s)
  BY <1>1, <1>2 DEF MemOk, Only, Same
<1>4. \A own : Good(s, own) => Good(r, own)
  BY <1>1, <1>3 DEF Good, Only
<1>5. ASSUME NEW q, Moved(s, q), r.res = s.res PROVE Moved(r, q)
  BY <1>1, <1>3, <1>5 DEF Moved, Only, Same, Ok, Fails
<1> QED
  BY <1>1, <1>3, <1>4, <1>5

\* A value or a result set.
LEMMA ValSet ==
    ASSUME NEW s \in State, NEW v \in 0 .. N + 3
    PROVE  LET r == [s EXCEPT !.val = v]
           IN  r \in State /\ Only(r, s) /\ r.res = s.res /\ r.val = v
  BY DEF State, Only

LEMMA ResSet ==
    ASSUME NEW s \in State, NEW v \in Results
    PROVE  LET r == Yields(s, v)
           IN  r \in State /\ Only(r, s) /\ r.res = v /\ r.val = s.val
  BY DEF State, Only, Yields

\* A link is freed.
Unlinks(r, q, own, T) ==
    /\ r \in [t : State, c : FatVal] /\ Good(r.t, own) /\ r.t.mounted /\ Same(r.t, q)
    /\ r.t.res \in {"OK", "DISK_ERR"} /\ (~Ok(r.t) => Fails(r.t))
    /\ Trash(View(r.t), own, T) /\ (r.c \in Clusters => r.c \in T)

LEMMA SameOn ==
    ASSUME NEW s, NEW r, NEW q, s \in State, r \in State, q \in State, Same(r, s), Same(q, r)
    PROVE  Same(q, s)
<1>1. s.io \in Nat /\ r.io \in Nat /\ q.io \in Nat
  BY DEF State
<1>2. s.io <= r.io /\ r.io <= q.io
  BY DEF Same
<1>3. s.io <= q.io
  BY <1>1, <1>2
<1> QED
  BY <1>3 DEF Same

LEMMA UnlinkStep ==
    ASSUME NEW r, NEW q \in State, NEW own, NEW T, Unlinks(r, q, own, T)
    PROVE  Unlinks(Unlink(r), q, own, T)
<1>1. r \in [t : State, c : FatVal] /\ Good(r.t, own) /\ MemOk(r.t) /\ r.t.mounted /\ r.t \in State
  BY DEF Unlinks, Good
<1>2. CASE r.c \notin Clusters
  BY <1>2 DEF Unlink
<1>3. CASE r.c \in Clusters
  <2> DEFINE g == get_fat(r.t, r.c)
             p == put_fat(g, r.c, 0)
  <2>1. Fetches(g, r.t, r.c) /\ g.val \in FatVal \cup {DiskError}
    BY <1>1, <1>3, GetsFat
  <2>2. Moved(g, r.t) /\ Good(g, own) /\ MemOk(g) /\ View(g) = View(r.t) /\ g \in State
    BY <1>1, <2>1, MovedGood DEF Fetches, Moved, MemOk
  <2>3. g.mounted /\ Same(g, q) /\ (~Ok(g) => Fails(g)) /\ g.res \in {"OK", "DISK_ERR"}
    <3>1. Same(g, r.t) /\ Same(r.t, q)
      BY <2>2 DEF Moved, Unlinks
    <3> QED
      BY <1>1, <2>2, <3>1, SameOn DEF Moved, Same
  <2>4. Unlink(r) = CASE g.val = 0 -> [t |-> Yields(g, "OK"), c |-> 0]
                      [] g.val = DiskError -> [t |-> Yields(g, "DISK_ERR"), c |-> 0]
                      [] OTHER -> [t |-> p, c |-> IF Ok(p) THEN g.val ELSE 0]
    BY <1>3 DEF Unlink
  <2>5. Trash(View(g), own, T) /\ r.c \in T /\ own[r.c] = 0 /\ 0 \in FatVal
    BY <1>3, <2>2 DEF Unlinks, Trash, FatVal
  <2>6. ASSUME NEW v \in {"OK", "DISK_ERR"}, v = "DISK_ERR" => Fails(g)
        PROVE  Unlinks([t |-> Yields(g, v), c |-> 0], q, own, T)
    <3> DEFINE y == Yields(g, v)
    <3>1. y \in State /\ Only(y, g) /\ y.res = v
      BY <2>2, ResSet DEF Results
    <3> HIDE DEF y
    <3>2. Good(y, own) /\ View(y) = View(g) /\ Same(y, g)
      BY <2>2, <3>1, OnlyGood
    <3>3. Same(y, q)
      BY <2>2, <2>3, <3>1, <3>2, SameOn
    <3>4. Fails(g) => Fails(y)
      BY <3>1 DEF Only, Fails
    <3>5. Unlinks([t |-> y, c |-> 0], q, own, T)
      BY <2>3, <2>5, <2>6, <3>1, <3>2, <3>3, <3>4, Numbers DEF Unlinks, Only, Ok
    <3> QED
      BY <3>5 DEF y
  <2> HIDE DEF g, p
  <2>7. CASE g.val = 0
    <3>1. Unlinks([t |-> Yields(g, "OK"), c |-> 0], q, own, T)
      BY <2>6
    <3> QED
      BY <2>4, <2>7, <3>1, Numbers
  <2>8. CASE g.val = DiskError
    <3>1. ~Ok(g)
      BY <2>1, <2>8, Numbers DEF Fetches
    <3>2. Unlinks([t |-> Yields(g, "DISK_ERR"), c |-> 0], q, own, T)
      BY <2>3, <2>6, <3>1
    <3> QED
      BY <2>4, <2>8, <3>2, Numbers
  <2>9. CASE g.val \notin {0, DiskError}
    <3>1. Ok(g) /\ g.val \in FatVal /\ g.val = Fat(View(g), r.c) /\ g.winsect # NoSector
      BY <1>3, <2>1, <2>2, <2>9, SectorsApart DEF Fetches
    <3>2. Puts(p, g, r.c, 0)
      BY <1>3, <2>2, <2>3, <2>5, <3>1, PutsFat DEF p
    <3>3. MemOk(p) /\ Sound(p.disk) /\ p \in State
      BY <2>2, <3>2 DEF Puts, MemOk, Good, Sound
    <3>4. Same(p, q) /\ p.mounted
      BY <2>2, <2>3, <3>2, <3>3, SameOn DEF Puts, Same
    <3>5. Vol(View(p), own) /\ Trash(View(p), own, T)
      <4>1. CASE ~Ok(p)
        BY <2>2, <2>5, <3>2, <4>1 DEF Puts, Good
      <4>2. CASE Ok(p)
        <5>1. FatSet(View(p), View(g), r.c, 0)
          BY <3>2, <4>2 DEF Puts
        <5>2. Vol(View(p), own)
          BY <1>3, <2>2, <2>5, <5>1, ClearedVol DEF Good
        <5>3. \A c \in Clusters : Fat(View(p), c) = IF c = r.c THEN 0 ELSE Fat(View(g), c)
          BY <5>1 DEF FatSet
        <5> QED
          BY <2>5, <5>2, <5>3, Numbers DEF Trash
      <4> QED
        BY <4>1, <4>2
    <3>6. g.val \in Clusters => g.val \in T
      BY <2>5, <3>1 DEF Trash
    <3>7. Unlink(r) = [t |-> p, c |-> IF Ok(p) THEN g.val ELSE 0]
      BY <2>4, <2>9
    <3>8. Unlinks([t |-> p, c |-> IF Ok(p) THEN g.val ELSE 0], q, own, T)
      BY <2>5, <3>1, <3>2, <3>3, <3>4, <3>5, <3>6, Numbers DEF Unlinks, Good, Puts
    <3> QED
      BY <3>7, <3>8
  <2> QED
    BY <2>1, <2>7, <2>8, <2>9
<1> QED
  BY <1>2, <1>3

\* A set of naturals that is not empty has a least element.
LEMMA LeastOne ==
    ASSUME NEW P \in SUBSET Nat, P # {}
    PROVE  \E m \in P : \A k \in P : m <= k
<1>1. PICK m \in P : \A k \in P : <<k, m>> \notin OpToRel(<, Nat)
  <2>1. IsWellFoundedOn(OpToRel(<, Nat), Nat)
    BY NatLessThanWellFounded
  <2> QED
    BY <2>1, WFMin
<1>2. \A k \in P : ~(k < m)
  BY <1>1 DEF OpToRel
<1> QED
  BY <1>2

\* f follows a chain that is freed, for m links.
Unlinking(f, s, c, m) == f = [k \in 0 .. m |-> IF k = 0 THEN [t |-> s, c |-> c] ELSE Unlink(f[k - 1])]

LEMMA UnlinkingExists ==
    ASSUME NEW s, NEW c, NEW m \in Nat
    PROVE  \E f : Unlinking(f, s, c, m)
<1> DEFINE Bad == {k \in Nat : ~ \E f : Unlinking(f, s, c, k)}
<1>1. SUFFICES ASSUME Bad # {} PROVE FALSE
  OBVIOUS
<1>2. PICK k \in Bad : \A j \in Bad : k <= j
  BY <1>1, LeastOne
<1>3. CASE k = 0
  <2>1. Unlinking([j \in 0 .. k |-> [t |-> s, c |-> c]], s, c, k)
    BY <1>3 DEF Unlinking
  <2> QED
    BY <1>2, <2>1
<1>4. CASE k # 0
  <2>1. k - 1 \in Nat /\ k - 1 \notin Bad
    BY <1>2, <1>4
  <2>2. PICK f : Unlinking(f, s, c, k - 1)
    BY <2>1
  <2> DEFINE e == [j \in 0 .. k |-> IF j = k THEN Unlink(f[k - 1]) ELSE f[j]]
  <2>3. \A j \in 0 .. k - 1 : f[j] = IF j = 0 THEN [t |-> s, c |-> c] ELSE Unlink(f[j - 1])
    BY <2>2 DEF Unlinking
  <2>4. ASSUME NEW j \in 0 .. k PROVE e[j] = IF j = 0 THEN [t |-> s, c |-> c] ELSE Unlink(e[j - 1])
    BY <1>4, <2>1, <2>3
  <2>5. Unlinking(e, s, c, k)
    BY <2>4 DEF Unlinking
  <2> QED
    BY <1>2, <2>5
<1> QED
  BY <1>3, <1>4

\* A chain of nobody's clusters is freed, or some of it.
LEMMA FreedGood ==
    ASSUME NEW s, NEW own, NEW T, NEW c \in T, Good(s, own), s.mounted, Trash(View(s), own, T),
           s.res \in {"OK", "DISK_ERR"}, ~Ok(s) => Fails(s)
    PROVE  LET r == Freed(s, c)
           IN  Good(r, own) /\ Same(r, s) /\ r.res \in {"OK", "DISK_ERR"} /\ (~Ok(r) => Fails(r))
<1>1. PICK f : f = CHOOSE x : Unlinking(x, s, c, N + 1)
  OBVIOUS
<1>2. N + 1 \in Nat
  BY Numbers
<1>3. Unlinking(f, s, c, N + 1)
  BY <1>1, <1>2, UnlinkingExists
<1>4. Freed(s, c) = f[N + 1].t
  BY <1>1 DEF Freed, Unlinking
<1>5. \A k \in 0 .. N + 1 : f[k] = IF k = 0 THEN [t |-> s, c |-> c] ELSE Unlink(f[k - 1])
  BY <1>3 DEF Unlinking
<1>6. s \in State
  BY DEF Good, MemOk
<1> DEFINE Bad == {k \in 0 .. N + 1 : ~Unlinks(f[k], s, own, T)}
<1>7. Bad = {}
  <2>1. SUFFICES ASSUME Bad # {} PROVE FALSE
    OBVIOUS
  <2>2. Bad \in SUBSET Nat
    BY <1>2
  <2>3. PICK k \in Bad : \A j \in Bad : k <= j
    BY <2>1, <2>2, LeastOne
  <2>4. CASE k = 0
    <3>1. f[k] = [t |-> s, c |-> c]
      BY <1>2, <1>5, <2>4
    <3>2. c \in Clusters /\ c \in FatVal /\ s.io \in Nat
      BY <1>6 DEF Trash, FatVal, State
    <3>3. Same(s, s)
      BY <3>2 DEF Same
    <3>4. Unlinks(f[k], s, own, T)
      BY <1>6, <3>1, <3>2, <3>3 DEF Unlinks
    <3> QED
      BY <2>3, <3>4
  <2>5. CASE k # 0
    <3>1. k - 1 \in 0 .. N + 1 /\ k - 1 \notin Bad /\ k \in 0 .. N + 1
      BY <1>2, <2>3, <2>5
    <3>2. Unlinks(f[k - 1], s, own, T)
      BY <3>1
    <3>3. Unlinks(Unlink(f[k - 1]), s, own, T)
      BY <1>6, <3>2, UnlinkStep
    <3>4. f[k] = Unlink(f[k - 1])
      BY <1>5, <2>5, <3>1
    <3> QED
      BY <2>3, <3>3, <3>4
  <2> QED
    BY <2>4, <2>5
<1>8. Unlinks(f[N + 1], s, own, T)
  BY <1>2, <1>7
<1> QED
  BY <1>4, <1>8 DEF Unlinks

\* The directory's window changed.
LEMMA DirPut ==
    ASSUME NEW s, MemOk(s), s.winsect = DirSector, s.mounted, NEW i \in 1 .. Slots, NEW b \in Entry,
           NEW r \in State, r.win = [s.win EXCEPT ![i] = b], r.winsect = DirSector, r.disk = s.disk, r.mounted, r.wflag
    PROVE  MemOk(r) /\ DirSet(View(r), View(s), i, b) /\ s.win = Dir(View(s)) /\ s.win \in Directory
<1>1. DirSector # NoSector /\ DirSector \in Meta
  BY DEF DirSector, NoSector, Meta
<1>2. View(s) \in Disks /\ s.disk \in Disks /\ s.win = Dir(View(s))
  BY <1>1, ViewType DEF Dir
<1>3. s.win \in Directory
  BY <1>2, DiskParts
<1>4. r.win \in Content(DirSector) /\ DirSet([View(s) EXCEPT ![DirSector] = r.win], View(s), i, b)
  BY <1>2, DirWritten
<1>5. View(r) = [View(s) EXCEPT ![DirSector] = r.win]
  <2>1. View(r) = [s.disk EXCEPT ![DirSector] = r.win] /\ View(s) = [s.disk EXCEPT ![DirSector] = s.win]
    BY <1>1 DEF View
  <2>2. s.disk \in [Layout -> DataVal \cup Windows]
    BY <1>2 DEF Disks
  <2> QED
    BY <2>1, <2>2
<1> QED
  BY <1>1, <1>2, <1>3, <1>4, <1>5 DEF MemOk

\* What a call leaves of the FATFS object and of the file.
Like(r, s) ==
    r.mounted = s.mounted /\ r.awake = s.awake /\ r.fault = s.fault /\ r.fp = s.fp /\ s.io <= r.io

\* The entry is emptied, and its chain freed, or some of it.
LEMMA EmptiedGood ==
    ASSUME NEW s, NEW own, Good(s, own), s.mounted, s.winsect = DirSector, s.res = "OK",
           NEW i \in 1 .. Slots, NEW nm \in Name,
           \A j \in 1 .. Slots : Dir(View(s))[j].name = nm => j = i
    PROVE  LET r == Emptied(s, i, nm)
           IN  (\E new : Good(r, new)) /\ Like(r, s) /\ r.res \in Results
<1> DEFINE b == [name |-> nm, clust |-> 0, size |-> 0]
           cl == s.win[i].clust
           e == [s EXCEPT !.win[i] = b, !.wflag = TRUE]
<1>1. MemOk(s) /\ s \in State /\ Vol(View(s), own) /\ Sound(s.disk) /\ s.io \in Nat
  BY DEF Good, MemOk, State
<1>2. DirSector # NoSector /\ DirSector \in Meta
  BY DEF DirSector, NoSector, Meta
<1>3. s.win \in Content(DirSector) /\ s.win = Dir(View(s))
  BY <1>1, <1>2, ViewType DEF MemOk, Dir
<1>4. s.win \in Directory
  BY <1>3 DEF Content
<1>5. b \in Entry
  BY Numbers DEF Entry
<1>6. [s.win EXCEPT ![i] = b] \in Windows
  <2>1. [s.win EXCEPT ![i] = b] \in Content(DirSector)
    BY <1>4, <1>5 DEF Directory, Content
  <2> QED
    BY <1>2, <2>1 DEF Windows
<1>7. e = [s EXCEPT !.win = [s.win EXCEPT ![i] = b], !.wflag = TRUE]
  BY <1>1 DEF State
<1>8. /\ e \in State /\ e.win = [s.win EXCEPT ![i] = b] /\ e.winsect = DirSector /\ e.disk = s.disk
      /\ e.mounted /\ e.wflag /\ Same(e, s) /\ e.res = "OK"
  <2> DEFINE w == [s.win EXCEPT ![i] = b]
  <2>1. w \in Windows /\ e = [s EXCEPT !.win = w, !.wflag = TRUE]
    BY <1>6, <1>7
  <2> HIDE DEF w, e
  <2>2. e \in State
    BY <1>1, <2>1 DEF State
  <2>3. /\ e.win = w /\ e.winsect = s.winsect /\ e.disk = s.disk /\ e.mounted = s.mounted /\ e.wflag
        /\ e.res = s.res /\ e.awake = s.awake /\ e.fault = s.fault /\ e.fp = s.fp
        /\ e.last_clust = s.last_clust /\ e.io = s.io
    BY <1>1, <2>1 DEF State
  <2> QED
    BY <1>1, <2>2, <2>3 DEF Same, w
<1>9. cl \in {0, DiskError} \cup Clusters /\ cl = Dir(View(s))[i].clust
  BY <1>3, <1>4 DEF Directory, Entry
<1>10. Emptied(s, i, nm) = IF cl = 0 THEN e
                           ELSE LET r == remove_chain(e, cl)
                                IN  IF Ok(r) THEN move_window([r EXCEPT !.last_clust = cl - 1], DirSector) ELSE r
  BY DEF Emptied
<1> HIDE DEF b, e, cl
<1>11. MemOk(e) /\ DirSet(View(e), View(s), i, b)
  BY <1>1, <1>5, <1>8, DirPut
<1>12. PICK new, T : Vol(View(e), new) /\ Trash(View(e), new, T) /\ (cl \in Clusters => cl \in T)
  BY <1>1, <1>9, <1>11, EmptiedVol DEF b
<1>13. Good(e, new)
  BY <1>1, <1>8, <1>11, <1>12 DEF Good
<1>14. CASE cl = 0
  BY <1>8, <1>10, <1>13, <1>14 DEF Like, Same, Results
<1>15. CASE cl \notin Clusters /\ cl # 0
  <2> DEFINE r == Yields(e, "INT_ERR")
  <2>1. r \in State /\ Only(r, e) /\ r.res = "INT_ERR"
    BY <1>8, ResSet DEF Results
  <2>2. remove_chain(e, cl) = r
    BY <1>15 DEF remove_chain
  <2> HIDE DEF r
  <2>3. Emptied(s, i, nm) = r
    BY <1>10, <1>15, <2>1, <2>2 DEF Ok
  <2>4. Good(r, new) /\ Same(r, e)
    BY <1>11, <1>13, <2>1, OnlyGood
  <2>5. Same(r, s)
    BY <1>1, <1>8, <2>1, <2>4, SameOn
  <2> QED
    BY <2>1, <2>3, <2>4, <2>5 DEF Like, Same, Results
<1>16. CASE cl \in Clusters
  <2> DEFINE r == Freed(e, cl)
             a == [r EXCEPT !.last_clust = cl - 1]
             m == move_window(a, DirSector)
  <2>1. cl \in T
    BY <1>12, <1>16
  <2>2. Good(r, new) /\ Same(r, e) /\ r.res \in {"OK", "DISK_ERR"} /\ (~Ok(r) => Fails(r))
    BY <1>8, <1>12, <1>13, <2>1, FreedGood DEF Ok
  <2>3. Emptied(s, i, nm) = IF Ok(r) THEN m ELSE r
    BY <1>10, <1>16, Numbers DEF remove_chain
  <2> HIDE DEF r
  <2>4. r \in State /\ MemOk(r) /\ Same(r, s) /\ r.mounted
    BY <1>1, <1>8, <2>2, SameOn DEF Good, MemOk, Same
  <2>5. cl - 1 \in {1} \cup Clusters
    BY <1>16, Numbers
  <2>6. /\ a \in State /\ a.disk = r.disk /\ a.win = r.win /\ a.winsect = r.winsect /\ a.wflag = r.wflag
        /\ a.mounted = r.mounted /\ Like(a, s)
    BY <2>4, <2>5 DEF State, Like, Same
  <2> HIDE DEF a
  <2>7. View(a) = View(r)
    BY <2>6, ViewSame
  <2>8. Good(a, new) /\ MemOk(a)
    BY <2>2, <2>4, <2>6, <2>7 DEF Good, MemOk
  <2>9. Moved(m, a)
    BY <1>2, <2>4, <2>6, <2>8, MovesWindow
  <2> HIDE DEF m
  <2>10. Good(m, new) /\ m.res \in Results
    BY <2>8, <2>9, MovedGood DEF Moved, Results
  <2>11. Like(m, s)
    <3>1. s.io \in Nat /\ a.io \in Nat /\ m.io \in Nat
      BY <1>1, <2>6, <2>10 DEF State, Good, MemOk
    <3>2. s.io <= a.io /\ a.io <= m.io
      BY <2>6, <2>9 DEF Like, Moved, Same
    <3>3. s.io <= m.io
      BY <3>1, <3>2
    <3> QED
      BY <2>6, <2>9, <3>3 DEF Like, Moved, Same
  <2>12. Like(r, s) /\ r.res \in Results
    BY <2>2, <2>4 DEF Like, Same, Results
  <2> QED
    BY <2>2, <2>3, <2>10, <2>11, <2>12
<1> QED
  BY <1>9, <1>14, <1>15, <1>16

\* The slot of a name is the only one that has it.
LEMMA SlotIs ==
    ASSUME NEW dir \in Directory, NamesApart(dir), NEW nm \in Name, NEW i, i = SlotOf(dir, nm)
    PROVE  /\ i \in 0 .. Slots
           /\ i # 0 => dir[i].name \in {nm, None} /\ \A j \in 1 .. Slots : dir[j].name = nm => j = i
           /\ i = 0 => \A j \in 1 .. Slots : dir[j].name \notin {None, nm}
<1> DEFINE its(a) == {j \in 1 .. Slots : dir[j].name = a}
           first(S) == CHOOSE j \in S : \A k \in S : j <= k
<1>1. i = IF its(nm) # {} THEN first(its(nm)) ELSE IF its(None) # {} THEN first(its(None)) ELSE 0
  BY DEF SlotOf
<1>2. \A a : its(a) # {} => first(its(a)) \in its(a)
  <2>1. \A S \in SUBSET Nat : S # {} => first(S) \in S
    BY LeastOne
  <2>2. \A a : its(a) \in SUBSET Nat
    BY Numbers
  <2> QED
    BY <2>1, <2>2
<1> HIDE DEF first
<1>3. None # nm
  BY FatFsAssumption
<1>4. CASE its(nm) # {}
  <2>1. i \in its(nm)
    BY <1>1, <1>2, <1>4
  <2> QED
    BY <1>3, <2>1, Numbers DEF NamesApart
<1>5. CASE its(nm) = {} /\ its(None) # {}
  <2>1. i \in its(None)
    BY <1>1, <1>2, <1>5
  <2> QED
    BY <1>5, <2>1, Numbers
<1>6. CASE its(nm) = {} /\ its(None) = {}
  BY <1>1, <1>6, Numbers
<1> QED
  BY <1>4, <1>5, <1>6

\* chk_mounted: the volume is mounted, or it stays as it was.
LEMMA Checks ==
    ASSUME NEW s, NEW own, Good(s, own)
    PROVE  LET r == chk_mounted(s)
           IN  /\ Good(r, own) /\ r.disk = s.disk /\ View(r) = View(s) /\ r.fp = s.fp /\ r.res \in Results
               /\ r.fault = s.fault /\ s.io <= r.io
               /\ Ok(r) => r.mounted
               /\ s.mounted => r = Yields(s, "OK")
               /\ ~s.mounted => IF Ok(r) THEN r.awake /\ r.winsect = NoSector ELSE \E k \in r.fault : k < r.io
<1>1. s \in State /\ MemOk(s) /\ s.io \in Nat
  BY DEF Good, MemOk, State
<1>2. CASE s.mounted
  <2> DEFINE r == Yields(s, "OK")
  <2>1. chk_mounted(s) = r
    BY <1>2 DEF chk_mounted
  <2>2. r \in State /\ Only(r, s) /\ r.res = "OK"
    BY <1>1, ResSet DEF Results
  <2>3. Good(r, own) /\ View(r) = View(s)
    BY <1>1, <2>2, OnlyGood
  <2> HIDE DEF r
  <2>4. r.mounted
    BY <1>2, <2>2 DEF Only
  <2>5. s.io <= r.io
    BY <1>1, <2>2 DEF Only
  <2>6. r = Yields(s, "OK")
    BY DEF r
  <2> QED
    BY <1>2, <2>1, <2>2, <2>3, <2>4, <2>5, <2>6 DEF Only, Results
<1>3. CASE ~s.mounted
  <2> DEFINE i == disk_initialize(s)
             d == disk_read(i)
             m == [d EXCEPT !.mounted = TRUE, !.winsect = NoSector, !.wflag = FALSE, !.last_clust = 0]
  <2>1. chk_mounted(s) = IF Ok(i) THEN IF Ok(d) THEN m ELSE d ELSE i
    <3>1. [s EXCEPT !.mounted = FALSE] = s
      BY <1>1, <1>3 DEF State
    <3> QED
      BY <1>3, <3>1 DEF chk_mounted
  <2>2. /\ i \in State /\ i.io = s.io + 1 /\ i.disk = s.disk /\ i.win = s.win /\ i.winsect = s.winsect
        /\ i.wflag = s.wflag /\ i.mounted = s.mounted /\ i.fp = s.fp /\ i.fault = s.fault
        /\ i.res \in {"OK", "NOT_READY"}
        /\ IF Ok(i) THEN i.awake ELSE s.io \in s.fault
    <3>1. CASE s.io \notin s.fault
      <4> DEFINE k == Counted(s, "OK")
      <4>1. i = [k EXCEPT !.awake = TRUE]
        BY <3>1 DEF disk_initialize
      <4>2. /\ k \in State /\ k.res = "OK" /\ k.io = s.io + 1 /\ k.disk = s.disk /\ k.winsect = s.winsect
            /\ k.win = s.win /\ k.wflag = s.wflag /\ Same(k, s)
        BY <1>1, CountedType DEF Results
      <4> HIDE DEF k
      <4> QED
        BY <4>1, <4>2 DEF State, Same, Ok
    <3>2. CASE s.io \in s.fault
      <4>1. i = Counted(s, "NOT_READY")
        BY <3>2 DEF disk_initialize
      <4> HIDE DEF i
      <4>2. /\ i \in State /\ i.res = "NOT_READY" /\ i.io = s.io + 1 /\ i.disk = s.disk /\ i.winsect = s.winsect
            /\ i.win = s.win /\ i.wflag = s.wflag /\ Same(i, s)
        BY <1>1, <4>1, CountedType DEF Results
      <4> QED
        BY <3>2, <4>2 DEF Same, Ok
    <3> QED
      BY <3>1, <3>2
  <2> HIDE DEF i
  <2>3. View(i) = View(s) /\ MemOk(i) /\ Good(i, own) /\ s.io < i.io /\ i.io \in Nat
    <3>1. View(i) = View(s)
      BY <2>2, ViewSame
    <3> QED
      BY <1>1, <2>2, <3>1 DEF MemOk, Good
  <2>4. CASE ~Ok(i)
    <3>1. chk_mounted(s) = i /\ i.res \in Results
      BY <2>1, <2>2, <2>4 DEF Results
    <3>2. s.io <= i.io /\ \E k \in i.fault : k < i.io
      BY <1>1, <2>2, <2>3, <2>4
    <3> QED
      BY <1>3, <2>2, <2>3, <2>4, <3>1, <3>2
  <2>5. CASE Ok(i)
    <3>1. /\ Moved(d, i) /\ d.disk = i.disk /\ d.winsect = i.winsect /\ d.win = i.win /\ d.wflag = i.wflag
          /\ Ok(d) => d.awake
      BY <2>3, ReadsSector
    <3> HIDE DEF d
    <3>2. Good(d, own) /\ MemOk(d) /\ d \in State /\ View(d) = View(s)
      BY <2>3, <3>1, MovedGood DEF Moved, MemOk
    <3>3. d.fault = s.fault /\ d.fp = s.fp /\ d.res \in {"OK", "DISK_ERR"} /\ d.mounted = s.mounted /\ d.awake
      BY <2>2, <2>5, <3>1 DEF Moved, Same
    <3>4. s.io <= d.io
      <4>1. i.io <= d.io /\ d.io \in Nat
        BY <3>1, <3>2 DEF Moved, Same, State
      <4> QED
        BY <1>1, <2>3, <4>1
    <3>5. CASE ~Ok(d)
      <4>1. Fails(d)
        BY <3>1, <3>5 DEF Moved
      <4> QED
        BY <1>3, <2>1, <2>2, <2>5, <3>1, <3>2, <3>3, <3>4, <3>5, <4>1 DEF Results, Fails
    <3>6. CASE Ok(d)
      <4>1. /\ m \in State /\ m.disk = d.disk /\ m.win = d.win /\ m.winsect = NoSector /\ ~m.wflag /\ m.mounted
            /\ m.fp = d.fp /\ m.fault = d.fault /\ m.io = d.io /\ m.awake = d.awake /\ m.res = d.res
        BY <3>2 DEF State
      <4> HIDE DEF m
      <4>2. d.winsect = NoSector /\ d.disk = s.disk
        BY <1>1, <1>3, <2>2, <3>1 DEF MemOk
      <4>3. View(m) = View(d)
        BY <4>1, <4>2 DEF View
      <4>4. MemOk(m) /\ Good(m, own)
        BY <3>2, <4>1, <4>2, <4>3 DEF MemOk, Good, View
      <4> QED
        BY <1>3, <2>1, <2>5, <3>2, <3>3, <3>4, <3>6, <4>1, <4>2, <4>3, <4>4 DEF Results, Ok
    <3> QED
      BY <3>5, <3>6
  <2> QED
    BY <2>4, <2>5
<1> QED
  BY <1>2, <1>3

-----------------------------------------------------------------------------
(* The calls.                                                                 *)

\* The volume is sound, and the open file on it.
Intact(t, own) == Good(t, own) /\ FileSound(View(t), own, t.fp) /\ (t.fp.open => t.mounted)

\* The file of a state replaced.
LEMMA FileSet ==
    ASSUME NEW s, MemOk(s), NEW f \in File
    PROVE  LET r == [s EXCEPT !.fp = f]
           IN  /\ r \in State /\ MemOk(r) /\ View(r) = View(s) /\ r.fp = f
               /\ r.disk = s.disk /\ r.win = s.win /\ r.winsect = s.winsect /\ r.wflag = s.wflag
               /\ r.mounted = s.mounted /\ r.awake = s.awake /\ r.fault = s.fault /\ r.io = s.io
               /\ r.last_clust = s.last_clust /\ r.res = s.res /\ r.val = s.val
               /\ \A own : Good(s, own) => Good(r, own)
<1> DEFINE r == [s EXCEPT !.fp = f]
<1>1. s \in State
  BY DEF MemOk
<1>2. /\ r \in State /\ r.fp = f
      /\ r.disk = s.disk /\ r.win = s.win /\ r.winsect = s.winsect /\ r.wflag = s.wflag
      /\ r.mounted = s.mounted /\ r.awake = s.awake /\ r.fault = s.fault /\ r.io = s.io
      /\ r.last_clust = s.last_clust /\ r.res = s.res /\ r.val = s.val
  BY <1>1 DEF State
<1> HIDE DEF r
<1>3. View(r) = View(s)
  BY <1>2, ViewSame
<1>4. MemOk(r) /\ \A own : Good(s, own) => Good(r, own)
  BY <1>2, <1>3 DEF MemOk, Good
<1>5. r = [s EXCEPT !.fp = f]
  BY DEF r
<1> QED
  BY <1>2, <1>3, <1>4, <1>5

LEMMA FileTypes ==
    /\ Closed \in File /\ ~Closed.open
    /\ \A i \in 1 .. Slots : Opened(i) \in File /\ Opened(i).open /\ Opened(i).fptr = 0
<1>1. 1 \in 1 .. Slots /\ 0 \in 0 .. N
  BY Numbers
<1>2. Closed \in File /\ ~Closed.open /\ Closed.fptr = 0
  BY <1>1 DEF File, Closed
<1>3. ASSUME NEW i \in 1 .. Slots PROVE Opened(i) \in File /\ Opened(i).open /\ Opened(i).fptr = 0
  <2>1. Opened(i) = [Closed EXCEPT !.open = TRUE, !.written = TRUE, !.slot = i]
    BY DEF Opened
  <2> QED
    BY <1>2, <2>1 DEF File
<1> QED
  BY <1>2, <1>3

\* f_open: the file is open and empty, or closed.
LEMMA OpenKept ==
    ASSUME NEW s, NEW own, Good(s, own), NEW nm \in Name
    PROVE  LET r == f_open(s, nm)
           IN  /\ \E new : Intact(r, new)
               /\ r.fp = Closed \/ (Ok(r) /\ \E i \in 1 .. Slots : r.fp = Opened(i))
<1> DEFINE a == [s EXCEPT !.fp = Closed]
           c == chk_mounted(a)
           m == move_window(c, DirSector)
           i == SlotOf(m.win, nm)
           e == Emptied(m, i, nm)
           r == f_open(s, nm)
<1>1. r = IF Ok(c) THEN IF Ok(m) THEN IF i = 0 THEN Yields(m, "NO_FILE")
                                      ELSE IF Ok(e) THEN [e EXCEPT !.fp = Opened(i)] ELSE e
                        ELSE m
          ELSE c
  BY DEF f_open
<1>2. MemOk(s) /\ Closed \in File /\ ~Closed.open
  BY FileTypes DEF Good
<1>3. Good(a, own) /\ a.fp = Closed
  BY <1>2, FileSet
<1> HIDE DEF a, r
<1>4. Good(c, own) /\ c.fp = Closed /\ (Ok(c) => c.mounted) /\ c.res \in Results /\ MemOk(c)
  BY <1>3, Checks DEF Good
<1> HIDE DEF c
<1>5. \A t, new : Good(t, new) /\ t.fp = Closed => Intact(t, new)
  BY <1>2, ClosedSound DEF Intact
<1>6. CASE ~Ok(c)
  BY <1>1, <1>4, <1>5, <1>6 DEF r
<1>7. CASE Ok(c)
  <2>1. DirSector # NoSector /\ DirSector \in Meta
    BY DEF DirSector, NoSector, Meta
  <2>2. /\ Moved(m, c) /\ (Ok(m) => m.winsect = DirSector /\ m.win = View(c)[DirSector])
    BY <1>4, <1>7, <2>1, MovesWindow
  <2> HIDE DEF m
  <2>3. Good(m, own) /\ m.fp = Closed /\ MemOk(m) /\ m.mounted /\ View(m) = View(c) /\ m \in State
    BY <1>4, <1>7, <2>2, MovedGood DEF Moved, Same, MemOk
  <2>4. CASE ~Ok(m)
    BY <1>1, <1>5, <1>7, <2>3, <2>4 DEF r
  <2>5. CASE Ok(m)
    <3>1. m.win = Dir(View(m)) /\ m.winsect = DirSector
      BY <2>2, <2>3, <2>5 DEF Dir
    <3>2. m.win \in Directory /\ NamesApart(m.win)
      BY <2>3, <3>1, DiskParts DEF Good, Vol
    <3>3. i \in 0 .. Slots /\ (i # 0 => \A j \in 1 .. Slots : m.win[j].name = nm => j = i)
      BY <3>2, SlotIs
    <3> HIDE DEF i
    <3>4. CASE i = 0
      <4> DEFINE y == Yields(m, "NO_FILE")
      <4>1. y \in State /\ Only(y, m)
        BY <2>3, ResSet DEF Results
      <4>2. Good(y, own) /\ y.fp = Closed
        BY <2>3, <4>1, OnlyGood DEF Only
      <4>3. r = y
        BY <1>1, <1>7, <2>5, <3>4
      <4> QED
        BY <1>5, <4>2, <4>3 DEF r
    <3>5. CASE i # 0
      <4>1. i \in 1 .. Slots /\ m.res = "OK"
        BY <2>5, <3>3, <3>5, Numbers DEF Ok
      <4>2. (\E new : Good(e, new)) /\ Like(e, m) /\ e.res \in Results
        BY <2>3, <3>1, <3>3, <3>5, <4>1, EmptiedGood
      <4> HIDE DEF e
      <4>3. PICK new : Good(e, new)
        BY <4>2
      <4>4. e.fp = Closed /\ e.mounted /\ MemOk(e)
        BY <2>3, <4>2, <4>3 DEF Like, Good
      <4>5. CASE ~Ok(e)
        BY <1>1, <1>5, <1>7, <2>5, <3>5, <4>3, <4>4, <4>5 DEF r
      <4>6. CASE Ok(e)
        <5> DEFINE o == [e EXCEPT !.fp = Opened(i)]
        <5>1. Opened(i) \in File
          BY <4>1, FileTypes
        <5>2. Good(o, new) /\ o.fp = Opened(i) /\ o.mounted = e.mounted /\ o.res = e.res
          BY <4>3, <4>4, <5>1, FileSet
        <5> HIDE DEF o
        <5>3. Intact(o, new) /\ Ok(o)
          BY <4>4, <4>6, <5>2, ClosedSound DEF Intact, Ok
        <5>4. r = o
          BY <1>1, <1>7, <2>5, <3>5, <4>6 DEF o
        <5> QED
          BY <4>1, <5>2, <5>3, <5>4 DEF r
      <4> QED
        BY <4>5, <4>6
    <3> QED
      BY <3>4, <3>5
  <2> QED
    BY <2>4, <2>5
<1> QED
  BY <1>6, <1>7

\* f_sync: the entry is brought up to date, or the file is as it was.
LEMMA SyncKept ==
    ASSUME NEW s, NEW own, Intact(s, own)
    PROVE  LET r == f_sync(s)
           IN  /\ Intact(r, own) /\ r.res \in Results
               /\ r.fp = s.fp \/ r.fp = [s.fp EXCEPT !.written = FALSE]
               /\ Same([r EXCEPT !.fp = s.fp], s)
               /\ ~s.fp.open => r = Yields(s, "INVALID_OBJECT")
<1> DEFINE r == f_sync(s)
           f == s.fp
           m == move_window(s, DirSector)
           b == [m.win[f.slot] EXCEPT !.clust = f.sclust, !.size = f.fsize]
           g == [f EXCEPT !.written = FALSE]
           e == [m EXCEPT !.win[f.slot] = b, !.fp.written = FALSE, !.wflag = TRUE]
           l == move_window(e, NoSector)
<1>1. Good(s, own) /\ MemOk(s) /\ s \in State /\ f \in File /\ FileSound(View(s), own, f) /\ s.io \in Nat
  BY DEF Intact, Good, MemOk, State
<1>2. ASSUME NEW v \in Results
      PROVE  LET y == Yields(s, v)
             IN  Intact(y, own) /\ y.res = v /\ y.fp = f /\ Same([y EXCEPT !.fp = f], s)
  <2> DEFINE y == Yields(s, v)
  <2>1. y \in State /\ Only(y, s) /\ y.res = v
    BY <1>1, ResSet
  <2>2. Good(y, own) /\ View(y) = View(s) /\ Same(y, s)
    BY <1>1, <2>1, OnlyGood
  <2>3. [y EXCEPT !.fp = f] = y
    BY <2>1 DEF State, Only
  <2> HIDE DEF y
  <2>4. Intact(y, own)
    BY <2>1, <2>2 DEF Intact, Only
  <2> QED
    BY <2>1, <2>2, <2>3, <2>4 DEF Only, y
<1>3. CASE ~f.open
  <2>1. r = Yields(s, "INVALID_OBJECT")
    BY <1>3 DEF f_sync
  <2> QED
    BY <1>2, <2>1 DEF Results
<1>4. CASE f.open /\ ~f.written
  <2>1. r = Yields(s, "OK")
    BY <1>4 DEF f_sync
  <2> QED
    BY <1>2, <1>4, <2>1 DEF Results
<1>5. CASE f.open /\ f.written
  <2>1. r = IF Ok(m) THEN l ELSE m
    BY <1>5 DEF f_sync
  <2>2. s.mounted /\ DirSector # NoSector /\ DirSector \in Meta
    BY <1>5 DEF Intact, DirSector, NoSector, Meta
  <2>3. /\ Moved(m, s) /\ (Ok(m) => m.winsect = DirSector /\ m.win = View(s)[DirSector])
    BY <1>1, <2>2, MovesWindow
  <2> HIDE DEF m, r
  <2>4. Good(m, own) /\ m.fp = f /\ MemOk(m) /\ m.mounted /\ View(m) = View(s) /\ m \in State /\ Same(m, s)
    BY <1>1, <2>2, <2>3, MovedGood DEF Moved, Same, MemOk
  <2>5. CASE ~Ok(m)
    <3>1. r = m
      BY <2>1, <2>5
    <3>2. Intact(m, own) /\ m.res \in Results
      BY <1>1, <2>3, <2>4 DEF Intact, Moved, Results
    <3>3. [m EXCEPT !.fp = f] = m
      BY <2>4 DEF State
    <3> QED
      BY <1>5, <2>4, <3>1, <3>2, <3>3 DEF r
  <2>6. CASE Ok(m)
    <3>1. m.winsect = DirSector /\ m.win = Dir(View(m)) /\ m.win \in Directory /\ f.slot \in 1 .. Slots
      BY <1>1, <2>3, <2>4, <2>6, DiskParts DEF Dir, Good, Vol, File
    <3>2. m.win[f.slot] \in Entry
      BY <3>1 DEF Directory
    <3>3. b \in Entry
      BY <1>1, <3>2 DEF File, Entry
    <3>4. b = [Dir(View(m))[f.slot] EXCEPT !.clust = f.sclust, !.size = f.fsize]
      BY <3>1
    <3>5. g \in File /\ g.open = f.open /\ g.slot = f.slot /\ g.sclust = f.sclust /\ g.clust = f.clust
          /\ g.fptr = f.fptr /\ g.fsize = f.fsize /\ g.error = f.error
      BY <1>1 DEF File
    <3>6. e = [m EXCEPT !.win = [m.win EXCEPT ![f.slot] = b], !.fp = g, !.wflag = TRUE]
      BY <2>4 DEF State
    <3> HIDE DEF b, g, e
    <3>7. [m.win EXCEPT ![f.slot] = b] \in Windows
      <4>1. [m.win EXCEPT ![f.slot] = b] \in Content(DirSector)
        BY <3>1, <3>3 DEF Directory, Content
      <4> QED
        BY <2>2, <4>1 DEF Windows
    <3>8. /\ e \in State /\ e.win = [m.win EXCEPT ![f.slot] = b] /\ e.winsect = m.winsect /\ e.disk = m.disk
          /\ e.mounted = m.mounted /\ e.wflag /\ e.awake = m.awake /\ e.fault = m.fault /\ e.io = m.io
          /\ e.last_clust = m.last_clust /\ e.fp = g
      <4> DEFINE w == [m.win EXCEPT ![f.slot] = b]
      <4>1. w \in Windows /\ e = [m EXCEPT !.win = w, !.fp = g, !.wflag = TRUE]
        BY <3>6, <3>7
      <4> HIDE DEF w
      <4> QED
        BY <2>4, <3>5, <4>1 DEF State, w
    <3>9. MemOk(e) /\ DirSet(View(e), View(m), f.slot, b)
      BY <2>4, <3>1, <3>3, <3>8, DirPut
    <3>10. Vol(View(e), own) /\ FileSound(View(e), own, f)
      BY <1>1, <2>4, <3>4, <3>9, SyncedVol DEF Good
    <3>11. FileSound(View(e), own, g)
      BY <1>5, <3>5, <3>10 DEF FileSound
    <3>12. Good(e, own)
      BY <2>4, <3>8, <3>9, <3>10 DEF Good
    <3>13. Moved(l, e)
      BY <3>9, MovesWindow
    <3> HIDE DEF l
    <3>14. Good(l, own) /\ View(l) = View(e) /\ l.fp = g /\ l.mounted /\ l.res \in Results /\ l \in State
      BY <2>4, <3>8, <3>12, <3>13, MovedGood DEF Moved, Same, Results, Good, MemOk
    <3>15. Intact(l, own)
      BY <3>11, <3>14 DEF Intact
    <3>16. Same([l EXCEPT !.fp = f], s)
      <4>1. m.io \in Nat /\ l.io \in Nat /\ e.io = m.io
        BY <2>4, <3>8, <3>14 DEF State
      <4>2. s.io <= m.io /\ e.io <= l.io
        BY <2>4, <3>13 DEF Moved, Same
      <4>3. s.io <= l.io
        BY <1>1, <4>1, <4>2
      <4>4. /\ l.mounted = s.mounted /\ l.awake = s.awake /\ l.fault = s.fault /\ l.last_clust = s.last_clust
        BY <2>4, <3>8, <3>13 DEF Moved, Same
      <4> QED
        BY <3>14, <4>3, <4>4 DEF State, Same
    <3> QED
      BY <1>5, <2>1, <2>6, <3>14, <3>15, <3>16 DEF r, g
  <2> QED
    BY <2>5, <2>6
<1> QED
  BY <1>1, <1>3, <1>4, <1>5 DEF File

-----------------------------------------------------------------------------
(* The search for a free cluster, and the chain it is linked to.              *)

\* Where the search from scl is at its k-th look.
NthOf(p, scl, k) == IF scl + k <= N + 1 THEN p = scl + k ELSE p = scl + k - N /\ p < scl
Found(r, s) ==
    /\ r.val \in {0, DiskError} \cup Clusters
    /\ r.val \in Clusters => Ok(r) /\ r.winsect # NoSector /\ Fat(View(s), r.val) = 0
    /\ r.val = DiskError => ~Ok(r)
Searches(r, s, scl, k) ==
    /\ r \in [t : State, ncl : Nat, on : BOOLEAN]
    /\ IF k = 0 THEN r.t = s /\ r.on ELSE Moved(r.t, s)
    /\ r.on => NthOf(r.ncl, scl, k)
    /\ ~r.on => Found(r.t, s)

\* The next number looked at.
LEMMA NextAt ==
    ASSUME NEW scl \in {1} \cup Clusters, NEW k \in Nat, NEW p \in Nat, NthOf(p, scl, k),
           NEW q, q = IF p + 1 \in Clusters THEN p + 1 ELSE 2
    PROVE  /\ q \in Clusters
           /\ (q = p + 1 \/ q <= scl) /\ q # scl => NthOf(q, scl, k + 1)
           /\ q # p + 1 /\ q > scl => k # 0
<1>1. N \in Nat /\ N >= 1 /\ scl \in Nat /\ scl >= 1 /\ scl <= N + 1
  BY Numbers DEF Clusters
<1>2. q \in Nat /\ q \in Clusters /\ q = IF p + 1 >= 2 /\ p + 1 <= N + 1 THEN p + 1 ELSE 2
  BY <1>1 DEF Clusters
<1> QED
  BY <1>1, <1>2 DEF NthOf

LEMMA SearchStep ==
    ASSUME NEW s, MemOk(s), s.mounted, NEW scl \in {1} \cup Clusters, NEW k \in Nat,
           NEW r, Searches(r, s, scl, k)
    PROVE  Searches(Search(r, scl), s, scl, k + 1)
<1> DEFINE v == IF r.ncl + 1 \in Clusters THEN r.ncl + 1 ELSE 2
           g == get_fat(r.t, v)
           over == [r EXCEPT !.t.val = 0, !.on = FALSE]
           more == g.val \notin {0, DiskError} /\ v # scl
           t == CASE g.val = 0 -> [g EXCEPT !.val = v]
                  [] g.val \notin {0, DiskError} /\ v = scl -> [g EXCEPT !.val = 0]
                  [] OTHER -> g
<1>1. r \in [t : State, ncl : Nat, on : BOOLEAN] /\ k + 1 # 0
  BY DEF Searches
<1>2. Search(r, scl) = IF ~r.on THEN r
                       ELSE IF v # r.ncl + 1 /\ v > scl THEN over
                       ELSE [t |-> t, ncl |-> v, on |-> more]
  BY DEF Search
<1>3. CASE ~r.on
  <2>1. k # 0 /\ Search(r, scl) = r
    BY <1>2, <1>3 DEF Searches
  <2> QED
    BY <1>1, <1>3, <2>1 DEF Searches
<1>4. CASE r.on
  <2>1. NthOf(r.ncl, scl, k) /\ r.t \in State /\ MemOk(r.t) /\ r.t.mounted /\ View(r.t) = View(s)
    BY <1>1, <1>4 DEF Searches, Moved, Same, MemOk
  <2>2. /\ v \in Clusters
        /\ (v = r.ncl + 1 \/ v <= scl) /\ v # scl => NthOf(v, scl, k + 1)
        /\ v # r.ncl + 1 /\ v > scl => k # 0
    BY <1>1, <2>1, NextAt
  <2> HIDE DEF v
  <2>3. CASE v # r.ncl + 1 /\ v > scl
    <3> DEFINE y == [r.t EXCEPT !.val = 0]
    <3>1. Search(r, scl) = over /\ Moved(r.t, s)
      BY <1>2, <1>4, <2>2, <2>3 DEF Searches
    <3>2. over = [t |-> y, ncl |-> r.ncl, on |-> FALSE]
      <4>1. over = [r EXCEPT !.t = y, !.on = FALSE]
        BY <1>1
      <4> HIDE DEF y, over
      <4> QED
        BY <1>1, <4>1
    <3>3. y \in State /\ Only(y, r.t) /\ y.res = r.t.res /\ y.val = 0
      <4>1. 0 \in 0 .. N + 3
        BY Numbers
      <4> QED
        BY <2>1, <4>1, ValSet
    <3> HIDE DEF y, over
    <3>4. Moved(y, s)
      BY <2>1, <3>1, <3>3, OnlyGood
    <3>5. Found(y, s)
      BY <3>3, Numbers DEF Found
    <3> QED
      BY <1>1, <3>1, <3>2, <3>3, <3>4, <3>5 DEF Searches
  <2>4. CASE v = r.ncl + 1 \/ ~(v > scl)
    <3>1. Fetches(g, r.t, v) /\ g.val \in FatVal \cup {DiskError}
      BY <2>1, <2>2, GetsFat
    <3>2. Moved(g, s) /\ g \in State /\ MemOk(g)
      <4>1. Moved(g, r.t)
        BY <3>1 DEF Fetches
      <4>2. CASE k = 0
        BY <4>1, <4>2 DEF Searches, Moved, MemOk
      <4>3. CASE k # 0
        <5>1. Moved(r.t, s)
          BY <4>3 DEF Searches
        <5>2. Moved(g, s)
          BY <4>1, <5>1, MovesOn
        <5> QED
          BY <5>2 DEF Moved, MemOk
      <4> QED
        BY <4>2, <4>3
    <3>3. /\ g.val # DiskError => Ok(g) /\ g.val = Fat(View(s), v) /\ g.winsect # NoSector
          /\ g.val = DiskError => ~Ok(g)
      <4>1. FatSector(v) # NoSector
        BY <2>2, SectorsApart
      <4> QED
        BY <2>1, <3>1, <4>1, Numbers DEF Fetches
    <3> HIDE DEF g
    <3>4. v \in Nat /\ scl \in Nat /\ v \in 0 .. N + 3 /\ 0 \in 0 .. N + 3
      BY <2>2, Numbers DEF Clusters
    <3>5. Search(r, scl) = [t |-> t, ncl |-> v, on |-> more]
      <4>1. ~(v # r.ncl + 1 /\ v > scl)
        BY <2>4
      <4> HIDE DEF t, more
      <4> QED
        BY <1>2, <1>4, <4>1
    <3>6. more => NthOf(v, scl, k + 1)
      BY <2>2, <2>4, <3>4
    <3>11. ASSUME NEW y \in State, Moved(y, s), NEW w \in BOOLEAN, w => NthOf(v, scl, k + 1), ~w => Found(y, s)
           PROVE  Searches([t |-> y, ncl |-> v, on |-> w], s, scl, k + 1)
      BY <1>1, <3>4, <3>11 DEF Searches
    <3>7. CASE g.val = 0
      <4> DEFINE y == [g EXCEPT !.val = v]
      <4>1. y \in State /\ Only(y, g) /\ y.res = g.res /\ y.val = v
        BY <3>2, <3>4, ValSet
      <4>2. t = y /\ more = FALSE
        BY <3>7
      <4> HIDE DEF y, t, more
      <4>3. Moved(y, s)
        BY <3>2, <4>1, OnlyGood
      <4>4. Found(y, s)
        BY <2>2, <3>3, <3>7, <4>1, Numbers DEF Found, Only, Ok
      <4> QED
        BY <3>5, <3>11, <4>1, <4>2, <4>3, <4>4
    <3>8. CASE g.val \notin {0, DiskError} /\ v = scl
      <4> DEFINE y == [g EXCEPT !.val = 0]
      <4>1. y \in State /\ Only(y, g) /\ y.res = g.res /\ y.val = 0
        BY <3>2, <3>4, ValSet
      <4>2. t = y /\ more = FALSE
        BY <3>8
      <4> HIDE DEF y, t, more
      <4>3. Moved(y, s)
        BY <3>2, <4>1, OnlyGood
      <4>4. Found(y, s)
        BY <4>1, Numbers DEF Found
      <4> QED
        BY <3>5, <3>11, <4>1, <4>2, <4>3, <4>4
    <3>9. CASE g.val = DiskError
      <4>1. t = g /\ more = FALSE
        BY <3>9, Numbers
      <4> HIDE DEF t, more
      <4>2. Found(g, s)
        BY <3>3, <3>9, Numbers DEF Found
      <4> QED
        BY <3>2, <3>5, <3>11, <4>1, <4>2
    <3>10. CASE g.val \notin {0, DiskError} /\ v # scl
      <4>1. t = g /\ more = TRUE
        BY <3>10
      <4> HIDE DEF t
      <4>2. NthOf(v, scl, k + 1)
        BY <3>6, <4>1
      <4> HIDE DEF more
      <4> QED
        BY <3>2, <3>5, <3>11, <4>1, <4>2
    <3> QED
      BY <3>7, <3>8, <3>9, <3>10
  <2> QED
    BY <2>3, <2>4
<1> QED
  BY <1>1, <1>3, <1>4

\* f follows the search for m looks.
Searching(f, s, scl, m) ==
    f = [k \in 0 .. m |-> IF k = 0 THEN [t |-> s, ncl |-> scl, on |-> TRUE] ELSE Search(f[k - 1], scl)]

LEMMA SearchingExists ==
    ASSUME NEW s, NEW scl, NEW m \in Nat
    PROVE  \E f : Searching(f, s, scl, m)
<1> DEFINE Bad == {k \in Nat : ~ \E f : Searching(f, s, scl, k)}
           start == [t |-> s, ncl |-> scl, on |-> TRUE]
<1>1. SUFFICES ASSUME Bad # {} PROVE FALSE
  OBVIOUS
<1>2. PICK k \in Bad : \A j \in Bad : k <= j
  BY <1>1, LeastOne
<1>3. CASE k = 0
  <2>1. Searching([j \in 0 .. k |-> start], s, scl, k)
    BY <1>3 DEF Searching
  <2> QED
    BY <1>2, <2>1
<1>4. CASE k # 0
  <2>1. k - 1 \in Nat /\ k - 1 \notin Bad
    BY <1>2, <1>4
  <2>2. PICK f : Searching(f, s, scl, k - 1)
    BY <2>1
  <2> DEFINE e == [j \in 0 .. k |-> IF j = k THEN Search(f[k - 1], scl) ELSE f[j]]
  <2>3. \A j \in 0 .. k - 1 : f[j] = IF j = 0 THEN start ELSE Search(f[j - 1], scl)
    BY <2>2 DEF Searching
  <2> HIDE DEF start
  <2>4. ASSUME NEW j \in 0 .. k PROVE e[j] = IF j = 0 THEN start ELSE Search(e[j - 1], scl)
    BY <1>4, <2>1, <2>3
  <2>5. Searching(e, s, scl, k)
    BY <2>4 DEF Searching, start
  <2> QED
    BY <1>2, <2>5
<1> QED
  BY <1>3, <1>4

\* The search ends: with a free cluster, with none, or with the error.
LEMMA NextFreeFound ==
    ASSUME NEW s, MemOk(s), s.mounted, NEW scl \in {1} \cup Clusters
    PROVE  LET r == NextFree(s, scl) IN Moved(r, s) /\ Found(r, s)
<1>1. PICK f : f = CHOOSE x : Searching(x, s, scl, N + 1)
  OBVIOUS
<1>2. N + 1 \in Nat /\ N + 1 # 0
  BY Numbers
<1>3. Searching(f, s, scl, N + 1)
  BY <1>1, <1>2, SearchingExists
<1>4. NextFree(s, scl) = f[N + 1].t
  BY <1>1 DEF NextFree, Searching
<1>5. \A k \in 0 .. N + 1 : f[k] = IF k = 0 THEN [t |-> s, ncl |-> scl, on |-> TRUE] ELSE Search(f[k - 1], scl)
  BY <1>3 DEF Searching
<1>6. s \in State
  BY DEF MemOk
<1> DEFINE Bad == {k \in 0 .. N + 1 : ~Searches(f[k], s, scl, k)}
<1>7. Bad = {}
  <2>1. SUFFICES ASSUME Bad # {} PROVE FALSE
    OBVIOUS
  <2>2. Bad \in SUBSET Nat
    BY <1>2
  <2>3. PICK k \in Bad : \A j \in Bad : k <= j
    BY <2>1, <2>2, LeastOne
  <2>4. CASE k = 0
    <3>1. f[k] = [t |-> s, ncl |-> scl, on |-> TRUE]
      BY <1>2, <1>5, <2>4
    <3>2. scl \in Nat /\ scl <= N + 1 /\ N \in Nat
      BY Numbers DEF Clusters
    <3>3. NthOf(scl, scl, 0)
      BY <3>2 DEF NthOf
    <3>4. Searches(f[k], s, scl, k)
      BY <1>6, <2>4, <3>1, <3>2, <3>3 DEF Searches
    <3> QED
      BY <2>3, <3>4
  <2>5. CASE k # 0
    <3>1. k - 1 \in 0 .. N + 1 /\ k - 1 \notin Bad /\ k \in 0 .. N + 1 /\ k - 1 \in Nat /\ k = (k - 1) + 1
      BY <1>2, <2>3, <2>5
    <3>2. Searches(f[k - 1], s, scl, k - 1)
      BY <3>1
    <3>3. Searches(Search(f[k - 1], scl), s, scl, (k - 1) + 1)
      BY <3>1, <3>2, SearchStep
    <3>4. f[k] = Search(f[k - 1], scl)
      BY <1>5, <2>5, <3>1
    <3> QED
      BY <2>3, <3>1, <3>3, <3>4
  <2> QED
    BY <2>4, <2>5
<1>8. Searches(f[N + 1], s, scl, N + 1)
  BY <1>2, <1>7
<1>9. ~f[N + 1].on
  <2>1. f[N + 1].ncl \in Nat /\ scl \in Nat /\ scl >= 1 /\ N \in Nat
    BY <1>8, Numbers DEF Searches, Clusters
  <2>2. ~NthOf(f[N + 1].ncl, scl, N + 1)
    <3>1. \A p \in Nat : ~NthOf(p, scl, N + 1)
      BY <2>1 DEF NthOf
    <3> QED
      BY <2>1, <3>1
  <2> QED
    BY <1>8, <2>2 DEF Searches
<1> QED
  BY <1>2, <1>4, <1>8, <1>9 DEF Searches

\* The file with an error on it: of its last cluster nothing is known.
Weak(f) == [f EXCEPT !.error = TRUE]
LEMMA WeakSound ==
    ASSUME NEW d, NEW own, NEW f \in File, FileSound(d, own, f)
    PROVE  f.open => FileSound(d, own, Weak(f))
<1>1. /\ Weak(f) \in File /\ Weak(f).error /\ Weak(f).open = f.open /\ Weak(f).slot = f.slot
      /\ Weak(f).sclust = f.sclust /\ Weak(f).fptr = f.fptr /\ Weak(f).fsize = f.fsize
  BY DEF File, Weak
<1>2. \E ch : Path(d, own, f.slot, ch, f.fptr) /\ (f.fptr > 0 => ch[1] = f.sclust)
  BY DEF FileSound
<1> QED
  BY <1>1, <1>2 DEF FileSound

\* Cluster c is the one after the last of the file.
Chained(d, own, f, c) ==
    /\ c \in Clusters /\ own[c] = f.slot /\ Fat(d, c) = EOC
    /\ \E ch : /\ Path(d, own, f.slot, ch, f.fptr + 1) /\ ch[f.fptr + 1] = c
               /\ f.fptr > 0 => ch[1] = f.sclust

\* What create_chain leaves.
Creates(r, s, own, f) ==
    /\ Good(r, own) /\ Like(r, s)
    /\ FileSound(View(r), own, Weak(f))
    /\ r.val \in {0, DiskError} \cup Clusters
    /\ r.val = 0 => FileSound(View(r), own, f)
    /\ r.val \in Clusters => Chained(View(r), own, f, r.val)

\* The free cluster found is taken and linked.
LEMMA LinkedGood ==
    ASSUME NEW s, NEW own, Good(s, own), s.mounted, s.winsect # NoSector,
           NEW f \in File, FileSound(View(s), own, f), f.open, ~f.error,
           NEW clst, clst = IF f.fptr = 0 THEN 0 ELSE f.clust,
           NEW c \in Clusters, Fat(View(s), c) = 0
    PROVE  LET r == Linked(s, clst, c)
           IN  /\ Same(r, s) /\ r \in State
               /\ \E new : /\ Good(r, new) /\ FileSound(View(r), new, Weak(f))
                           /\ Ok(r) => Chained(View(r), new, f, c)
<1> DEFINE p == put_fat(s, c, EOC)
           q == put_fat(p, clst, c)
<1>1. MemOk(s) /\ Vol(View(s), own) /\ Sound(s.disk) /\ Sound(View(s)) /\ s \in State
  BY DEF Good, MemOk, Sound
<1>2. EOC \in FatVal /\ c \in FatVal /\ f.slot \in 1 .. Slots /\ f.fptr \in Nat /\ f.slot # 0 /\ EOC \notin Clusters
  BY Numbers DEF FatVal, File
<1>3. Puts(p, s, c, EOC)
  BY <1>1, <1>2, PutsFat
<1>4. Linked(s, clst, c) = IF Ok(p) /\ clst # 0 THEN q ELSE p
  BY DEF Linked
<1> HIDE DEF p
<1>5. MemOk(p) /\ p \in State /\ Same(p, s) /\ Sound(p.disk) /\ p.mounted
  BY <1>1, <1>3 DEF Puts, MemOk, Same
<1>6. CASE ~Ok(p)
  <2>1. View(p) = View(s)
    BY <1>3, <1>6 DEF Puts
  <2>2. Good(p, own) /\ FileSound(View(p), own, Weak(f))
    BY <1>1, <1>5, <2>1, WeakSound DEF Good
  <2> QED
    BY <1>4, <1>5, <1>6, <2>2
<1>7. CASE Ok(p)
  <2> DEFINE new == [own EXCEPT ![c] = f.slot]
  <2>1. FatSet(View(p), View(s), c, EOC) /\ p.winsect # NoSector
    BY <1>3, <1>7, SectorsApart DEF Puts
  <2>2. /\ own[c] = 0 /\ Vol(View(p), new) /\ Keeps(View(p), new, View(s), own, f.slot)
        /\ FileSound(View(p), new, f)
    BY <1>1, <1>2, <2>1, TakenVol
  <2>3. new[c] = f.slot
    BY <1>1 DEF Vol, Owners
  <2> HIDE DEF new
  <2>4. Good(p, new) /\ FileSound(View(p), new, Weak(f)) /\ Fat(View(p), c) = EOC /\ Sound(View(p))
    BY <1>5, <2>1, <2>2, WeakSound DEF Good, FatSet, Sound
  <2>5. PICK ch : /\ Path(View(s), own, f.slot, ch, f.fptr)
                  /\ f.fptr > 0 => ch[1] = f.sclust /\ ch[f.fptr] = f.clust
    BY DEF FileSound
  <2>6. Path(View(p), new, f.slot, ch, f.fptr) /\ \A a \in 1 .. f.fptr : ch[a] # c
    <3>1. \A a \in 1 .. f.fptr : own[ch[a]] = f.slot
      BY <2>5 DEF Path
    <3> QED
      BY <1>2, <2>2, <2>5, <3>1, PathKept
  <2>7. CASE f.fptr = 0
    <3>1. Linked(s, clst, c) = p
      BY <1>4, <2>7
    <3>2. PICK h : Path(View(p), new, f.slot, h, f.fptr + 1) /\ h[f.fptr + 1] = c
      <4>1. f.fptr > 0 => Fat(View(p), ch[f.fptr]) = c
        BY <2>7
      <4>2. Grows(View(p), new, f.slot, ch, f.fptr, c)
        BY <1>2, <2>3, <2>6, <4>1, PathGrows
      <4> QED
        BY <4>2 DEF Grows
    <3>3. Chained(View(p), new, f, c)
      BY <2>3, <2>4, <2>7, <3>2 DEF Chained
    <3> QED
      BY <1>5, <2>4, <3>1, <3>3
  <2>8. CASE f.fptr # 0
    <3>1. clst \in Clusters /\ Fat(View(p), clst) = EOC /\ new[clst] = f.slot /\ clst # 0 /\ clst = f.clust
      BY <2>2, <2>8, Numbers DEF FileSound
    <3>2. Linked(s, clst, c) = q
      BY <1>4, <1>7, <3>1
    <3>3. Puts(q, p, clst, c)
      BY <1>2, <1>5, <2>1, <3>1, PutsFat
    <3> HIDE DEF q
    <3>4. MemOk(q) /\ q \in State /\ Same(q, s) /\ Sound(q.disk)
      BY <1>1, <1>5, <2>4, <3>3, SameOn DEF Puts, MemOk
    <3>5. CASE ~Ok(q)
      <4>1. View(q) = View(p)
        BY <3>3, <3>5 DEF Puts
      <4>2. Good(q, new) /\ FileSound(View(q), new, Weak(f))
        BY <2>4, <3>4, <4>1 DEF Good
      <4> QED
        BY <3>2, <3>4, <3>5, <4>2
    <3>6. CASE Ok(q)
      <4>1. FatSet(View(q), View(p), clst, c)
        BY <3>3, <3>6 DEF Puts
      <4>2. Vol(View(q), new) /\ \A j : Keeps(View(q), new, View(p), new, j)
        BY <1>2, <2>2, <2>3, <3>1, <4>1, JoinedVol
      <4>3. Good(q, new)
        BY <3>4, <4>2 DEF Good
      <4>4. Path(View(q), new, f.slot, ch, f.fptr)
        BY <1>2, <2>6, <4>2, PathKept
      <4>5. Fat(View(q), clst) = c /\ Fat(View(q), c) = EOC
        <5>1. clst # c
          <6>1. f.fptr \in 1 .. f.fptr
            BY <1>2, <2>8
          <6> QED
            BY <2>5, <2>6, <3>1, <6>1
        <5> QED
          BY <2>4, <3>1, <4>1, <5>1 DEF FatSet
      <4>6. f.fptr > 0 /\ ch[1] = f.sclust /\ ch[f.fptr] = clst /\ 1 \in 1 .. f.fptr
        BY <1>2, <2>5, <2>8, <3>1
      <4>7. PICK h : /\ Path(View(q), new, f.slot, h, f.fptr + 1) /\ h[f.fptr + 1] = c
                     /\ \A a \in 1 .. f.fptr : h[a] = ch[a]
        <5>1. f.fptr \in Nat
          BY <1>2
        <5>2. \A a \in 1 .. f.fptr : ch[a] # c
          BY <2>6
        <5>3. f.fptr > 0 => Fat(View(q), ch[f.fptr]) = c
          BY <4>5, <4>6
        <5>4. Grows(View(q), new, f.slot, ch, f.fptr, c)
          BY <2>3, <4>4, <5>1, <5>2, <5>3, PathGrows
        <5> QED
          BY <5>4 DEF Grows
      <4>8. Chained(View(q), new, f, c)
        BY <2>3, <4>5, <4>6, <4>7 DEF Chained
      <4>9. FileSound(View(q), new, Weak(f))
        <5>1. /\ Weak(f).error /\ Weak(f).open /\ Weak(f).slot = f.slot
              /\ Weak(f).sclust = f.sclust /\ Weak(f).fptr = f.fptr /\ Weak(f).fsize = f.fsize
          BY DEF File, Weak
        <5>2. f.fsize = f.fptr /\ (f.sclust \in Clusters => new[f.sclust] = f.slot)
          BY <2>2 DEF FileSound
        <5> QED
          BY <4>4, <4>6, <5>1, <5>2 DEF FileSound
      <4> QED
        BY <3>2, <3>4, <4>3, <4>8, <4>9
    <3> QED
      BY <3>5, <3>6
  <2> QED
    BY <2>7, <2>8
<1> QED
  BY <1>6, <1>7

\* create_chain: a cluster more for the file, none, or the error.
LEMMA CreatesChain ==
    ASSUME NEW s, NEW own, Intact(s, own), s.fp.open, ~s.fp.error
    PROVE  \E new : Creates(create_chain(s, IF s.fp.fptr = 0 THEN 0 ELSE s.fp.clust), s, new, s.fp)
<1> DEFINE f == s.fp
           clst == IF f.fptr = 0 THEN 0 ELSE f.clust
           g == IF clst = 0 THEN s ELSE get_fat(s, clst)
           scl == IF clst # 0 THEN clst ELSE IF s.last_clust \in Clusters THEN s.last_clust ELSE 1
           u == NextFree(g, scl)
           p == Linked(u, clst, u.val)
           r == create_chain(s, clst)
<1>1. Good(s, own) /\ MemOk(s) /\ s \in State /\ f \in File /\ FileSound(View(s), own, f) /\ s.mounted
  BY DEF Intact, Good, MemOk, State
<1>2. f.fptr # 0 => clst \in Clusters /\ clst # 0 /\ Fat(View(s), clst) = EOC
  BY <1>1, Numbers DEF FileSound
<1>3. /\ Good(g, own) /\ MemOk(g) /\ g \in State /\ View(g) = View(s) /\ g.mounted
      /\ Same(g, s) /\ (clst # 0 => g.val \notin {0} \cup Clusters)
  <2>1. CASE clst = 0
    <3>1. s.io \in Nat /\ g = s
      BY <1>1, <2>1 DEF State
    <3> HIDE DEF g, clst
    <3>2. Same(g, s)
      BY <3>1 DEF Same
    <3> QED
      BY <1>1, <2>1, <3>1, <3>2
  <2>2. CASE clst # 0
    <3>1. clst \in Clusters /\ Fat(View(s), clst) = EOC
      BY <1>2, <2>2
    <3>2. Fetches(g, s, clst)
      BY <1>1, <2>2, <3>1, GetsFat
    <3> HIDE DEF g, clst
    <3>3. Moved(g, s) /\ Good(g, own)
      BY <1>1, <3>2, MovedGood DEF Fetches
    <3> QED
      BY <1>1, <3>1, <3>2, <3>3, Numbers DEF Moved, Same, MemOk, Fetches
  <2> QED
    BY <2>1, <2>2
<1>4. scl \in {1} \cup Clusters
  BY <1>2
<1>5. r = IF u.val \in Clusters THEN IF Ok(p) THEN [p EXCEPT !.val = u.val, !.last_clust = u.val]
                                     ELSE [p EXCEPT !.val = DiskError]
          ELSE u
  <2>1. CASE clst = 0
    BY <2>1 DEF create_chain
  <2>2. CASE clst # 0
    <3>1. g.val # 0 /\ g.val \notin Clusters /\ g = get_fat(s, clst) /\ scl = clst
      BY <1>3, <2>2
    <3> HIDE DEF g, clst, scl
    <3> QED
      BY <2>2, <3>1 DEF create_chain
  <2> QED
    BY <2>1, <2>2
<1> HIDE DEF g, scl
<1>6. Moved(u, g) /\ Found(u, g)
  BY <1>3, <1>4, NextFreeFound
<1> HIDE DEF u, r
<1>7. /\ Good(u, own) /\ u \in State /\ View(u) = View(s) /\ Same(u, s) /\ u.mounted
      /\ FileSound(View(u), own, f) /\ FileSound(View(u), own, Weak(f))
  <2>1. Good(u, own) /\ u \in State /\ View(u) = View(s) /\ Same(u, g) /\ u.mounted
    BY <1>3, <1>6, MovedGood DEF Moved, MemOk, Same
  <2>2. Same(u, s)
    BY <1>1, <1>3, <2>1, SameOn
  <2> QED
    BY <1>1, <2>1, <2>2, WeakSound
<1>8. CASE u.val \notin Clusters
  <2>1. r = u
    BY <1>5, <1>8
  <2>2. Creates(u, s, own, f)
    BY <1>6, <1>7, <1>8 DEF Creates, Found, Like, Same
  <2> QED
    BY <2>1, <2>2 DEF r
<1>9. CASE u.val \in Clusters
  <2>1. u.winsect # NoSector /\ Fat(View(u), u.val) = 0
    BY <1>3, <1>6, <1>7, <1>9 DEF Found
  <2>2. /\ Same(p, u) /\ p \in State
        /\ \E new : Good(p, new) /\ FileSound(View(p), new, Weak(f)) /\ (Ok(p) => Chained(View(p), new, f, u.val))
    BY <1>1, <1>7, <1>9, <2>1, LinkedGood
  <2> HIDE DEF p
  <2>3. PICK new : Good(p, new) /\ FileSound(View(p), new, Weak(f)) /\ (Ok(p) => Chained(View(p), new, f, u.val))
    BY <2>2
  <2>4. Same(p, s) /\ MemOk(p)
    BY <1>1, <1>7, <2>2, <2>3, SameOn DEF Good
  <2>5. CASE ~Ok(p)
    <3> DEFINE y == [p EXCEPT !.val = DiskError]
    <3>1. DiskError \in 0 .. N + 3
      BY Numbers DEF DiskError
    <3>2. y \in State /\ Only(y, p) /\ y.val = DiskError
      BY <2>2, <3>1, ValSet
    <3>3. r = y
      BY <1>5, <1>9, <2>5
    <3> HIDE DEF y
    <3>4. Good(y, new) /\ View(y) = View(p)
      BY <2>3, <2>4, <3>2, OnlyGood
    <3>5. Creates(y, s, new, f)
      BY <2>3, <2>4, <3>2, <3>4, Numbers DEF Creates, Like, Same, Only
    <3> QED
      BY <3>3, <3>5 DEF r
  <2>6. CASE Ok(p)
    <3> DEFINE y == [p EXCEPT !.val = u.val, !.last_clust = u.val]
    <3>1. u.val \in 0 .. N + 3
      BY <1>9, Numbers DEF Clusters
    <3>2. /\ y \in State /\ y.val = u.val /\ y.disk = p.disk /\ y.win = p.win /\ y.winsect = p.winsect
          /\ y.wflag = p.wflag /\ y.mounted = p.mounted /\ y.awake = p.awake /\ y.fault = p.fault
          /\ y.io = p.io /\ y.fp = p.fp
      BY <1>9, <2>2, <3>1 DEF State
    <3>3. r = y
      BY <1>5, <1>9, <2>6
    <3> HIDE DEF y
    <3>4. View(y) = View(p)
      BY <3>2, ViewSame
    <3>5. Good(y, new)
      BY <2>3, <2>4, <3>2, <3>4 DEF Good, MemOk
    <3>6. Creates(y, s, new, f)
      BY <1>9, <2>3, <2>4, <2>6, <3>2, <3>4, <3>5, Numbers DEF Creates, Like, Same
    <3> QED
      BY <3>3, <3>6 DEF r
  <2> QED
    BY <2>5, <2>6
<1> QED
  BY <1>8, <1>9

\* A cluster's data are written, or not.
LEMMA DataPut ==
    ASSUME NEW s, NEW own, Good(s, own), NEW c \in Clusters, NEW x \in DataVal
    PROVE  LET r == disk_write(s, DataSector(c), x)
           IN  /\ Good(r, own) /\ Same(r, s) /\ r.res \in Results /\ SameMeta(View(r), View(s))
               /\ r.disk = IF Ok(r) THEN [s.disk EXCEPT ![DataSector(c)] = x] ELSE s.disk
               /\ ~Ok(r) => View(r) = View(s)
<1> DEFINE r == disk_write(s, DataSector(c), x)
           e == [s.disk EXCEPT ![DataSector(c)] = x]
<1>1. MemOk(s) /\ s \in State /\ Sound(s.disk) /\ Vol(View(s), own) /\ s.disk \in Disks /\ View(s) \in Disks
  BY ViewType DEF Good, MemOk
<1>2. CASE Reaches(s)
  <2> DEFINE k == Counted(s, "OK")
  <2>1. r = [k EXCEPT !.disk[DataSector(c)] = x]
    BY <1>2 DEF disk_write
  <2>2. /\ k \in State /\ k.res = "OK" /\ k.disk = s.disk /\ k.winsect = s.winsect /\ k.win = s.win
        /\ k.wflag = s.wflag /\ Same(k, s)
    BY <1>1, CountedType DEF Results
  <2>3. e \in Disks /\ SameMeta(e, s.disk)
    <3>1. SameMeta(e, s.disk)
      BY <1>1, DataWritten
    <3> QED
      BY <3>1 DEF SameMeta
  <2> HIDE DEF k
  <2>4. r = [k EXCEPT !.disk = e]
    BY <2>1, <2>2
  <2> HIDE DEF e, r
  <2>5. /\ r \in State /\ r.disk = e /\ r.winsect = s.winsect /\ r.win = s.win /\ r.wflag = s.wflag
        /\ Same(r, s) /\ r.res = "OK"
    BY <2>2, <2>3, <2>4 DEF State, Same
  <2>6. SameMeta(View(r), View(s)) /\ (~r.wflag => View(r) = r.disk)
    <3>1. CASE s.winsect = NoSector
      <4>1. View(r) = e /\ View(s) = s.disk
        BY <2>5, <3>1 DEF View
      <4> QED
        BY <2>3, <2>5, <4>1
    <3>2. CASE s.winsect # NoSector
      <4>1. s.winsect \in Meta /\ s.win \in Content(s.winsect) /\ s.winsect # DataSector(c)
        BY <1>1, <3>2, SectorsApart DEF MemOk, State
      <4>2. s.disk \in [Layout -> DataVal \cup Windows] /\ s.winsect \in Layout /\ DataSector(c) \in Layout
        BY <1>1, <4>1, SectorsApart DEF Disks
      <4>3. View(r) = [e EXCEPT ![s.winsect] = s.win] /\ View(s) = [s.disk EXCEPT ![s.winsect] = s.win]
        BY <2>5, <3>2 DEF View
      <4>4. View(r) = [View(s) EXCEPT ![DataSector(c)] = x]
        BY <4>1, <4>2, <4>3 DEF e
      <4>5. SameMeta(View(r), View(s))
        <5>1. SameMeta([View(s) EXCEPT ![DataSector(c)] = x], View(s))
          BY <1>1, DataWritten
        <5> QED
          BY <4>4, <5>1
      <4>6. ~s.wflag => View(r) = e
        <5>1. ~s.wflag => View(s) = s.disk
          BY <1>1 DEF MemOk
        <5> QED
          BY <4>4, <5>1 DEF e
      <4> QED
        BY <2>5, <4>5, <4>6
    <3> QED
      BY <3>1, <3>2
  <2>7. MemOk(r)
    BY <1>1, <2>5, <2>6 DEF MemOk, Same
  <2>8. Vol(View(r), own)
    BY <1>1, <2>6, SameMetaVol
  <2>9. Sound(r.disk)
    <3>1. PICK o : Vol(s.disk, o)
      BY <1>1 DEF Sound
    <3>2. Vol(e, o)
      BY <2>3, <3>1, SameMetaVol
    <3> QED
      BY <2>5, <3>2 DEF Sound
  <2> QED
    BY <2>5, <2>6, <2>7, <2>8, <2>9 DEF Good, Results, Ok, e, r
<1>3. CASE ~Reaches(s)
  <2>1. r = Counted(s, "DISK_ERR")
    BY <1>3 DEF disk_write
  <2> HIDE DEF r
  <2>2. /\ r \in State /\ r.res = "DISK_ERR" /\ r.disk = s.disk /\ r.winsect = s.winsect /\ r.win = s.win
        /\ r.wflag = s.wflag /\ Same(r, s)
    BY <1>1, <2>1, CountedType DEF Results
  <2>3. View(r) = View(s)
    BY <2>2, ViewSame
  <2>4. Good(r, own)
    BY <1>1, <2>2, <2>3 DEF Good, MemOk, Same
  <2>5. SameMeta(View(r), View(s))
    BY <1>1, <2>3 DEF SameMeta
  <2> QED
    BY <2>2, <2>3, <2>4, <2>5 DEF Results, Ok, r
<1> QED
  BY <1>2, <1>3

\* The file with an error, whatever was assigned to its clusters.
LEMMA AbortSound ==
    ASSUME NEW d, NEW own, NEW f \in File, FileSound(d, own, Weak(f)), f.open,
           NEW g \in File, g.open, g.error, g.slot = f.slot, g.fptr = f.fptr, g.fsize = f.fsize,
           g.sclust = f.sclust \/ (f.fptr = 0 /\ (g.sclust \in Clusters => own[g.sclust] = f.slot))
    PROVE  FileSound(d, own, g)
<1>1. /\ Weak(f).error /\ Weak(f).slot = f.slot
      /\ Weak(f).sclust = f.sclust /\ Weak(f).fptr = f.fptr /\ Weak(f).fsize = f.fsize
  BY DEF File, Weak
<1>2. f.fsize = f.fptr /\ (f.sclust \in Clusters => own[f.sclust] = f.slot)
  BY <1>1 DEF FileSound
<1>3. PICK ch : Path(d, own, f.slot, ch, f.fptr) /\ (f.fptr > 0 => ch[1] = f.sclust)
  BY <1>1 DEF FileSound
<1>4. ~(0 > 0)
  OBVIOUS
<1> QED
  BY <1>2, <1>3, <1>4 DEF FileSound

\* The file with a cluster more.
LEMMA LongerSound ==
    ASSUME NEW d, NEW own, NEW f \in File, NEW c, Chained(d, own, f, c), f.open,
           f.sclust \in Clusters => own[f.sclust] = f.slot,
           NEW g, g = [f EXCEPT !.sclust = IF f.fptr = 0 THEN c ELSE f.sclust, !.clust = c,
                                !.written = TRUE, !.fptr = f.fptr + 1, !.fsize = f.fptr + 1]
    PROVE  g \in File /\ FileSound(d, own, g)
<1>1. f.fptr \in Nat /\ c \in Clusters /\ own[c] = f.slot /\ Fat(d, c) = EOC
  BY Numbers DEF File, Chained
<1>2. PICK ch : /\ Path(d, own, f.slot, ch, f.fptr + 1) /\ ch[f.fptr + 1] = c
                /\ f.fptr > 0 => ch[1] = f.sclust
  BY DEF Chained
<1>3. f.fptr + 1 \in Nat /\ f.fptr + 1 > 0 /\ f.fptr + 1 <= N /\ f.fptr + 1 # 0
  BY <1>1, <1>2, PathShort
<1>4. f.fptr + 1 \in 0 .. N
  BY <1>3, Numbers
<1> DEFINE k == f.fptr + 1
           b == IF f.fptr = 0 THEN c ELSE f.sclust
<1>5. b \in {0, DiskError} \cup Clusters /\ c \in {0} \cup Clusters
  BY <1>1 DEF File
<1>6. g = [f EXCEPT !.sclust = b, !.clust = c, !.written = TRUE, !.fptr = k, !.fsize = k]
  OBVIOUS
<1>7. k \in 0 .. N /\ k > 0 /\ k # 0 /\ Path(d, own, f.slot, ch, k) /\ ch[k] = c
  BY <1>2, <1>3, <1>4
<1>8. ch[1] = b /\ (b \in Clusters => own[b] = f.slot)
  BY <1>1, <1>2
<1> HIDE DEF k, b
<1>9. /\ g \in File /\ g.open /\ g.slot = f.slot /\ g.sclust = b /\ g.clust = c /\ g.fptr = k /\ g.fsize = k
  BY <1>5, <1>6, <1>7 DEF File
<1> QED
  BY <1>1, <1>7, <1>8, <1>9 DEF FileSound

\* f_write: the file has a cluster more, or is as it was, or has an error.
LEMMA WriteKept ==
    ASSUME NEW s, NEW own, Intact(s, own), NEW x \in DataVal
    PROVE  LET r == f_write(s, x)
           IN  /\ \E new : Intact(r, new)
               /\ r.res \in Results /\ r.fp.open = s.fp.open /\ r.mounted = s.mounted
               /\ r.awake = s.awake /\ r.fault = s.fault /\ s.io <= r.io
               /\ r.fp.fptr \in {s.fp.fptr, s.fp.fptr + 1}
               /\ r.fp.fptr # s.fp.fptr => s.fp.open
<1> DEFINE f == s.fp
           r == f_write(s, x)
           first == f.fptr = 0
           c == create_chain(s, IF first THEN 0 ELSE f.clust)
           a == IF first THEN [c EXCEPT !.fp.sclust = c.val] ELSE c
           w == disk_write([a EXCEPT !.fp.clust = c.val], DataSector(c.val), x)
           After(q, new) == Intact(q, new) /\ q.fp.open = f.open /\ q.fp.fptr \in {f.fptr, f.fptr + 1}
                            /\ (q.fp.fptr # f.fptr => f.open) /\ q.res \in Results /\ q.mounted = s.mounted
                            /\ q.awake = s.awake /\ q.fault = s.fault /\ s.io <= q.io
<1>1. Good(s, own) /\ MemOk(s) /\ s \in State /\ f \in File /\ FileSound(View(s), own, f) /\ s.io \in Nat
  BY DEF Intact, Good, MemOk, State
<1>2. SUFFICES \E new : After(r, new)
  BY <1>2
<1>3. ASSUME NEW v \in Results PROVE After(Yields(s, v), own)
  <2> DEFINE y == Yields(s, v)
  <2>1. y \in State /\ Only(y, s) /\ y.res = v
    BY <1>1, ResSet
  <2>2. Good(y, own) /\ View(y) = View(s)
    BY <1>1, <2>1, OnlyGood
  <2> HIDE DEF y
  <2>3. After(y, own)
    BY <1>1, <2>1, <2>2 DEF Intact, Only
  <2> QED
    BY <2>3 DEF y
<1>4. CASE ~f.open
  <2>1. r = Yields(s, "INVALID_OBJECT") /\ "INVALID_OBJECT" \in Results
    BY <1>4 DEF f_write, Results
  <2> HIDE DEF r, After
  <2> QED
    BY <1>3, <2>1
<1>5. CASE f.open /\ f.error
  <2>1. r = Yields(s, "INT_ERR") /\ "INT_ERR" \in Results
    BY <1>5 DEF f_write, Results
  <2> HIDE DEF r, After
  <2> QED
    BY <1>3, <2>1
<1>6. CASE f.open /\ ~f.error
  <2>1. first => f.sclust = 0
    BY <1>1, <1>6 DEF FileSound
  <2>2. \E new : Creates(c, s, new, f)
    BY <1>6, CreatesChain
  <2>3. r = CASE c.val = 0 -> Yields([a EXCEPT !.fp.written = TRUE], "OK")
              [] c.val = 1 -> Abort(a, "INT_ERR")
              [] c.val = DiskError -> Abort(a, "DISK_ERR")
              [] OTHER -> IF Ok(w) THEN [w EXCEPT !.fp.written = TRUE, !.fp.fptr = @ + 1, !.fp.fsize = f.fptr + 1]
                          ELSE Abort(w, "DISK_ERR")
    <3>1. a.val = c.val
      BY <2>2 DEF Creates, Good, MemOk, State
    <3>2. ~(first /\ f.sclust # 0)
      BY <2>1
    <3> DEFINE i == IF first /\ f.sclust # 0 THEN [s EXCEPT !.val = f.sclust] ELSE c
               to(p) == CASE p.val = 0 -> Yields([p EXCEPT !.fp.written = TRUE], "OK")
                          [] p.val = 1 -> Abort(p, "INT_ERR")
                          [] p.val = DiskError -> Abort(p, "DISK_ERR")
                          [] OTHER ->
                              LET u == disk_write([p EXCEPT !.fp.clust = p.val], DataSector(p.val), x)
                              IN  IF Ok(u) THEN [u EXCEPT !.fp.written = TRUE, !.fp.fptr = @ + 1,
                                                          !.fp.fsize = f.fptr + 1]
                                  ELSE Abort(u, "DISK_ERR")
               chained(q) == to(IF first THEN [q EXCEPT !.fp.sclust = q.val] ELSE q)
    <3>3. r = CASE ~f.open -> Yields(s, "INVALID_OBJECT")
                [] f.open /\ f.error -> Yields(s, "INT_ERR")
                [] OTHER -> chained(i)
      BY DEF f_write
    <3>4. i = c
      BY <3>2
    <3> HIDE DEF i, chained, c
    <3>5. r = chained(c)
      BY <1>6, <3>3, <3>4
    <3>6. r = to(a)
      BY <3>5 DEF chained
    <3> HIDE DEF a, c, r
    <3> QED
      BY <3>1, <3>6
  <2> HIDE DEF c, r
  <2>4. PICK new : Creates(c, s, new, f)
    BY <2>2
  <2>5. /\ Good(c, new) /\ MemOk(c) /\ c \in State /\ c.fp = f /\ c.mounted = s.mounted /\ FileSound(View(c), new, Weak(f))
        /\ c.val \in {0, DiskError} \cup Clusters /\ s.mounted /\ c.io \in Nat
        /\ c.awake = s.awake /\ c.fault = s.fault /\ s.io <= c.io
    BY <1>6, <2>4 DEF Creates, Good, Like, Intact, MemOk, State
  \* Whatever becomes of the FIL object.
  <2>6. ASSUME NEW t, Good(t, new), t.mounted = s.mounted, NEW g \in File, FileSound(View(t), new, g),
               t.awake = s.awake, t.fault = s.fault, s.io <= t.io,
               g.open, g.fptr \in {f.fptr, f.fptr + 1}, NEW v \in Results
        PROVE  After([t EXCEPT !.fp = g, !.res = v], new)
    <3> DEFINE y == [t EXCEPT !.fp = g]
               z == [t EXCEPT !.fp = g, !.res = v]
    <3>1. /\ y \in State /\ View(y) = View(t) /\ y.fp = g /\ Good(y, new) /\ y.mounted = s.mounted
          /\ y.awake = t.awake /\ y.fault = t.fault /\ y.io = t.io
      BY <2>6, FileSet DEF Good
    <3>2. z = Yields(y, v)
      BY DEF Yields
    <3> HIDE DEF y, z
    <3>3. z \in State /\ Only(z, y) /\ z.res = v
      BY <3>1, <3>2, ResSet
    <3>4. Good(z, new) /\ View(z) = View(y)
      BY <3>1, <3>3, OnlyGood DEF Good
    <3>5. After(z, new)
      BY <1>6, <2>5, <2>6, <3>1, <3>3, <3>4 DEF Intact, Only
    <3> QED
      BY <3>5 DEF z
  <2> DEFINE b == IF first THEN c.val ELSE f.sclust
             fa == [f EXCEPT !.sclust = b]
  <2>7. a = [c EXCEPT !.fp = fa] /\ fa \in File /\ b \in {0, DiskError} \cup Clusters
    <3>1. b \in {0, DiskError} \cup Clusters
      BY <1>1, <2>5 DEF File
    <3>2. CASE first
      BY <1>1, <2>5, <3>1, <3>2 DEF State, File
    <3>3. CASE ~first
      <4>1. fa = f /\ a = c
        BY <1>1, <3>3 DEF File
      <4> QED
        BY <1>1, <2>5, <3>1, <4>1 DEF State
    <3> QED
      BY <3>2, <3>3
  <2>8. fa.open /\ fa.slot = f.slot /\ fa.fptr = f.fptr /\ fa.fsize = f.fsize /\ fa.sclust = b /\ fa.clust = f.clust
    BY <1>1, <1>6 DEF File
  <2>9. b = f.sclust \/ (f.fptr = 0 /\ (b \in Clusters => new[b] = f.slot))
    BY <2>4 DEF Creates, Chained
  <2> HIDE DEF b, fa, a, first
  <2>10. f.fptr \in {f.fptr, f.fptr + 1} /\ {"OK", "INT_ERR", "DISK_ERR"} \subseteq Results
    BY DEF Results
  \* An error: nothing more is known of the file's last cluster.
  <2>11. ASSUME NEW t, Good(t, new), t.mounted = s.mounted, FileSound(View(t), new, Weak(f)),
                t.awake = s.awake, t.fault = s.fault, s.io <= t.io,
                NEW g \in File, t.fp = g, g.open, g.slot = f.slot, g.fptr = f.fptr, g.fsize = f.fsize,
                g.sclust = b, NEW v \in Results
         PROVE  After(Abort(t, v), new)
    <3> DEFINE e == [g EXCEPT !.error = TRUE]
    <3>1. /\ e \in File /\ e.open /\ e.error /\ e.slot = f.slot /\ e.fptr = f.fptr /\ e.fsize = f.fsize
          /\ e.sclust = b
      BY <2>11 DEF File
    <3>2. Abort(t, v) = [t EXCEPT !.fp = e, !.res = v]
      BY <2>11 DEF Abort, Good, MemOk, State
    <3> HIDE DEF e
    <3>3. FileSound(View(t), new, e)
      BY <1>1, <1>6, <2>9, <2>11, <3>1, AbortSound
    <3> HIDE DEF After
    <3>4. e.fptr \in {f.fptr, f.fptr + 1}
      BY <3>1
    <3>5. After([t EXCEPT !.fp = e, !.res = v], new)
      BY <2>6, <2>11, <3>1, <3>3, <3>4
    <3> QED
      BY <3>2, <3>5
  <2>12. /\ Good(a, new) /\ MemOk(a) /\ a.fp = fa /\ View(a) = View(c) /\ a.mounted = s.mounted
         /\ FileSound(View(a), new, Weak(f)) /\ a \in State
         /\ a.awake = s.awake /\ a.fault = s.fault /\ s.io <= a.io /\ a.io \in Nat
    BY <2>5, <2>7, FileSet DEF Good
  <2>13. CASE c.val = 0
    <3> DEFINE g == [fa EXCEPT !.written = TRUE]
    <3>1. r = Yields([a EXCEPT !.fp.written = TRUE], "OK")
      BY <2>3, <2>13, Numbers
    <3>2. r = [a EXCEPT !.fp = g, !.res = "OK"]
      BY <2>12, <3>1 DEF Yields, State
    <3>3. /\ g \in File /\ g.open /\ g.fptr = f.fptr /\ g.fsize = f.fsize /\ g.slot = f.slot /\ g.sclust = b
          /\ g.clust = f.clust /\ g.error = f.error
      BY <2>7, <2>8 DEF File, fa
    <3> HIDE DEF g
    <3>4. FileSound(View(a), new, f)
      BY <2>4, <2>12, <2>13 DEF Creates
    <3>5. b = f.sclust
      BY <2>1, <2>13 DEF b
    <3>6. FileSound(View(a), new, g)
      BY <1>6, <3>3, <3>4, <3>5 DEF FileSound
    <3> HIDE DEF After
    <3> QED
      BY <2>6, <2>10, <2>12, <3>2, <3>3, <3>6
  <2>14. CASE c.val = DiskError
    <3>1. r = Abort(a, "DISK_ERR")
      BY <2>3, <2>14, Numbers
    <3> HIDE DEF After
    <3> QED
      BY <2>7, <2>8, <2>10, <2>11, <2>12, <3>1
  <2>15. CASE c.val \in Clusters
    <3> DEFINE h == [fa EXCEPT !.clust = c.val]
               o == [a EXCEPT !.fp = h]
    <3>1. r = IF Ok(w) THEN [w EXCEPT !.fp.written = TRUE, !.fp.fptr = @ + 1, !.fp.fsize = f.fptr + 1]
              ELSE Abort(w, "DISK_ERR")
      BY <2>3, <2>15, Numbers
    <3>2. h \in File /\ h = [f EXCEPT !.sclust = b, !.clust = c.val] /\ h.error = f.error /\ h.sclust = b
      BY <1>1, <2>7, <2>15 DEF File, fa
    <3>3. w = disk_write(o, DataSector(c.val), x)
      BY <2>12 DEF State
    <3>4. h.open /\ h.slot = f.slot /\ h.fptr = f.fptr /\ h.fsize = f.fsize
      BY <2>7, <2>8 DEF File
    <3> HIDE DEF h, w
    <3>5. /\ o \in State /\ Good(o, new) /\ o.fp = h /\ View(o) = View(a) /\ o.mounted = s.mounted
          /\ o.awake = s.awake /\ o.fault = s.fault /\ s.io <= o.io /\ o.io \in Nat
      BY <2>12, <3>2, FileSet
    <3> HIDE DEF o
    <3>6. Good(w, new) /\ Same(w, o) /\ w.res \in Results /\ SameMeta(View(w), View(o))
      BY <2>15, <3>3, <3>5, DataPut
    <3>7. w.fp = h /\ w.mounted = s.mounted /\ w \in State /\ w.awake = s.awake /\ w.fault = s.fault /\ s.io <= w.io
      <4>1. o.io <= w.io /\ w.io \in Nat
        BY <3>6 DEF Same, Good, MemOk, State
      <4>2. s.io <= w.io
        BY <1>1, <3>5, <4>1
      <4> QED
        BY <3>5, <3>6, <4>2 DEF Same, Good, MemOk
    <3>8. \A g \in File : FileSound(View(o), new, g) => FileSound(View(w), new, g)
      BY <3>5, <3>6, SameMetaVol DEF Good
    <3>9. CASE ~Ok(w)
      <4>1. Weak(f) \in File
        BY <1>1 DEF File, Weak
      <4>2. FileSound(View(w), new, Weak(f))
        BY <2>12, <3>5, <3>8, <4>1
      <4>3. r = Abort(w, "DISK_ERR")
        BY <3>1, <3>9
      <4> HIDE DEF After
      <4> QED
        BY <2>10, <2>11, <3>2, <3>4, <3>6, <3>7, <4>2, <4>3
    <3>10. CASE Ok(w)
      <4> DEFINE k == f.fptr + 1
                 g == [f EXCEPT !.sclust = IF f.fptr = 0 THEN c.val ELSE f.sclust, !.clust = c.val,
                                !.written = TRUE, !.fptr = f.fptr + 1, !.fsize = f.fptr + 1]
      <4>1. Chained(View(o), new, f, c.val) /\ (f.sclust \in Clusters => new[f.sclust] = f.slot)
        <5>1. Weak(f).sclust = f.sclust /\ Weak(f).slot = f.slot
          BY <1>1 DEF File, Weak
        <5> QED
          BY <2>4, <2>12, <2>15, <3>5, <5>1 DEF Creates, FileSound
      <4>2. g \in File /\ FileSound(View(o), new, g)
        BY <1>1, <1>6, <4>1, LongerSound
      <4>3. FileSound(View(w), new, g)
        BY <3>8, <4>2
      <4>4. r = [w EXCEPT !.fp.written = TRUE, !.fp.fptr = @ + 1, !.fp.fsize = f.fptr + 1]
        BY <3>1, <3>10
      <4>5. r = [w EXCEPT !.fp = [h EXCEPT !.written = TRUE, !.fptr = k, !.fsize = k]]
        BY <3>4, <3>7, <4>4 DEF State
      <4>6. [h EXCEPT !.written = TRUE, !.fptr = k, !.fsize = k] = g
        <5> HIDE DEF k
        <5>1. h = [f EXCEPT !.sclust = b, !.clust = c.val] /\ b = IF f.fptr = 0 THEN c.val ELSE f.sclust
          BY <3>2 DEF b, first
        <5> QED
          BY <1>1, <5>1 DEF File, k
      <4> HIDE DEF k, g
      <4>7. r = [w EXCEPT !.fp = g, !.res = w.res]
        BY <3>7, <4>5, <4>6 DEF State
      <4>8. g.open /\ g.fptr \in {f.fptr, f.fptr + 1}
        BY <1>1, <1>6 DEF g, File
      <4> HIDE DEF After
      <4> QED
        BY <2>6, <3>6, <3>7, <4>2, <4>3, <4>7, <4>8
    <3> QED
      BY <3>9, <3>10
  <2> QED
    BY <2>5, <2>13, <2>14, <2>15
<1> QED
  BY <1>4, <1>5, <1>6

\* f_close: the file is closed, if it could be brought up to date.
LEMMA CloseKept ==
    ASSUME NEW s, NEW own, Intact(s, own)
    PROVE  LET r == f_close(s)
           IN  /\ Intact(r, own)
               /\ r.fp = Closed \/ (r.fp.open = s.fp.open /\ r.fp.slot = s.fp.slot)
<1> DEFINE y == f_sync(s)
           r == [y EXCEPT !.fp = Closed]
<1>1. Intact(y, own) /\ (y.fp = s.fp \/ y.fp = [s.fp EXCEPT !.written = FALSE])
  BY SyncKept
<1>2. f_close(s) = IF Ok(y) THEN r ELSE y
  BY DEF f_close
<1>3. s.fp \in File
  BY DEF Intact, Good, MemOk, State
<1> HIDE DEF y
<1>4. y.fp.open = s.fp.open /\ y.fp.slot = s.fp.slot
  BY <1>1, <1>3 DEF File
<1>5. Closed \in File /\ ~Closed.open /\ MemOk(y) /\ Good(y, own)
  BY <1>1, FileTypes DEF Intact, Good
<1>6. Good(r, own) /\ r.fp = Closed
  BY <1>5, FileSet
<1> HIDE DEF r
<1>7. Intact(r, own)
  BY <1>5, <1>6, ClosedSound DEF Intact
<1> QED
  BY <1>1, <1>2, <1>4, <1>6, <1>7

-----------------------------------------------------------------------------
(* The task.                                                                  *)

Statements == {"boot", "loop", "open", "fill", "write"}
LogTyped ==
    /\ stmt \in Statements /\ day \in Name /\ late \in BOOLEAN
    /\ namebuffer \in Name /\ databuf \in SUBSET Name /\ odd \in SUBSET Name
    /\ vol.io = 0 /\ vol.fault = {} /\ mishaps \in Nat
VolKept == \E own : Intact(vol, own)

\* What is known of the names that were begun in time: by the statement.
InTime ==
    /\ stmt = "boot" => odd = Name
    /\ stmt = "open" /\ late => odd = Name
    /\ vol.fp.open /\ namebuffer \notin odd =>
            /\ stmt # "open" => namebuffer = day
            /\ stmt = "fill" => ~late
            /\ stmt = "write" => databuf = {namebuffer}
WroteInTime ==
    /\ DOMAIN wrote = Name
    /\ \A d \in Name \ odd :
            /\ wrote[d] \in Seq(SUBSET Name)
            /\ wrote[d] # <<>> => d <= day /\ (stmt = "open" => d < day)
LogInv == LogTyped /\ VolKept /\ InTime /\ WroteInTime

\* A call's outcome, made idle; a call with its faults chosen.
LEMMA IdleKept ==
    ASSUME NEW t, NEW own, Intact(t, own)
    PROVE  Intact(Idle(t), own) /\ Idle(t).fp = t.fp /\ Idle(t).io = 0 /\ Idle(t).fault = {}
<1>1. t \in State /\ Good(t, own) /\ MemOk(t)
  BY DEF Intact, Good, MemOk
<1> DEFINE r == Idle(t)
<1>2. /\ r.disk = t.disk /\ r.win = t.win /\ r.winsect = t.winsect /\ r.wflag = t.wflag /\ r.mounted = t.mounted
      /\ r.fp = t.fp /\ r.io = 0 /\ r.fault = {} /\ r \in State
  <2>1. 0 \in 0 .. N + 3 /\ "OK" \in Results /\ {} \in SUBSET Nat /\ 0 \in Nat
    BY Numbers DEF Results
  <2>2. r = [t EXCEPT !.fault = {}, !.io = 0, !.res = "OK", !.val = 0]
    BY DEF Idle
  <2> QED
    BY <1>1, <2>1, <2>2 DEF State
<1> HIDE DEF r
<1>3. View(r) = View(t)
  BY <1>2, ViewSame
<1>4. Intact(r, own)
  BY <1>1, <1>2, <1>3 DEF Intact, Good, MemOk
<1> QED
  BY <1>2, <1>4 DEF r

LEMMA FaultKept ==
    ASSUME NEW t, NEW own, Intact(t, own), NEW F \in SUBSET Nat
    PROVE  LET r == [t EXCEPT !.fault = F] IN Intact(r, own) /\ r.fp = t.fp
<1>1. t \in State /\ Good(t, own) /\ MemOk(t)
  BY DEF Intact, Good, MemOk
<1> DEFINE r == [t EXCEPT !.fault = F]
<1>2. /\ r.disk = t.disk /\ r.win = t.win /\ r.winsect = t.winsect /\ r.wflag = t.wflag /\ r.mounted = t.mounted
      /\ r.fp = t.fp /\ r \in State
  BY <1>1 DEF State
<1> HIDE DEF r
<1>3. View(r) = View(t)
  BY <1>2, ViewSame
<1>4. Intact(r, own)
  BY <1>1, <1>2, <1>3 DEF Intact, Good, MemOk
<1> QED
  BY <1>2, <1>4 DEF r

LEMMA FaultSets == \A F \in Faults : F \in SUBSET Nat
  BY LoggerAssumption DEF Faults

\* What the card and the file are after each statement.
VolOpened(own) == Intact(vol', own) /\ vol'.io = 0 /\ vol'.fault = {}

LEMMA OpensVol ==
    ASSUME LogTyped, VolKept, Opens
    PROVE  /\ VolKept' /\ vol'.io = 0 /\ vol'.fault = {} /\ mishaps' \in Nat
           /\ odd' \in SUBSET Name /\ namebuffer' = day /\ wrote' = [wrote EXCEPT ![day] = <<>>]
           /\ vol'.fp.open => odd' = IF late THEN odd ELSE odd \ {day}
           /\ odd' = odd \/ (~late /\ odd' = odd \ {day})
<1>1. PICK F \in Faults :
          LET t == f_open([vol EXCEPT !.fault = F], day)
          IN  /\ Of(F, t) /\ namebuffer' = day /\ wrote' = [wrote EXCEPT ![day] = <<>>]
              /\ odd' = IF Ok(t) /\ ~late THEN odd \ {day} ELSE odd
  BY DEF Opens
<1> DEFINE a == [vol EXCEPT !.fault = F]
           t == f_open(a, day)
<1>2. PICK own : Intact(vol, own)
  BY DEF VolKept
<1>3. Intact(a, own) /\ Good(a, own) /\ day \in Name
  BY <1>2, FaultKept, FaultSets DEF Intact, LogTyped
<1> HIDE DEF a
<1>4. /\ \E new : Intact(t, new)
      /\ t.fp = Closed \/ (Ok(t) /\ \E i \in 1 .. Slots : t.fp = Opened(i))
  BY <1>3, OpenKept
<1>5. vol' = Idle(t) /\ mishaps' \in Nat
  BY <1>1 DEF Of, LogTyped, a
<1>6. odd' = IF Ok(t) /\ ~late THEN odd \ {day} ELSE odd
  BY <1>1 DEF a
<1> HIDE DEF t
<1>7. PICK new : Intact(t, new)
  BY <1>4
<1>8. Intact(vol', new) /\ vol'.fp = t.fp /\ vol'.io = 0 /\ vol'.fault = {}
  BY <1>5, <1>7, IdleKept
<1>9. VolKept'
  BY <1>8 DEF VolKept
<1>10. vol'.fp.open => Ok(t)
  BY <1>4, <1>8, FileTypes
<1> QED
  BY <1>1, <1>5, <1>6, <1>8, <1>9, <1>10 DEF LogTyped

LEMMA ClosesVol ==
    ASSUME LogTyped, VolKept, Closes
    PROVE  VolKept' /\ vol'.io = 0 /\ vol'.fault = {} /\ mishaps' \in Nat
<1>1. PICK F \in Faults : Of(F, f_close([vol EXCEPT !.fault = F]))
  BY DEF Closes
<1> DEFINE a == [vol EXCEPT !.fault = F]
           t == f_close(a)
<1>2. PICK own : Intact(vol, own)
  BY DEF VolKept
<1>3. Intact(a, own)
  BY <1>2, FaultKept, FaultSets
<1>4. vol' = Idle(t) /\ mishaps' \in Nat
  BY <1>1 DEF Of, LogTyped
<1> HIDE DEF a
<1>5. Intact(t, own)
  BY <1>3, CloseKept
<1> HIDE DEF t
<1>6. Intact(vol', own) /\ vol'.io = 0 /\ vol'.fault = {}
  BY <1>4, <1>5, IdleKept
<1> QED
  BY <1>4, <1>6 DEF VolKept

LEMMA WritesVol ==
    ASSUME LogTyped, VolKept, Write
    PROVE  /\ VolKept' /\ vol'.io = 0 /\ vol'.fault = {} /\ mishaps' \in Nat
           /\ vol'.fp.open = vol.fp.open
           /\ wrote' = wrote \/ (vol.fp.open /\ wrote' = [wrote EXCEPT ![namebuffer] = Append(@, databuf)])
<1>1. PICK F \in Faults :
          LET w == f_write([vol EXCEPT !.fault = F], databuf)
          IN  /\ Of(F, f_sync(w))
              /\ wrote' = IF w.fp.fptr = vol.fp.fptr THEN wrote
                          ELSE [wrote EXCEPT ![namebuffer] = Append(@, databuf)]
  BY DEF Write
<1> DEFINE a == [vol EXCEPT !.fault = F]
           w == f_write(a, databuf)
           t == f_sync(w)
<1>2. PICK own : Intact(vol, own)
  BY DEF VolKept
<1>3. Intact(a, own) /\ a.fp = vol.fp /\ databuf \in DataVal
  BY <1>2, FaultKept, FaultSets DEF LogTyped, DataVal
<1>4. vol' = Idle(t) /\ mishaps' \in Nat
  BY <1>1 DEF Of, LogTyped
<1>5. wrote' = IF w.fp.fptr = vol.fp.fptr THEN wrote ELSE [wrote EXCEPT ![namebuffer] = Append(@, databuf)]
  BY <1>1
<1> HIDE DEF a
<1>6. (\E new : Intact(w, new)) /\ w.fp.open = a.fp.open /\ (w.fp.fptr # a.fp.fptr => a.fp.open)
  BY <1>3, WriteKept
<1> HIDE DEF w
<1>7. PICK new : Intact(w, new)
  BY <1>6
<1>8. Intact(t, new) /\ (t.fp = w.fp \/ t.fp = [w.fp EXCEPT !.written = FALSE])
  BY <1>7, SyncKept
<1> HIDE DEF t
<1>9. w.fp \in File
  BY <1>7 DEF Intact, Good, MemOk, State
<1>10. t.fp.open = w.fp.open
  BY <1>8, <1>9 DEF File
<1>11. Intact(vol', new) /\ vol'.fp = t.fp /\ vol'.io = 0 /\ vol'.fault = {}
  BY <1>4, <1>8, IdleKept
<1> QED
  BY <1>3, <1>4, <1>5, <1>6, <1>10, <1>11 DEF VolKept

\* The power fails: the view is what is on the card.
LEMMA PowerVol ==
    ASSUME LogTyped, VolKept, PowerFails
    PROVE  VolKept' /\ vol'.io = 0 /\ vol'.fault = {} /\ vol'.fp = Closed /\ mishaps' \in Nat
<1> DEFINE t == f_mount([vol EXCEPT !.awake = FALSE])
<1>1. PICK own : Intact(vol, own)
  BY DEF VolKept
<1>2. vol \in State /\ Sound(vol.disk)
  BY <1>1 DEF Intact, Good, MemOk
<1>3. None \in Windows /\ Closed \in File /\ ~Closed.open
  BY FileTypes DEF Windows
<1>4. t = [vol EXCEPT !.awake = FALSE, !.mounted = FALSE, !.win = None, !.winsect = NoSector, !.wflag = FALSE,
                      !.last_clust = 0, !.fp = Closed]
  BY <1>2 DEF f_mount, State
<1>5. /\ t \in State /\ t.disk = vol.disk /\ t.winsect = NoSector /\ ~t.wflag /\ ~t.mounted /\ t.fp = Closed
  BY <1>2, <1>3, <1>4 DEF State
<1>6. vol' = Idle(t) /\ mishaps' \in Nat
  BY DEF PowerFails, Mishap, LogTyped
<1> HIDE DEF t
<1>7. View(t) = vol.disk
  BY <1>5 DEF View
<1>8. PICK new : Vol(vol.disk, new)
  BY <1>2 DEF Sound
<1>9. Intact(t, new)
  <2>1. MemOk(t)
    BY <1>5, <1>7 DEF MemOk
  <2> QED
    BY <1>2, <1>3, <1>5, <1>7, <1>8, <2>1, ClosedSound DEF Intact, Good
<1>10. Intact(vol', new) /\ vol'.fp = t.fp /\ vol'.io = 0 /\ vol'.fault = {}
  BY <1>6, <1>9, IdleKept
<1> QED
  BY <1>5, <1>6, <1>10 DEF VolKept

LEMMA CardOutVol ==
    ASSUME LogTyped, VolKept, CardOut
    PROVE  VolKept' /\ vol'.io = 0 /\ vol'.fault = {} /\ vol'.fp = vol.fp /\ mishaps' \in Nat
<1>1. PICK own : Intact(vol, own)
  BY DEF VolKept
<1>2. vol' = [vol EXCEPT !.awake = FALSE] /\ mishaps' \in Nat
  BY DEF CardOut, Mishap, LogTyped
<1>3. vol \in State
  BY <1>1 DEF Intact, Good, MemOk
<1>4. /\ vol' \in State /\ vol'.disk = vol.disk /\ vol'.win = vol.win /\ vol'.winsect = vol.winsect
      /\ vol'.wflag = vol.wflag /\ vol'.mounted = vol.mounted /\ vol'.fp = vol.fp
      /\ vol'.io = vol.io /\ vol'.fault = vol.fault
  BY <1>2, <1>3 DEF State
<1>5. View(vol') = View(vol)
  BY <1>4, ViewSame
<1>6. Intact(vol', own)
  BY <1>1, <1>4, <1>5 DEF Intact, Good, MemOk
<1> QED
  BY <1>2, <1>4, <1>6 DEF VolKept, LogTyped

\* A formatted card.
LEMMA FormattedSound ==
    /\ Formatted \in Disks
    /\ Vol(Formatted, [c \in Clusters |-> 0])
<1> DEFINE own == [c \in Clusters |-> 0]
<1>1. DOMAIN Formatted = Layout
  BY DEF Formatted, Layout, Meta, FatSectors
<1>2. Formatted[DirSector] = [i \in 1 .. Slots |-> NoEntry]
  <2> DEFINE x == DirSector
  <2>1. x \in Layout /\ x[1] # "fat" /\ x[1] # "data"
    BY DEF Layout, Meta, DirSector
  <2>2. Formatted[x] = CASE x = DirSector -> [i \in 1 .. Slots |-> NoEntry]
                         [] x[1] = "fat" -> [e \in {d \in Clusters : FatSector(d) = x} |-> 0]
                         [] x[1] = "data" -> None
    BY <2>1 DEF Formatted, Layout, Meta, FatSectors
  <2> QED
    BY <2>1, <2>2
<1>3. \A c \in Clusters : Formatted[FatSector(c)] = [e \in {d \in Clusters : FatSector(d) = FatSector(c)} |-> 0]
  <2> TAKE c \in Clusters
  <2>1. FatSector(c) # DirSector /\ FatSector(c)[1] = "fat"
    BY SectorsApart DEF FatSector
  <2> DEFINE x == FatSector(c)
  <2>2. x \in Layout
    BY SectorsApart
  <2>3. Formatted[x] = CASE x = DirSector -> [i \in 1 .. Slots |-> NoEntry]
                         [] x[1] = "fat" -> [e \in {d \in Clusters : FatSector(d) = x} |-> 0]
                         [] x[1] = "data" -> None
    BY <2>2 DEF Formatted, Layout, Meta, FatSectors
  <2> HIDE DEF x
  <2>4. Formatted[x] = [e \in {d \in Clusters : FatSector(d) = x} |-> 0]
    BY <2>1, <2>3 DEF x
  <2> QED
    BY <2>4 DEF x
<1>4. \A c \in Clusters : Formatted[DataSector(c)] = None
  <2> TAKE c \in Clusters
  <2>1. DataSector(c) # DirSector /\ DataSector(c)[1] = "data"
    BY DEF DataSector, DirSector
  <2> DEFINE x == DataSector(c)
  <2>2. x \in Layout
    BY SectorsApart
  <2>3. Formatted[x] = CASE x = DirSector -> [i \in 1 .. Slots |-> NoEntry]
                         [] x[1] = "fat" -> [e \in {d \in Clusters : FatSector(d) = x} |-> 0]
                         [] x[1] = "data" -> None
    BY <2>2 DEF Formatted, Layout, Meta, FatSectors
  <2> HIDE DEF x
  <2>4. Formatted[x] = None
    BY <2>1, <2>3 DEF x
  <2> QED
    BY <2>4 DEF x
<1>5. NoEntry \in Entry /\ NoEntry.name = None /\ NoEntry.clust = 0 /\ NoEntry.size = 0
  BY Numbers DEF NoEntry, Entry
<1>6. \A x \in Meta : Formatted[x] \in Content(x)
  <2>1. Formatted[DirSector] \in Content(DirSector)
    BY <1>2, <1>5 DEF Content, Directory
  <2>2. ASSUME NEW c \in Clusters PROVE Formatted[FatSector(c)] \in Content(FatSector(c))
    BY <1>3, SectorsApart DEF Content, FatPart, FatVal
  <2> QED
    BY <2>1, <2>2 DEF Meta, FatSectors
<1>7. Formatted \in Disks
  <2>1. \A x \in Layout : Formatted[x] \in DataVal \cup Windows
    BY <1>4, <1>6 DEF Layout, Windows, DataVal
  <2>2. Formatted = [x \in Layout |-> Formatted[x]]
    <3>1. \A S, g : g = [x \in S |-> CASE x = DirSector -> [i \in 1 .. Slots |-> NoEntry]
                                      [] x[1] = "fat" -> [c \in {d \in Clusters : FatSector(d) = x} |-> 0]
                                      [] x[1] = "data" -> None] => g = [x \in S |-> g[x]]
      OBVIOUS
    <3> QED
      BY <3>1 DEF Formatted, Layout, Meta, FatSectors
  <2>3. Formatted \in [Layout -> DataVal \cup Windows]
    BY <2>1, <2>2
  <2> QED
    BY <1>6, <2>3 DEF Disks
<1>8. Dir(Formatted) = [i \in 1 .. Slots |-> NoEntry]
  BY <1>2 DEF Dir
<1>9. own \in Owners
  BY Numbers DEF Owners
<1>10. NamesApart(Dir(Formatted))
  BY <1>5, <1>8 DEF NamesApart
<1>11. ASSUME NEW i \in 1 .. Slots PROVE EntrySound(Formatted, own, i)
  <2>1. HasPath(Formatted, own, i, 0, 0)
    BY PathEmpty DEF HasPath
  <2> QED
    BY <1>5, <1>8, <2>1, Numbers DEF EntrySound
<1>12. \A c \in Clusters : LinkSound(Formatted, own, c)
  BY DEF LinkSound
<1> QED
  BY <1>7, <1>9, <1>10, <1>11, <1>12 DEF Vol

LEMMA LogInitInv == LogInit => LogInv
<1> SUFFICES ASSUME LogInit PROVE LogInv
  OBVIOUS
<1>1. 0 \in Name /\ Name \subseteq Nat
  BY LoggerAssumption
<1> DEFINE v == [disk |-> Formatted, awake |-> FALSE, mounted |-> FALSE,
                 win |-> None, winsect |-> NoSector, wflag |-> FALSE, last_clust |-> 0, fp |-> Closed,
                 fault |-> {}, io |-> 0, res |-> "OK", val |-> 0]
<1>2. v \in State
  <2>1. Closed \in File /\ None \in Windows /\ 0 \in 0 .. N + 3 /\ "OK" \in Results
    BY FileTypes, Numbers DEF Windows, Results
  <2>2. {} \in SUBSET Nat /\ NoSector \in Meta \cup {NoSector} /\ 0 \in {0, 1} \cup Clusters
    OBVIOUS
  <2> QED
    BY <2>1, <2>2, FormattedSound DEF State
<1>3. vol = v
  <2>1. vol = [v EXCEPT !.mounted = FALSE, !.win = None, !.winsect = NoSector, !.wflag = FALSE,
                        !.last_clust = 0, !.fp = Closed]
    BY DEF LogInit, f_mount
  <2> QED
    BY <2>1
<1>4. /\ vol.disk = Formatted /\ vol.winsect = NoSector /\ ~vol.wflag /\ ~vol.mounted /\ vol.fp = Closed
      /\ vol.io = 0 /\ vol.fault = {}
  BY <1>3
<1> HIDE DEF v
<1>5. View(vol) = Formatted /\ MemOk(vol)
  BY <1>2, <1>3, <1>4 DEF View, MemOk
<1>6. Intact(vol, [c \in Clusters |-> 0])
  BY <1>4, <1>5, FormattedSound, ClosedSound, FileTypes DEF Intact, Good, Sound
<1>7. VolKept
  BY <1>6 DEF VolKept
<1>8. LogTyped
  BY <1>1, <1>4 DEF LogInit, LogTyped, Statements
<1>9. InTime /\ WroteInTime
  BY <1>4, FileTypes DEF LogInit, InTime, WroteInTime
<1> QED
  BY <1>7, <1>8, <1>9 DEF LogInv

\* A step keeps the invariant.
LEMMA BootInv ==
    ASSUME LogInv, Boot
    PROVE  LogInv'
<1>1. /\ VolKept' /\ vol'.io = 0 /\ vol'.fault = {} /\ mishaps' \in Nat
      /\ odd' \in SUBSET Name /\ namebuffer' = day /\ wrote' = [wrote EXCEPT ![day] = <<>>]
      /\ vol'.fp.open => odd' = IF late THEN odd ELSE odd \ {day}
      /\ odd' = odd \/ (~late /\ odd' = odd \ {day})
  BY OpensVol DEF LogInv, Boot
<1>2. stmt = "boot" /\ stmt' = "loop" /\ day' = day /\ late' = late /\ databuf' = databuf
  BY DEF Boot, Go
<1>3. odd = Name /\ day \in Name
  BY <1>2 DEF LogInv, InTime, LogTyped
<1>4. LogTyped'
  BY <1>1, <1>2 DEF LogInv, LogTyped, Statements
<1>5. InTime'
  BY <1>1, <1>2 DEF InTime
<1>6. WroteInTime'
  <2>1. \A d \in Name \ odd' : d = day
    BY <1>1, <1>3
  <2>2. DOMAIN wrote' = Name /\ wrote'[day] = <<>>
    BY <1>1, <1>3 DEF LogInv, WroteInTime
  <2>3. <<>> \in Seq(SUBSET Name)
    OBVIOUS
  <2> QED
    BY <2>1, <2>2, <2>3 DEF WroteInTime
<1> QED
  BY <1>1, <1>4, <1>5, <1>6 DEF LogInv

LEMMA ReopenInv ==
    ASSUME LogInv, Reopen
    PROVE  LogInv' /\ \A d \in Name : wrote[d] # <<>> /\ wrote'[d] = <<>> => d \in odd
<1>1. /\ VolKept' /\ vol'.io = 0 /\ vol'.fault = {} /\ mishaps' \in Nat
      /\ odd' \in SUBSET Name /\ namebuffer' = day /\ wrote' = [wrote EXCEPT ![day] = <<>>]
      /\ vol'.fp.open => odd' = IF late THEN odd ELSE odd \ {day}
      /\ odd' = odd \/ (~late /\ odd' = odd \ {day})
  BY OpensVol DEF LogInv, Reopen
<1>2. stmt = "open" /\ stmt' = "fill" /\ day' = day /\ late' = late /\ databuf' = databuf
  BY DEF Reopen, Go
<1>3. day \in Name /\ Name \subseteq Nat
  BY LoggerAssumption DEF LogInv, LogTyped
<1>4. LogTyped'
  BY <1>1, <1>2 DEF LogInv, LogTyped, Statements
<1>5. late => odd = Name
  BY <1>2 DEF LogInv, InTime
<1>6. InTime'
  BY <1>1, <1>2, <1>3, <1>5 DEF InTime
<1>7. DOMAIN wrote' = Name /\ wrote'[day] = <<>> /\ \A d \in Name : d # day => wrote'[d] = wrote[d]
  BY <1>1, <1>3 DEF LogInv, WroteInTime
<1>8. \A d \in Name \ odd : wrote[d] \in Seq(SUBSET Name) /\ (wrote[d] # <<>> => d <= day /\ d < day)
  BY <1>2 DEF LogInv, WroteInTime
<1>9. WroteInTime'
  <2>1. \A d \in Name \ odd' : d = day \/ d \in Name \ odd
    BY <1>1
  <2>2. <<>> \in Seq(SUBSET Name)
    OBVIOUS
  <2>3. \A d \in Name \ odd' : wrote'[d] \in Seq(SUBSET Name) /\ (wrote'[d] # <<>> => d <= day)
    BY <1>7, <1>8, <2>1, <2>2
  <2> QED
    BY <1>2, <1>7, <2>3 DEF WroteInTime
<1>10. ASSUME NEW d \in Name, wrote[d] # <<>>, wrote'[d] = <<>> PROVE d \in odd
  <2>1. d = day
    BY <1>7, <1>10
  <2>2. ~(d < day)
    BY <1>3, <2>1
  <2> QED
    BY <1>8, <1>10, <2>2
<1> QED
  BY <1>1, <1>4, <1>6, <1>9, <1>10 DEF LogInv

LEMMA NewDayInv ==
    ASSUME LogInv, NewDay
    PROVE  LogInv'
<1>1. VolKept' /\ vol'.io = 0 /\ vol'.fault = {} /\ mishaps' \in Nat
  BY ClosesVol DEF LogInv, NewDay
<1>2. /\ stmt' = "open" /\ late /\ databuf' = databuf /\ namebuffer' = namebuffer /\ wrote' = wrote
      /\ odd' = IF late' THEN Name ELSE odd
      /\ (late' = late /\ day' = day) \/ (late' = FALSE /\ day' = day + 1 /\ day < MaxDay)
  BY DEF NewDay, Closes, Go, Minute
<1>3. day \in Nat /\ Name = 0 .. MaxDay /\ MaxDay \in Nat
  BY LoggerAssumption DEF LogInv, LogTyped
<1>4. LogTyped'
  <2>1. day' \in Name /\ late' \in BOOLEAN /\ odd' \in SUBSET Name
    <3>1. day + 1 \in Name \/ ~(day < MaxDay)
      BY <1>3
    <3> QED
      BY <1>2, <3>1 DEF LogInv, LogTyped
  <2> QED
    BY <1>1, <1>2, <2>1 DEF LogInv, LogTyped, Statements
<1>5. InTime'
  BY <1>2 DEF InTime
<1>6. WroteInTime'
  <2>1. CASE late'
    <3>1. odd' = Name
      BY <1>2, <2>1
    <3> QED
      BY <1>2, <3>1 DEF LogInv, WroteInTime
  <2>2. CASE ~late'
    <3>1. odd' = odd /\ day' = day + 1
      BY <1>2, <2>2
    <3>2. \A d \in Name : d <= day => d <= day' /\ d < day'
      BY <1>3, <3>1
    <3> QED
      BY <1>2, <3>1, <3>2 DEF LogInv, WroteInTime
  <2> QED
    BY <2>1, <2>2
<1> QED
  BY <1>1, <1>4, <1>5, <1>6 DEF LogInv

LEMMA FillInv ==
    ASSUME LogInv, Fill
    PROVE  LogInv'
<1>1. /\ stmt' = "write" /\ ((stmt = "loop" /\ ~late) \/ stmt = "fill")
      /\ databuf' = {day, day'} /\ vol' = vol /\ namebuffer' = namebuffer /\ mishaps' = mishaps
      /\ wrote' = wrote /\ odd' = odd
  BY DEF Fill, Go
<1>2. \/ day' = day /\ late' = late
      \/ ~late /\ late' = TRUE /\ day' = day
      \/ late /\ day < MaxDay /\ late' = FALSE /\ day' = day + 1
  BY DEF Fill, Seconds
<1>3. day \in Nat /\ Name = 0 .. MaxDay /\ MaxDay \in Nat
  BY LoggerAssumption DEF LogInv, LogTyped
<1>4. VolKept'
  BY <1>1 DEF LogInv, VolKept
<1>5. LogTyped'
  <2>1. day' \in Name /\ late' \in BOOLEAN
    <3>1. day + 1 \in Name \/ ~(day < MaxDay)
      BY <1>3
    <3> QED
      BY <1>2, <3>1 DEF LogInv, LogTyped
  <2>2. databuf' \in SUBSET Name
    BY <1>1, <2>1 DEF LogInv, LogTyped
  <2> QED
    BY <1>1, <2>1, <2>2 DEF LogInv, LogTyped, Statements
<1>6. InTime'
  <2>1. ASSUME vol.fp.open, namebuffer \notin odd PROVE namebuffer = day /\ day' = day /\ databuf' = {namebuffer}
    <3>1. namebuffer = day /\ ~late
      BY <1>1, <2>1 DEF LogInv, InTime
    <3> QED
      BY <1>1, <1>2, <3>1
  <2> QED
    BY <1>1, <2>1 DEF InTime
<1>7. WroteInTime'
  <2>1. \A d \in Name : d <= day => d <= day'
    BY <1>2, <1>3
  <2> QED
    BY <1>1, <2>1 DEF LogInv, WroteInTime
<1> QED
  BY <1>4, <1>5, <1>6, <1>7 DEF LogInv

LEMMA WriteInv ==
    ASSUME LogInv, Write
    PROVE  LogInv' /\ \A d \in Name : wrote[d] # <<>> /\ wrote'[d] = <<>> => d \in odd
<1>1. /\ VolKept' /\ vol'.io = 0 /\ vol'.fault = {} /\ mishaps' \in Nat
      /\ vol'.fp.open = vol.fp.open
      /\ wrote' = wrote \/ (vol.fp.open /\ wrote' = [wrote EXCEPT ![namebuffer] = Append(@, databuf)])
  BY WritesVol DEF LogInv
<1>2. /\ stmt = "write" /\ stmt' = "loop" /\ day' = day /\ late' = late /\ databuf' = {}
      /\ namebuffer' = namebuffer /\ odd' = odd
  BY DEF Write, Go
<1>3. day \in Nat /\ namebuffer \in Name /\ databuf \in SUBSET Name /\ {} \in SUBSET Name
  BY LoggerAssumption DEF LogInv, LogTyped
<1>4. LogTyped'
  BY <1>1, <1>2, <1>3 DEF LogInv, LogTyped, Statements
<1>5. InTime'
  BY <1>1, <1>2 DEF LogInv, InTime
<1>6. \A d \in Name \ odd : wrote[d] \in Seq(SUBSET Name) /\ (wrote[d] # <<>> => d <= day)
  BY DEF LogInv, WroteInTime
<1>7. CASE wrote' = wrote
  <2>1. WroteInTime'
    BY <1>2, <1>6, <1>7 DEF LogInv, WroteInTime
  <2> QED
    BY <1>1, <1>4, <1>5, <1>7, <2>1 DEF LogInv
<1>8. CASE vol.fp.open /\ wrote' = [wrote EXCEPT ![namebuffer] = Append(@, databuf)]
  <2>1. /\ DOMAIN wrote' = Name /\ wrote'[namebuffer] = Append(wrote[namebuffer], databuf)
        /\ \A d \in Name : d # namebuffer => wrote'[d] = wrote[d]
    BY <1>3, <1>8 DEF LogInv, WroteInTime
  <2>2. \A q \in Seq(SUBSET Name) : Append(q, databuf) \in Seq(SUBSET Name) /\ Append(q, databuf) # <<>>
    BY <1>3
  <2>3. namebuffer \notin odd => namebuffer = day
    BY <1>2, <1>8 DEF LogInv, InTime
  <2>4. ASSUME NEW d \in Name \ odd
        PROVE  /\ wrote'[d] \in Seq(SUBSET Name) /\ (wrote'[d] # <<>> => d <= day)
               /\ wrote[d] # <<>> => wrote'[d] # <<>>
    <3>1. CASE d = namebuffer
      <4>1. wrote'[d] = Append(wrote[d], databuf) /\ wrote[d] \in Seq(SUBSET Name)
        BY <1>6, <2>1, <3>1
      <4>2. d <= day
        BY <1>3, <2>3, <3>1
      <4> QED
        BY <2>2, <4>1, <4>2
    <3>2. CASE d # namebuffer
      BY <1>6, <2>1, <3>2
    <3> QED
      BY <3>1, <3>2
  <2>5. WroteInTime'
    BY <1>2, <2>1, <2>4 DEF WroteInTime
  <2> QED
    BY <1>1, <1>4, <1>5, <2>4, <2>5 DEF LogInv
<1> QED
  BY <1>1, <1>7, <1>8

LEMMA JumpInv ==
    ASSUME LogInv, Jump
    PROVE  LogInv'
<1>1. /\ stmt \in {"loop", "open"} /\ mishaps' = mishaps + 1 /\ day' \in Name /\ late' \in BOOLEAN /\ odd' = Name
      /\ vol' = vol /\ stmt' = stmt /\ namebuffer' = namebuffer /\ databuf' = databuf /\ wrote' = wrote
  BY DEF Jump, Mishap
<1>2. VolKept'
  BY <1>1 DEF LogInv, VolKept
<1>3. LogTyped'
  <2>1. mishaps + 1 \in Nat
    BY DEF LogInv, LogTyped
  <2> QED
    BY <1>1, <2>1 DEF LogInv, LogTyped
<1>4. InTime'
  <2>1. namebuffer' \in Name
    BY <1>3 DEF LogTyped
  <2> QED
    BY <1>1, <2>1 DEF InTime
<1>5. WroteInTime'
  BY <1>1 DEF LogInv, WroteInTime
<1> QED
  BY <1>2, <1>3, <1>4, <1>5 DEF LogInv

LEMMA PowerInv ==
    ASSUME LogInv, PowerFails
    PROVE  LogInv'
<1>1. VolKept' /\ vol'.io = 0 /\ vol'.fault = {} /\ vol'.fp = Closed /\ mishaps' \in Nat
  BY PowerVol DEF LogInv
<1>2. /\ stmt' = "boot" /\ day' = 0 /\ late' = FALSE /\ namebuffer' = 0 /\ databuf' = {}
      /\ wrote' = FilesOn(vol.disk) /\ odd' = Name
  BY DEF PowerFails
<1>3. 0 \in Name
  BY LoggerAssumption
<1>4. LogTyped'
  BY <1>1, <1>2, <1>3 DEF LogTyped, Statements
<1>5. ~vol'.fp.open
  BY <1>1, FileTypes
<1>6. InTime'
  BY <1>2, <1>5 DEF InTime
<1>7. WroteInTime'
  BY <1>2 DEF WroteInTime, FilesOn
<1> QED
  BY <1>1, <1>4, <1>6, <1>7 DEF LogInv

LEMMA CardOutInv ==
    ASSUME LogInv, CardOut
    PROVE  LogInv'
<1>1. VolKept' /\ vol'.io = 0 /\ vol'.fault = {} /\ vol'.fp = vol.fp /\ mishaps' \in Nat
  BY CardOutVol DEF LogInv
<1>2. /\ stmt' = stmt /\ day' = day /\ late' = late /\ namebuffer' = namebuffer /\ databuf' = databuf
      /\ wrote' = wrote /\ odd' = odd
  BY DEF CardOut
<1>3. LogTyped'
  BY <1>1, <1>2 DEF LogInv, LogTyped
<1>4. InTime'
  BY <1>1, <1>2 DEF LogInv, InTime
<1>5. WroteInTime'
  BY <1>2 DEF LogInv, WroteInTime
<1> QED
  BY <1>1, <1>3, <1>4, <1>5 DEF LogInv

LEMMA LogStep ==
    ASSUME LogInv, [LogNext]_logvars
    PROVE  LogInv'
<1>1. CASE UNCHANGED logvars
  <2>1. /\ vol' = vol /\ stmt' = stmt /\ day' = day /\ late' = late /\ namebuffer' = namebuffer
        /\ databuf' = databuf /\ mishaps' = mishaps /\ wrote' = wrote /\ odd' = odd
    BY <1>1 DEF logvars
  <2>2. LogTyped'
    BY <2>1 DEF LogInv, LogTyped
  <2>3. VolKept'
    BY <2>1 DEF LogInv, VolKept
  <2>4. InTime'
    BY <2>1 DEF LogInv, InTime
  <2>5. WroteInTime'
    BY <2>1 DEF LogInv, WroteInTime
  <2> QED
    BY <2>2, <2>3, <2>4, <2>5 DEF LogInv
<1>2. CASE Boot
  BY <1>2, BootInv
<1>3. CASE NewDay
  BY <1>3, NewDayInv
<1>4. CASE Reopen
  BY <1>4, ReopenInv
<1>5. CASE Fill
  BY <1>5, FillInv
<1>6. CASE Write
  BY <1>6, WriteInv
<1>7. CASE Jump
  BY <1>7, JumpInv
<1>8. CASE PowerFails
  BY <1>8, PowerInv
<1>9. CASE CardOut
  BY <1>9, CardOutInv
<1> QED
  BY <1>1, <1>2, <1>3, <1>4, <1>5, <1>6, <1>7, <1>8, <1>9 DEF LogNext, vTaskMSD

\* A step that begins a name again, though it had records.
LEMMA StepTruncates ==
    ASSUME LogInv, [LogNext]_logvars, NEW d \in Name, wrote[d] # <<>>, wrote'[d] = <<>>
    PROVE  d \in odd \/ stmt' = "boot"
<1>1. CASE UNCHANGED logvars \/ NewDay \/ Fill \/ Jump \/ CardOut
  <2>1. wrote' = wrote
    BY <1>1 DEF logvars, NewDay, Closes, Fill, Jump, CardOut
  <2> QED
    BY <2>1
<1>2. CASE Boot
  <2>1. stmt = "boot"
    BY <1>2 DEF Boot, Go
  <2> QED
    BY <2>1 DEF LogInv, InTime
<1>3. CASE Reopen
  BY <1>3, ReopenInv
<1>4. CASE Write
  BY <1>4, WriteInv
<1>5. CASE PowerFails
  BY <1>5 DEF PowerFails
<1> QED
  BY <1>1, <1>2, <1>3, <1>4, <1>5 DEF LogNext, vTaskMSD

LEMMA InvTimely == LogInv => RecordsOfTheirDay
  BY DEF LogInv, InTime, RecordsOfTheirDay

LEMMA InvTyped == LogInv => LogTypeOK
<1> SUFFICES ASSUME LogInv PROVE LogTypeOK
  OBVIOUS
<1>1. PICK own : Intact(vol, own)
  BY DEF LogInv, VolKept
<1>2. vol \in State /\ MemOk(vol) /\ FileSound(View(vol), own, vol.fp) /\ vol.disk \in Disks
  BY <1>1 DEF Intact, Good, MemOk, State
<1>3. vol.fp \in File /\ vol.last_clust \in {0, 1} \cup Clusters /\ vol.winsect \in Meta \cup {NoSector}
  BY <1>2 DEF State
<1>4. vol.fp.fsize = vol.fp.fptr
  BY <1>2 DEF FileSound
<1>5. vol.fp.sclust \in {0, DiskError} \cup Clusters /\ vol.fp.fptr \in 0 .. N
  BY <1>3 DEF File
<1>6. \A i \in 1 .. Slots : vol.disk[DirSector][i] \in Entry
  BY <1>2, DiskParts DEF Dir, Directory
<1>7. vol.wflag => vol.mounted /\ vol.winsect \in DOMAIN vol.disk
  <2>1. DOMAIN vol.disk = Layout /\ Meta \subseteq Layout
    BY <1>2, SectorsApart DEF Disks
  <2>2. vol.wflag => vol.winsect # NoSector /\ (~vol.mounted => vol.winsect = NoSector)
    BY <1>2 DEF MemOk
  <2> QED
    BY <1>3, <2>1, <2>2
<1>8. vol.io <= MaxIO
  BY LoggerAssumption DEF LogInv, LogTyped
<1> QED
  BY <1>3, <1>4, <1>5, <1>6, <1>7, <1>8 DEF LogTypeOK

\* f follows a chain of a disk from c, for m clusters.
After(d, c) == IF c \in Clusters THEN Fat(d, c) ELSE 0
Links(f, d, c, m) == f = [k \in 1 .. m |-> IF k = 1 THEN c ELSE After(d, f[k - 1])]

LEMMA LinksExist ==
    ASSUME NEW d, NEW c, NEW m \in Nat
    PROVE  \E f : Links(f, d, c, m)
<1> DEFINE Bad == {k \in Nat : ~ \E f : Links(f, d, c, k)}
<1>1. SUFFICES ASSUME Bad # {} PROVE FALSE
  OBVIOUS
<1>2. PICK k \in Bad : \A j \in Bad : k <= j
  BY <1>1, LeastOne
<1>3. CASE k = 0
  <2>1. Links([j \in 1 .. k |-> c], d, c, k)
    BY <1>3 DEF Links
  <2> QED
    BY <1>2, <2>1
<1>4. CASE k # 0
  <2>1. k - 1 \in Nat /\ k - 1 \notin Bad
    BY <1>2, <1>4
  <2>2. PICK f : Links(f, d, c, k - 1)
    BY <2>1
  <2> DEFINE e == [j \in 1 .. k |-> IF j = 1 THEN c ELSE IF j = k THEN After(d, f[k - 1]) ELSE f[j]]
  <2>3. \A j \in 1 .. k - 1 : f[j] = IF j = 1 THEN c ELSE After(d, f[j - 1])
    BY <2>2 DEF Links
  <2>4. ASSUME NEW j \in 1 .. k PROVE e[j] = IF j = 1 THEN c ELSE After(d, e[j - 1])
    <3>1. CASE j = 1
      BY <3>1
    <3>2. CASE j # 1
      <4>1. j - 1 \in 1 .. k - 1 /\ j - 1 # k /\ j - 1 \in 1 .. k
        BY <3>2
      <4>2. e[j - 1] = f[j - 1]
        <5>1. j - 1 = 1 => f[j - 1] = c
          BY <2>3, <4>1
        <5> QED
          BY <4>1, <5>1
      <4>3. CASE j = k
        BY <3>2, <4>2, <4>3
      <4>4. CASE j # k
        <5>1. e[j] = f[j] /\ j \in 1 .. k - 1
          BY <3>2, <4>4
        <5> QED
          BY <2>3, <3>2, <4>2, <5>1
      <4> QED
        BY <4>3, <4>4
    <3> QED
      BY <3>1, <3>2
  <2>5. Links(e, d, c, k)
    BY <2>4 DEF Links
  <2> QED
    BY <1>2, <2>5
<1> QED
  BY <1>3, <1>4

\* What ChainFrom is.
FollowedBy(f, d, c, m) ==
    Links(f, d, c, m) /\ ChainFrom(d, c, m) = [k \in {j \in 1 .. m : f[j] \in Clusters} |-> f[k]]

LEMMA ChainIs ==
    ASSUME NEW d, NEW c, NEW m \in Nat
    PROVE  \E f : FollowedBy(f, d, c, m)
<1>1. PICK f : f = CHOOSE g : Links(g, d, c, m)
  OBVIOUS
<1>2. Links(f, d, c, m)
  BY <1>1, LinksExist
<1>3. ChainFrom(d, c, m) = [k \in {j \in 1 .. m : f[j] \in Clusters} |-> f[k]]
  BY <1>1 DEF ChainFrom, Links, After
<1> QED
  BY <1>2, <1>3 DEF FollowedBy

LEMMA ChainOwned ==
    ASSUME NEW d, NEW own, Vol(d, own), NEW i \in 1 .. Slots, NEW m \in Nat
    PROVE  LET ch == ChainFrom(d, Dir(d)[i].clust, m)
           IN  \A k \in DOMAIN ch : ch[k] \in Clusters /\ own[ch[k]] = i
<1> DEFINE c == Dir(d)[i].clust
<1>0. PICK f : FollowedBy(f, d, c, m)
  BY ChainIs
<1>1. Links(f, d, c, m) /\ ChainFrom(d, c, m) = [k \in {j \in 1 .. m : f[j] \in Clusters} |-> f[k]]
  BY <1>0 DEF FollowedBy
<1>2. \A k \in 1 .. m : f[k] = IF k = 1 THEN c ELSE After(d, f[k - 1])
  BY <1>1 DEF Links
<1>3. c \in Clusters => own[c] = i
  BY DEF Vol, EntrySound
<1> HIDE DEF c
<1> DEFINE Bad == {k \in 1 .. m : f[k] \in Clusters /\ own[f[k]] # i}
<1>4. Bad = {}
  <2>1. SUFFICES ASSUME Bad # {} PROVE FALSE
    OBVIOUS
  <2>2. Bad \in SUBSET Nat
    OBVIOUS
  <2>3. PICK k \in Bad : \A j \in Bad : k <= j
    BY <2>1, <2>2, LeastOne
  <2>4. k # 1
    BY <1>2, <1>3, <2>3
  <2>5. k - 1 \in 1 .. m /\ k - 1 \notin Bad /\ f[k] = After(d, f[k - 1])
    BY <1>2, <2>3, <2>4
  <2>6. f[k - 1] \in Clusters /\ f[k] = Fat(d, f[k - 1])
    BY <2>3, <2>5, Numbers DEF After
  <2>7. own[f[k - 1]] = i /\ i # 0
    BY <2>5, <2>6
  <2>8. LinkSound(d, own, f[k - 1])
    BY <2>6 DEF Vol
  <2> QED
    BY <2>3, <2>6, <2>7, <2>8 DEF LinkSound
<1> QED
  BY <1>1, <1>4 DEF c

LEMMA ChainLength ==
    ASSUME NEW d, NEW own, Vol(d, own), NEW i \in 1 .. Slots
    PROVE  Len(ChainFrom(d, Dir(d)[i].clust, Dir(d)[i].size)) = Dir(d)[i].size
<1> DEFINE c == Dir(d)[i].clust
           m == Dir(d)[i].size
<1>1. m \in Nat /\ HasPath(d, own, i, c, m)
  <2>1. Dir(d)[i] \in Entry
    BY DiskParts DEF Vol, Directory
  <2> QED
    BY <2>1 DEF Vol, EntrySound, Entry
<1> HIDE DEF c, m
<1>0. PICK f : FollowedBy(f, d, c, m)
  BY <1>1, ChainIs
<1>2. Links(f, d, c, m) /\ ChainFrom(d, c, m) = [k \in {j \in 1 .. m : f[j] \in Clusters} |-> f[k]]
  BY <1>0 DEF FollowedBy
<1>3. PICK ch : Path(d, own, i, ch, m) /\ (m > 0 => ch[1] = c)
  BY <1>1 DEF HasPath
<1>4. \A k \in 1 .. m : f[k] = IF k = 1 THEN c ELSE After(d, f[k - 1])
  BY <1>2 DEF Links
<1>5. \A k \in 1 .. m : ch[k] \in Clusters /\ (k < m => Fat(d, ch[k]) = ch[k + 1])
  BY <1>3 DEF Path
<1> DEFINE Bad == {k \in 1 .. m : f[k] # ch[k]}
<1>6. Bad = {}
  <2>1. SUFFICES ASSUME Bad # {} PROVE FALSE
    OBVIOUS
  <2>2. Bad \in SUBSET Nat
    OBVIOUS
  <2>3. PICK k \in Bad : \A j \in Bad : k <= j
    BY <2>1, <2>2, LeastOne
  <2>4. k # 1
    BY <1>1, <1>3, <1>4, <2>3
  <2>5. k - 1 \in 1 .. m /\ k - 1 \notin Bad /\ f[k] = After(d, f[k - 1]) /\ k - 1 < m /\ (k - 1) + 1 = k
    BY <1>1, <1>4, <2>3, <2>4
  <2>6. f[k - 1] = ch[k - 1] /\ ch[k - 1] \in Clusters /\ Fat(d, ch[k - 1]) = ch[k]
    BY <1>5, <2>5
  <2> QED
    BY <2>3, <2>5, <2>6 DEF After
<1>7. {j \in 1 .. m : f[j] \in Clusters} = 1 .. m
  BY <1>5, <1>6
<1>8. ChainFrom(d, c, m) = [k \in 1 .. m |-> f[k]]
  BY <1>2, <1>7
<1>9. Len([k \in 1 .. m |-> f[k]]) = m
  BY <1>1
<1> QED
  BY <1>8, <1>9 DEF c, m

LEMMA InvChains == LogInv => ChainsSound
<1> SUFFICES ASSUME LogInv PROVE ChainsSound
  OBVIOUS
<1> DEFINE d == vol.disk
           chain(i) == ChainFrom(d, Dir(d)[i].clust, N)
           on(i) == {chain(i)[k] : k \in DOMAIN chain(i)}
<1>1. Sound(d)
  BY DEF LogInv, VolKept, Intact, Good
<1>2. PICK own : Vol(d, own)
  BY <1>1 DEF Sound
<1> HIDE DEF d
<1>3. \A i \in 1 .. Slots : \A c \in on(i) : c \in Clusters /\ own[c] = i
  BY <1>2, ChainOwned, Numbers
<1> HIDE DEF on
<1>4. \A c \in Clusters : own[c] # 0 => Fat(d, c) # 0
  BY <1>2 DEF Vol, LinkSound
<1>5. ASSUME NEW i \in Entries(d)
      PROVE  /\ Len(ChainFrom(d, Dir(d)[i].clust, Dir(d)[i].size)) = Dir(d)[i].size
             /\ \A c \in on(i) : Fat(d, c) # 0
             /\ \A j \in Entries(d) \ {i} : Dir(d)[j].name # Dir(d)[i].name /\ on(i) \cap on(j) = {}
  <2>1. i \in 1 .. Slots /\ Dir(d)[i].name # None /\ i # 0
    BY DEF Entries, Dir
  <2>2. Len(ChainFrom(d, Dir(d)[i].clust, Dir(d)[i].size)) = Dir(d)[i].size
    BY <1>2, <2>1, ChainLength
  <2>3. \A c \in on(i) : Fat(d, c) # 0
    BY <1>3, <1>4, <2>1
  <2>4. ASSUME NEW j \in Entries(d) \ {i}
        PROVE  Dir(d)[j].name # Dir(d)[i].name /\ on(i) \cap on(j) = {}
    <3>1. j \in 1 .. Slots /\ j # i
      BY DEF Entries
    <3>2. Dir(d)[j].name # Dir(d)[i].name
      BY <1>2, <2>1, <3>1 DEF Vol, NamesApart
    <3>3. on(i) \cap on(j) = {}
      BY <1>3, <2>1, <3>1
    <3> QED
      BY <3>2, <3>3
  <2> QED
    BY <2>2, <2>3, <2>4
<1> QED
  BY <1>5 DEF ChainsSound, Dir, d, on

-----------------------------------------------------------------------------

\* The volume can be mounted and read whatever failed, and wherever in a call
\* the power did: the directory's names differ, each file's chain is as long as
\* the file, and no two share a cluster (f_open, f_write, f_sync, f_close).
THEOREM VolumeStaysSound == LogSpec => []VolumeSound
<1>1. LogInit => LogInv
  BY LogInitInv
<1>2. LogInv /\ [LogNext]_logvars => LogInv'
  BY LogStep
<1>3. LogInv => VolumeSound
  BY InvTyped, InvChains DEF VolumeSound
<1> QED
  BY <1>1, <1>2, <1>3, PTL DEF LogSpec

\* vTaskMSD writes the records of a day to the file of that day, and begins no
\* file again that has records, unless the time jumped or the power failed.
THEOREM DaysStayKept == LogSpec => DaysKept
<1>1. LogInit => LogInv
  BY LogInitInv
<1>2. LogInv /\ [LogNext]_logvars => LogInv'
  BY LogStep
<1>3. LogInv => RecordsOfTheirDay
  BY InvTimely
<1>4. LogInv /\ [LogNext]_logvars
      => [\A d \in Name : wrote[d] # <<>> /\ wrote'[d] = <<>> => d \in odd \/ stmt' = "boot"]_logvars
  BY StepTruncates
<1> QED
  BY <1>1, <1>2, <1>3, <1>4, PTL DEF LogSpec, DaysKept, NotTruncated
================================================================================
