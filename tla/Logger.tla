--------------------------------- MODULE Logger ---------------------------------
(* vTaskMSD (taskMSD.c): records of time_now and of the sensors are gathered   *)
(* and written to a file named by the day, on a card that may fail, or be      *)
(* taken out, at any read or write, while the power may fail at any of them    *)
(* too. time_now goes on as the host sends it, or not at all: a build with     *)
(* vTaskRTC does not let vTaskMSD run (see App).                               *)
EXTENDS FatFs, SequencesExt

CONSTANTS
    MaxDay,     \* bound: days 0 .. MaxDay; on day 0 the program starts
    MaxIO,      \* bound: reads and writes of a call
    MaxMishaps  \* bound: calls in which the card fails, and other mishaps

ASSUME LoggerAssumption == MaxDay \in Nat /\ Name = 0 .. MaxDay /\ MaxIO \in Nat /\ MaxMishaps \in Nat

VARIABLES
    vol,              \* the card and what FatFs keeps
    stmt,             \* the task's next statement
    day, late,      \* time_now: the day, and is it 23:59?
    namebuffer, databuf,    \* the days the file is named by, the records are of
    res, hit,       \* the result of the last f_write; did its card fail it?
    mishaps,        \* the bound's counter
    \* History, for the properties only.
    wrote,          \* the records written to each name since it was begun
    odd             \* the names begun at 23:59, or since whose beginning time
                    \* has jumped or stopped, or the power has failed
logvars == <<vol, stmt, day, late, namebuffer, databuf, res, hit, mishaps, wrote, odd>>

Idle(t) == [t EXCEPT !.fault = {}, !.io = 0, !.res = "OK", !.val = 0]

LogInit ==
    /\ vol = f_mount([disk |-> Formatted, awake |-> FALSE, mounted |-> FALSE,
                    win |-> None, winsect |-> NoSector, wflag |-> FALSE, last_clust |-> 0, fp |-> Closed,
                    fault |-> {}, io |-> 0, res |-> "OK", val |-> 0])
    /\ stmt = "boot" /\ day = 0 /\ late = FALSE
    /\ namebuffer = 0 /\ databuf = {} /\ res = "OK" /\ hit = FALSE
    /\ mishaps = 0 /\ wrote = [n \in Name |-> <<>>] /\ odd = Name

Go(from, to) == stmt = from /\ stmt' = to

\* What may fail of a call: nothing, one access to the card, or all from one on.
Faults == {{}} \cup {{n} : n \in 0 .. MaxIO} \cup {n .. MaxIO : n \in 0 .. MaxIO}
Hit(t) == \E n \in t.fault : n < t.io

\* The outcomes of a call that touches the card.
Of(F, t) == /\ F = {} \/ (Hit(t) /\ mishaps < MaxMishaps)
            /\ vol' = Idle(t) /\ mishaps' = mishaps + (IF F = {} THEN 0 ELSE 1)
Mishap == mishaps < MaxMishaps /\ mishaps' = mishaps + 1

\* Time has gone on by less than a minute, if the host sends it, or by more.
Seconds ==
    \/ UNCHANGED <<day, late>>
    \/ ~late /\ late' = TRUE /\ UNCHANGED day
    \/ late /\ day < MaxDay /\ late' = FALSE /\ day' = day + 1
Minute == UNCHANGED <<day, late>> \/ (late /\ day < MaxDay /\ late' = FALSE /\ day' = day + 1)

\* prvNamenchild, and f_open of that name.
Opens ==
    LET opened(F, t) == /\ Of(F, t) /\ hit' = Hit(t) /\ namebuffer' = day
                        /\ wrote' = [wrote EXCEPT ![day] = <<>>]
                        /\ odd' = IF Ok(t) /\ ~late THEN odd \ {day} ELSE odd
    IN  \E F \in Faults : opened(F, f_open([vol EXCEPT !.fault = F], day))

Boot == Go("boot", "loop") /\ Opens /\ UNCHANGED <<day, late, databuf, res>>

Closes ==
    /\ late /\ Go("loop", "open")
    /\ \E F \in Faults : Of(F, f_close([vol EXCEPT !.fault = F]))
    /\ hit' = FALSE /\ res' = "OK" /\ UNCHANGED <<namebuffer, databuf, wrote>>

\* Mutant: the wait is of a second.
NewDayShort == Closes /\ Seconds /\ UNCHANGED odd

\* prvIsnewday: the file is closed, and the last minute of the day waited for.
NewDay == Closes /\ Minute /\ odd' = IF late' THEN Name ELSE odd

Reopen == Go("open", "fill") /\ Opens /\ UNCHANGED <<day, late, databuf, res>>

\* Sixteen records, one a second.
Fill ==
    /\ (~late /\ Go("loop", "write")) \/ Go("fill", "write")
    /\ Seconds /\ databuf' = {day, day'}
    /\ hit' = FALSE /\ res' = "OK" /\ UNCHANGED <<vol, namebuffer, mishaps, wrote, odd>>

\* f_write and f_sync, in one critical section; "write data ok" tells of the
\* first only.
Write ==
    /\ Go("write", "loop")
    /\ LET synced(F, t) == Of(F, t) /\ hit' = Hit(t)
           written(F, w) ==
               /\ synced(F, f_sync(w)) /\ res' = w.res
               /\ wrote' = IF w.fp.fptr = vol.fp.fptr THEN wrote
                           ELSE [wrote EXCEPT ![namebuffer] = Append(@, databuf)]
       IN  \E F \in Faults : written(F, f_write([vol EXCEPT !.fault = F], databuf))
    /\ databuf' = {}
    /\ UNCHANGED <<day, late, namebuffer, odd>>

vTaskMSD == Boot \/ NewDay \/ Reopen \/ Fill \/ Write

\* The host sets another time.
Jump == /\ stmt \in {"loop", "open"} /\ Mishap
        /\ day' \in Name /\ late' \in BOOLEAN /\ odd' = Name
        /\ UNCHANGED <<vol, stmt, namebuffer, databuf, res, hit, wrote>>

\* The power fails and comes back; time_now is initialized again.
PowerFails ==
    /\ Mishap
    /\ vol' = Idle(f_mount([vol EXCEPT !.awake = FALSE]))
    /\ stmt' = "boot" /\ day' = 0 /\ late' = FALSE /\ namebuffer' = 0 /\ databuf' = {}
    /\ res' = "OK" /\ hit' = FALSE
    /\ wrote' = FilesOn(vol.disk) /\ odd' = Name

\* The card is taken out and put back.
CardOut == /\ vol.awake /\ Mishap /\ vol' = [vol EXCEPT !.awake = FALSE]
           /\ UNCHANGED <<stmt, day, late, namebuffer, databuf, res, hit, wrote, odd>>

LogNext == vTaskMSD \/ Jump \/ PowerFails \/ CardOut
LogSpec == LogInit /\ [][LogNext]_logvars

-----------------------------------------------------------------------------
Files == FilesOn(vol.disk)

LogTypeOK ==
    /\ vol.fp.sclust \in {0, DiskError} \cup Clusters /\ vol.last_clust \in {0, 1} \cup Clusters
    /\ vol.fp.fsize = vol.fp.fptr /\ vol.fp.fptr \in 0 .. N /\ vol.io <= MaxIO
    /\ \A i \in 1 .. Slots : vol.disk[DirSector][i] \in Entry
    /\ vol.wflag => vol.mounted /\ vol.winsect \in DOMAIN vol.disk

\* The chains of the files on the card share no cluster, and each is as long as
\* its file: whatever failed, and wherever in a call the power does.
ChainsSound ==
    LET dir == vol.disk[DirSector]
        chain(i) == ChainFrom(vol.disk, dir[i].clust, N)
        on(i) == {chain(i)[k] : k \in DOMAIN chain(i)}
    IN  \A i \in Entries(vol.disk) :
            /\ Len(ChainFrom(vol.disk, dir[i].clust, dir[i].size)) = dir[i].size
            /\ \A c \in on(i) : Fat(vol.disk, c) # 0
            /\ \A j \in Entries(vol.disk) \ {i} : dir[j].name # dir[i].name /\ on(i) \cap on(j) = {}

\* Only the records written to a name since it was begun are in its file, in
\* order, and a file loses what it has only when it is begun again.
Log == INSTANCE DayLog WITH
    files <- Files, wrote <- wrote, cur <- IF vol.fp.open THEN namebuffer ELSE None,
    Records <- {{d, e} : d \in Name, e \in Name}
ImplementsDayLog == Log!Spec

\* "write data ok": if no access failed, all that was written to the file is
\* there, unless the card is full.
OkIsStored ==
    [][stmt = "write" /\ stmt' = "loop" /\ res' = "OK" /\ ~hit' =>
        IF wrote' = wrote THEN \A c \in Clusters : Fat(vol'.disk, c) # 0
        ELSE Files'[namebuffer] = wrote'[namebuffer] /\ Last(Files'[namebuffer]) = databuf]_logvars

\* A file is begun again only after a restart, or when time was set, or stood
\* still over the last minute of a day while the task waited for the next.
NotTruncated == [][\A d \in Name : wrote[d] # <<>> /\ wrote'[d] = <<>> => d \in odd \/ stmt' = "boot"]_logvars

\* Records are in the file of their day, on the same condition.
RecordsOfTheirDay == stmt = "write" /\ vol.fp.open => databuf = {namebuffer} \/ namebuffer \in odd

Seen(t) == IF t.winsect = DirSector THEN t.win ELSE t.disk[DirSector]
Unopenable(dir, n) ==
    \/ \A i \in 1 .. Slots : dir[i].name \notin {None, n}
    \/ \E i \in 1 .. Slots : dir[i].name = n /\ dir[i].clust = DiskError

\* If no access fails, a file can be opened: unless the directory is full, the
\* card was taken out since the volume was mounted, or an error in the very
\* first write left the name a start cluster that is none.
OpenWorks ==
    [][~hit' /\ stmt \in {"boot", "open"} /\ stmt' \in {"loop", "fill"} =>
        vol'.fp.open \/ (vol.mounted /\ ~vol.awake) \/ Unopenable(Seen(vol), namebuffer')]_logvars

\* The volume can be mounted and read after any failure.
VolumeSound == LogTypeOK /\ ChainsSound

\* A day's file has the day's records, and keeps them.
DaysKept == []RecordsOfTheirDay /\ NotTruncated

\* A result FatFs returns is true, when no access failed.
ResultsHold == OkIsStored /\ OpenWorks
================================================================================
