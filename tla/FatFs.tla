--------------------------------- MODULE FatFs ---------------------------------
(* What taskMSD.c uses of FatFs (ff.c), over a card that is read and written   *)
(* by sectors (diskio.c): f_open with FA_CREATE_ALWAYS, f_write of one sector, *)
(* f_sync and f_close on a FAT16 volume with one sector to a cluster, one copy *)
(* of the FAT and a root directory of one sector. A state s is a record:       *)
(*   disk            the card: its sectors' contents                           *)
(*   awake           the card has been initialized since it was put in         *)
(*   mounted, win, winsect, wflag, last_clust      the FATFS object            *)
(*   fp              the FIL object                                            *)
(*   fault, io       the reads and writes of this call that fail, by number;   *)
(*                   how many there were                                       *)
(*   res, val        the FRESULT, and the other value a function returns       *)
(* The copies of the FAT and the free-cluster count, which nothing here reads, *)
(* and times and attributes of files are left out.                             *)
EXTENDS Naturals, Sequences, FiniteSets

CONSTANTS
    N,          \* number of clusters, 2 .. N + 1
    PerSector,  \* entries in a sector of the FAT
    Slots,      \* entries in the directory, 1 .. Slots
    Name, None

ASSUME FatFsAssumption ==
    N \in Nat \ {0} /\ PerSector \in Nat \ {0} /\ Slots \in Nat \ {0} /\ None \notin Name

Clusters == 2 .. N + 1
EOC == N + 2            \* 0xFFFF, and any number that is no cluster
DiskError == N + 3      \* 0xFFFFFFFF
FatSector(c) == <<"fat", c \div PerSector>>
DirSector == <<"dir", 0>>
DataSector(c) == <<"data", c>>
NoSector == <<"none", 0>>

Entry == [name : Name \cup {None}, clust : {0, DiskError} \cup Clusters, size : 0 .. N]
NoEntry == [name |-> None, clust |-> 0, size |-> 0]

Formatted ==
    [x \in {DirSector} \cup {FatSector(c) : c \in Clusters} \cup {DataSector(c) : c \in Clusters} |->
        CASE x = DirSector -> [i \in 1 .. Slots |-> NoEntry]
          [] x[1] = "fat" -> [c \in {d \in Clusters : FatSector(d) = x} |-> 0]
          [] x[1] = "data" -> None]

Closed == [open |-> FALSE, error |-> FALSE, written |-> FALSE, slot |-> 1,
           sclust |-> 0, clust |-> 0, fptr |-> 0, fsize |-> 0]

\* After f_mount: the volume is looked at when a file is first opened.
f_mount(s) == [s EXCEPT !.mounted = FALSE, !.win = None, !.winsect = NoSector, !.wflag = FALSE,
                        !.last_clust = 0, !.fp = Closed]

Yields(s, res) == [s EXCEPT !.res = res]
Ok(s) == s.res = "OK"

-----------------------------------------------------------------------------
(* diskio.c. disk_status always answers that the card is ready.               *)

Reaches(s) == s.awake /\ s.io \notin s.fault
Counted(s, res) == [s EXCEPT !.io = @ + 1, !.res = res]

disk_write(s, sect, data) ==
    IF Reaches(s) THEN [Counted(s, "OK") EXCEPT !.disk[sect] = data] ELSE Counted(s, "DISK_ERR")

\* A read that fails leaves the buffer as it was.
disk_read(s) == Counted(s, IF Reaches(s) THEN "OK" ELSE "DISK_ERR")

disk_initialize(s) ==
    IF s.io \notin s.fault THEN [Counted(s, "OK") EXCEPT !.awake = TRUE]
                                        ELSE Counted(s, "NOT_READY")

-----------------------------------------------------------------------------
(* The window on one sector, and the FAT.                                     *)

\* Mutant: the dirty window is dropped.
WriteBackNot(s) == [s EXCEPT !.wflag = FALSE, !.res = "OK"]

WriteBack(s) ==
    LET written(w) == IF Ok(w) THEN [w EXCEPT !.wflag = FALSE] ELSE w
    IN  IF s.wflag THEN written(disk_write(s, s.winsect, s.win)) ELSE Yields(s, "OK")

move_window(s, sector) ==
    LET read(r) == IF Ok(r) THEN [r EXCEPT !.win = r.disk[sector], !.winsect = sector] ELSE r
        left(w) == IF Ok(w) /\ sector # NoSector THEN read(disk_read(w)) ELSE w
    IN  IF s.winsect = sector THEN Yields(s, "OK") ELSE left(WriteBack(s))

get_fat(s, c) ==
    LET at(m) == [m EXCEPT !.val = IF Ok(m) THEN m.win[c] ELSE DiskError]
    IN  at(move_window(s, FatSector(c)))

put_fat(s, c, v) ==
    LET at(m) == IF Ok(m) THEN [m EXCEPT !.win[c] = v, !.wflag = TRUE] ELSE [m EXCEPT !.wflag = TRUE]
    IN  at(move_window(s, FatSector(c)))

\* One link is freed; c is the next, or none.
Unlink(r) ==
    LET cleared(p, next) == [t |-> p, c |-> IF Ok(p) THEN next ELSE 0]
        got(g) == CASE g.val = 0 -> [t |-> Yields(g, "OK"), c |-> 0]
                    [] g.val = DiskError -> [t |-> Yields(g, "DISK_ERR"), c |-> 0]
                    [] OTHER -> cleared(put_fat(g, r.c, 0), g.val)
    IN  IF r.c \in Clusters THEN got(get_fat(r.t, r.c)) ELSE r

\* The loop over the links: sound chains have N at most, and the turns left do nothing.
Freed(s, c) ==
    LET links[k \in 0 .. N + 1] == IF k = 0 THEN [t |-> s, c |-> c] ELSE Unlink(links[k - 1])
    IN  links[N + 1].t

remove_chain(s, c) == IF c \in Clusters THEN Freed(s, c) ELSE Yields(s, "INT_ERR")

\* Mutant: the next cluster is taken for free.
NextTaken(s, scl) ==
    LET n == IF scl + 1 \in Clusters THEN scl + 1 ELSE 2
    IN  [get_fat(s, n) EXCEPT !.val = IF @ = DiskError THEN @ ELSE n]

\* The search for a free cluster goes on to the next after ncl; past scl it is over.
Search(r, scl) ==
    LET n == IF r.ncl + 1 \in Clusters THEN r.ncl + 1 ELSE 2
        got(g) == [t |-> CASE g.val = 0 -> [g EXCEPT !.val = n]
                           [] g.val \notin {0, DiskError} /\ n = scl -> [g EXCEPT !.val = 0]
                           [] OTHER -> g,
                   ncl |-> n, on |-> g.val \notin {0, DiskError} /\ n # scl]
    IN  IF ~r.on THEN r
        ELSE IF n # r.ncl + 1 /\ n > scl THEN [r EXCEPT !.t.val = 0, !.on = FALSE]
        ELSE got(get_fat(r.t, n))

\* The free cluster next after scl, or before it: 0 if there is none.  The code's
\* loop has looked at every cluster after N turns.
NextFree(s, scl) ==
    LET found[k \in 0 .. N + 1] ==
            IF k = 0 THEN [t |-> s, ncl |-> scl, on |-> TRUE] ELSE Search(found[k - 1], scl)
    IN  found[N + 1].t

\* The new cluster is marked as the last link, then linked to its predecessor.
Linked(s, clst, ncl) ==
    LET marked(p) == IF Ok(p) /\ clst # 0 THEN put_fat(p, clst, ncl) ELSE p
    IN  marked(put_fat(s, ncl, EOC))

\* The new cluster, or the one that follows clst already, in val: 0 if the card
\* is full, 1 if clst is free. That clst could not be read is not noticed.
create_chain(s, clst) ==
    LET linked(p, ncl) == IF Ok(p) THEN [p EXCEPT !.val = ncl, !.last_clust = ncl]
                          ELSE [p EXCEPT !.val = DiskError]
        free(f) == IF f.val \in Clusters THEN linked(Linked(f, clst, f.val), f.val) ELSE f
        search(t, scl) == free(NextFree(t, scl))
        next(g) == IF g.val \in Clusters THEN g
                   ELSE IF g.val = 0 THEN [g EXCEPT !.val = 1]
                   ELSE search(g, clst)
    IN  IF clst # 0 THEN next(get_fat(s, clst))
        ELSE search(s, IF s.last_clust \in Clusters THEN s.last_clust ELSE 1)

-----------------------------------------------------------------------------
(* The calls.                                                                 *)

\* A volume that was mounted once is not looked at again: disk_status never
\* says that the card has changed.
chk_mounted(s) ==
    LET boot(r) ==
            IF Ok(r) THEN [r EXCEPT !.mounted = TRUE, !.winsect = NoSector, !.wflag = FALSE, !.last_clust = 0]
            ELSE r
        begun(i) == IF Ok(i) THEN boot(disk_read(i)) ELSE i
    IN  IF s.mounted THEN Yields(s, "OK") ELSE begun(disk_initialize([s EXCEPT !.mounted = FALSE]))

\* The entry of a name, or the first blank one (dir_find, dir_register).
SlotOf(dir, name) ==
    LET its(n) == {i \in 1 .. Slots : dir[i].name = n}
        first(S) == CHOOSE i \in S : \A j \in S : i <= j
    IN  IF its(name) # {} THEN first(its(name))
        ELSE IF its(None) # {} THEN first(its(None)) ELSE 0

\* Mutant: the chain is freed before the entry lets go of it.
EntryLast(s, slot, name) ==
    LET cl == s.win[slot].clust
        let(m) == [m EXCEPT !.win[slot] = [name |-> name, clust |-> 0, size |-> 0], !.wflag = TRUE]
        back(m) == IF Ok(m) THEN let([m EXCEPT !.last_clust = cl - 1]) ELSE m
        freed(r) == IF Ok(r) THEN back(move_window(r, DirSector)) ELSE r
    IN  IF cl = 0 THEN let(s) ELSE freed(remove_chain(s, cl))

\* The entry is emptied in the window; then its chain is freed.
Emptied(s, slot, name) ==
    LET cl == s.win[slot].clust
        freed(r) == IF Ok(r) THEN move_window([r EXCEPT !.last_clust = cl - 1], DirSector) ELSE r
        let(e) == IF cl = 0 THEN e ELSE freed(remove_chain(e, cl))
    IN  let([s EXCEPT !.win[slot] = [name |-> name, clust |-> 0, size |-> 0], !.wflag = TRUE])

Opened(slot) == [Closed EXCEPT !.open = TRUE, !.written = TRUE, !.slot = slot]

\* With FA_CREATE_ALWAYS | FA_WRITE.
f_open(s, name) ==
    LET emptied(t, slot) == IF Ok(t) THEN [t EXCEPT !.fp = Opened(slot)] ELSE t
        found(d, slot) == IF slot = 0 THEN Yields(d, "NO_FILE") ELSE emptied(Emptied(d, slot, name), slot)
        dir(d) == IF Ok(d) THEN found(d, SlotOf(d.win, name)) ELSE d
        ready(m) == IF Ok(m) THEN dir(move_window(m, DirSector)) ELSE m
    IN  ready(chk_mounted([s EXCEPT !.fp = Closed]))

Abort(s, res) == [s EXCEPT !.fp.error = TRUE, !.res = res]

\* Of one sector. The start cluster is assigned before it is looked at.
f_write(s, data) ==
    LET first == s.fp.fptr = 0
        wrote(w) ==
            IF Ok(w) THEN [w EXCEPT !.fp.written = TRUE, !.fp.fptr = @ + 1, !.fp.fsize = s.fp.fptr + 1]
            ELSE Abort(w, "DISK_ERR")
        to(a) == CASE a.val = 0 -> Yields([a EXCEPT !.fp.written = TRUE], "OK")    \* full: *bw = 0
                   [] a.val = 1 -> Abort(a, "INT_ERR")
                   [] a.val = DiskError -> Abort(a, "DISK_ERR")
                   [] OTHER -> wrote(disk_write([a EXCEPT !.fp.clust = a.val], DataSector(a.val), data))
        chained(c) == to(IF first THEN [c EXCEPT !.fp.sclust = c.val] ELSE c)
    IN  CASE ~s.fp.open -> Yields(s, "INVALID_OBJECT")
          [] s.fp.open /\ s.fp.error -> Yields(s, "INT_ERR")
          [] OTHER -> chained(IF first /\ s.fp.sclust # 0 THEN [s EXCEPT !.val = s.fp.sclust]
                              ELSE create_chain(s, IF first THEN 0 ELSE s.fp.clust))

f_sync(s) ==
    LET entry(m) == [m EXCEPT !.win[s.fp.slot] = [@ EXCEPT !.clust = s.fp.sclust, !.size = s.fp.fsize],
                              !.fp.written = FALSE, !.wflag = TRUE]
        at(m) == IF Ok(m) THEN move_window(entry(m), NoSector) ELSE m
    IN  CASE ~s.fp.open -> Yields(s, "INVALID_OBJECT")
          [] s.fp.open /\ ~s.fp.written -> Yields(s, "OK")
          [] OTHER -> at(move_window(s, DirSector))

f_close(s) == LET synced(y) == IF Ok(y) THEN [y EXCEPT !.fp = Closed] ELSE y
              IN  synced(f_sync(s))

-----------------------------------------------------------------------------
(* What can be read from a card.                                              *)

Fat(disk, c) == disk[FatSector(c)][c]

\* The first n clusters of the chain from c on, for as long as it has clusters.
ChainFrom(disk, c, n) ==
    LET after(d) == IF d \in Clusters THEN Fat(disk, d) ELSE 0
        link[k \in 1 .. n] == IF k = 1 THEN c ELSE after(link[k - 1])
    IN  [k \in {j \in 1 .. n : link[j] \in Clusters} |-> link[k]]

Entries(disk) == {i \in 1 .. Slots : disk[DirSector][i].name # None}

\* The contents of each file, <<>> for one that is not there.
FilesOn(disk) ==
    [n \in Name |->
        LET its == {i \in Entries(disk) : disk[DirSector][i].name = n}
            e   == disk[DirSector][CHOOSE i \in its : TRUE]
            ch  == ChainFrom(disk, e.clust, e.size)
        IN  IF its = {} THEN <<>> ELSE [k \in DOMAIN ch |-> disk[DataSector(ch[k])]]]
================================================================================
