--------------------------------- MODULE DayLog ---------------------------------
(* What the logger promises of the card: a file for each day, to which the     *)
(* records written since it was begun are added in order; and nothing else     *)
(* happens to any file, whatever fails and whenever the power does.            *)
EXTENDS Naturals, Sequences, SequencesExt

CONSTANTS Name, Records, None

VARIABLES
    files,      \* what is stored under each name
    wrote,      \* what is there or on its way: written since the name was begun
    cur         \* the name in use, or None
vars == <<files, wrote, cur>>

Init == /\ files = [n \in Name |-> <<>>] /\ wrote = files
        /\ cur = None

\* What is stored under a name stays, or is followed by more of what was
\* written; or it is of before the name was begun, and now replaced.
Stores == \A n \in Name :
    files'[n] # files[n] =>
        /\ IsPrefix(files'[n], wrote'[n])
        /\ IsPrefix(files[n], wrote[n]) /\ wrote'[n] # <<>> => IsPrefix(files[n], files'[n])

Begin(n) == /\ wrote' = [wrote EXCEPT ![n] = <<>>]
            /\ cur' \in {n, None} /\ Stores
Write(r) == /\ cur # None
            /\ wrote' \in {wrote, [wrote EXCEPT ![cur] = Append(@, r)]}
            /\ UNCHANGED cur /\ Stores
End == cur' = None /\ UNCHANGED wrote /\ Stores
PowerFails == cur' = None /\ wrote' = files /\ UNCHANGED files

Next == End \/ PowerFails \/ (\E n \in Name : Begin(n)) \/ (\E r \in Records : Write(r))
Spec == Init /\ [][Next]_vars
================================================================================
