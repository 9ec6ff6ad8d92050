---------------------------- MODULE FileSysSpec ----------------------------
(***************************************************************************)
(* What the file system promises to the file server: files are named       *)
(* sequences of blocks, a request changes the file it names and no other,  *)
(* and a crash undoes nothing of a file whose last changes were saved.     *)
(* A block that nobody wrote is a Hole; the first request to look at it    *)
(* may find anything there.                                                *)
(***************************************************************************)
EXTENDS Naturals, Sequences

CONSTANTS Name, Hole, NoFile

VARIABLES
    file,       \* what each name stands for: a sequence of blocks, or NoFile
    saved       \* what it will stand for if the machine stops now

Clean(n) == saved[n] = file[n]

Others(n) == \A m \in Name \ {n} :
               file'[m] = file[m] /\ (Clean(m) => saved'[m] = saved[m])

Resized(f, k) == [i \in 1..k |-> IF i \in DOMAIN f THEN f[i] ELSE Hole]
Longer(f, k)  == IF k > Len(f) THEN Resized(f, k) ELSE f

Init == saved = file

Create(n) ==
    /\ file[n] = NoFile
    /\ file'[n] = <<>>
    /\ saved'[n] = <<>>

Resize(n) ==
    /\ file[n] # NoFile /\ file'[n] # NoFile
    /\ \E k \in {Len(file'[n])} :
         /\ file'[n] = Resized(file[n], k)
         /\ Len(saved'[n]) = k
    /\ (Clean(n) => saved'[n] = file'[n])

Write(n) ==
    /\ file[n] # NoFile /\ file'[n] # NoFile
    /\ \E i \in DOMAIN file'[n] :
         file'[n] = [Longer(file[n], i) EXCEPT ![i] = file'[n][i]]

Read(n) ==
    /\ file[n] # NoFile /\ file'[n] # NoFile
    /\ \E i \in DOMAIN file[n] \cap DOMAIN file'[n] :
         /\ file[n][i] = Hole
         /\ file'[n] = [file[n] EXCEPT ![i] = file'[n][i]]

(* Files reach the disk when they are flushed, or with a neighbour. *)
Save ==
    /\ file' = file
    /\ \A n \in Name : Clean(n) => saved'[n] = saved[n]

(* The machine stops in the middle of a request for n, or between two. *)
Crash(n) ==
    /\ file' = saved'
    /\ \A m \in Name \ {n} : Clean(m) => file'[m] = file[m]
    /\ \A m \in Name : saved[m] # NoFile => file'[m] # NoFile

Next == \/ Save
        \/ \E n \in Name :
             \/ Others(n) /\ (Create(n) \/ Resize(n) \/ Write(n) \/ Read(n))
             \/ Crash(n)

Spec == Init /\ [][Next]_<<file, saved>>
=============================================================================
