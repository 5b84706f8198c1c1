----------------------------- MODULE Namespace -----------------------------
(***************************************************************************)
(* What the directory calls promise: a volume holds entries, each with a   *)
(* directory, a name and a node; a directory has no two entries of the     *)
(* same name, where upper and lower case are the same.  Calls make one     *)
(* entry, drop one, or rename one.  One thing the calls do is not what a   *)
(* user would want and is spelled out as Lose: a rename onto a name that   *)
(* is taken fails, and takes the entry out of the volume all the same.     *)
(***************************************************************************)
CONSTANTS Nodes, Root, Names, Fold

VARIABLE entries

Entries == [dir : Nodes, name : Names, node : Nodes, kind : {"dir", "file", "link"}]

Directories == {Root} \cup {e.node : e \in {x \in entries : x.kind = "dir"}}

Named(d, n) == {e \in entries : e.dir = d /\ Fold[e.name] = Fold[n]}

\* e and everything that is in it, directly or in directories below it: what is
\* in every set of nodes that holds e's and, with a directory, its entries.
Holding(node) ==
    {S \in SUBSET Nodes : node \in S /\ \A y \in entries : y.dir \in S => y.node \in S}
Within(e) == {x \in entries : \A S \in Holding(e.node) : x.node \in S}

Init == entries = {}

Make(d, n, node, kind) ==
    /\ d \in Directories
    /\ kind # "link"
    /\ Named(d, n) = {}
    /\ node \notin {Root} \cup {e.node : e \in entries}
    /\ entries' = entries \cup {[dir |-> d, name |-> n, node |-> node, kind |-> kind]}

Drop(e) ==
    /\ \A x \in entries : x.dir # e.node
    /\ entries' = entries \ {e}

Rename(e, d, n) ==
    /\ d \in Directories
    /\ d \notin {x.node : x \in Within(e)}
    /\ Named(d, n) \subseteq {e}
    /\ entries' = (entries \ {e}) \cup {[dir |-> d, name |-> n, node |-> e.node, kind |-> e.kind]}

Lose(e, d, n) ==
    /\ Named(d, n) \ {e} # {}
    /\ entries' = entries \ Within(e)

\* The entries a step takes away and adds are the ones its action names.
Next ==
    /\ entries' # entries
    /\ \/ \E f \in entries' \ entries : Make(f.dir, f.name, f.node, f.kind)
       \/ \E e \in entries \ entries' :
             \/ Drop(e)
             \/ \E f \in entries' \ entries : Rename(e, f.dir, f.name)
             \/ \E d \in Directories, n \in Names : Lose(e, d, n)

Spec == Init /\ [][Next]_entries

\* No two entries of a directory have the same name, and no node is in two
\* places.
Unique ==
    \A e, f \in entries :
        (e.dir = f.dir /\ Fold[e.name] = Fold[f.name]) \/ e.node = f.node => e = f
============================================================================
