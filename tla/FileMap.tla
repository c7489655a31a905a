------------------------------ MODULE FileMap -------------------------------
(***************************************************************************)
(* What the allocator promises: every file is a sequence of blocks, a hole *)
(* (0) or a block no other position of any file has.  A file grows at its  *)
(* end, a hole is filled in place, a file is cut at its end, and nothing   *)
(* else ever changes the block a position has.  A change of one file from  *)
(* old to now, when the blocks in owned are some file's, is one of:        *)
(***************************************************************************)
EXTENDS Integers, Sequences

CONSTANTS Inodes, Blocks

VARIABLE map                    \* i-node -> its sequence of blocks, or Absent

Absent == <<-1>>

Created(old, now, owned) ==     \* empty, or a link with its target's block
  /\ old = Absent
  /\ now = <<>> \/ (Len(now) = 1 /\ now[1] \in Blocks \ owned)

Deleted(old, now) == old # Absent /\ now = Absent

Cut(old, now) ==
  /\ {old, now} \cap {Absent} = {}
  /\ Len(now) < Len(old)
  /\ now = SubSeq(old, 1, Len(now))

(* Holes are filled and blocks added at the end, all of them unowned and distinct. *)
Written(old, now, owned) ==
  LET new == {k \in DOMAIN now : k > Len(old) \/ now[k] # old[k]}
  IN  /\ {old, now} \cap {Absent} = {}
      /\ Len(now) >= Len(old)
      /\ \A k \in new : /\ k <= Len(old) => old[k] = 0
                        /\ now[k] \in Blocks \ owned
                        /\ \A m \in new \ {k} : now[m] # now[k]

Step(before, after) ==
  LET owned == UNION {{before[i][k] : k \in DOMAIN before[i]} : i \in Inodes}
  IN  \E i \in Inodes :
        /\ \A j \in Inodes \ {i} : after[j] = before[j]
        /\ \/ Created(before[i], after[i], owned)
           \/ Deleted(before[i], after[i])
           \/ Cut(before[i], after[i])
           \/ Written(before[i], after[i], owned)

MapInit == map \in [Inodes -> {Absent} \cup {<<>>, <<0>>, <<0, 0>>}]

MapNext == LET before == map
               after  == map'
           IN  Step(before, after)

MapSpec == MapInit /\ [][MapNext]_map
=============================================================================
