------------------------------- MODULE MCXattr -------------------------------
(***************************************************************************)
(* A block with room for three short attributes and an i-node body with    *)
(* room for two.  Volumes: one new i-node with and without extra space,    *)
(* and two i-nodes that share a block, as Linux leaves them.               *)
(***************************************************************************)
EXTENDS Xattr

Behind(name, len) == [name |-> name, len |-> len]
MCTails ==
  [f \in {"user.a", "user.long", "system.posix_acl_access", "system.richacl", "user."} |->
     CASE f = "user.a"    -> [p \in {"user."} |-> Behind("a", 1)]
       [] f = "user.long" -> [p \in {"user."} |-> Behind("long", 4)]
       [] f = "user."     -> [p \in {"user."} |-> Behind("", 0)]
       [] f = "system.richacl" -> [p \in {"system.", f} |->
                      IF p = "system." THEN Behind("richacl", 7) ELSE Behind("", 0)]
       [] OTHER -> [p \in {"system.", "system.posix_acl_access"} |->
                      IF p = "system." THEN Behind("posix_acl_access", 16) ELSE Behind("", 0)]]

V(id, len) == [id |-> id, len |-> len]
MCValues == {V("e", 0), V("s", 3), V("m", 11), V("x", 60)}
MCWrites == <<MCValues, {}>>           \* the second i-node only loses attributes

OneInode(extra) ==
  [ino |-> [i \in {1} |-> FreshInode(extra)],
   blk |-> [b \in Blocks |-> FREE]]

SharedBlock ==
  LET A1 == SetEntry(BlockInitialize, BlockSearch, Info("user.a", V("s", 3))).A
      A2 == SetEntry(Rehash(A1), BlockSearch, Info("user.long", V("m", 11))).A
      A  == [Rehash(ComputeHash(A2, 2)) EXCEPT !.ref = 2]
  IN  [ino |-> [i \in {1, 2} |-> [FreshInode(FALSE) EXCEPT !.acl = 1]],
       blk |-> [b \in Blocks |-> IF b = 1 THEN A ELSE FREE]]

MCImages == {OneInode(TRUE), OneInode(FALSE), SharedBlock}
=============================================================================
