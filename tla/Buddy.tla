------------------------------- MODULE Buddy -------------------------------
(* The page allocator of kernel/mm/buddy.c behind kalloc() and kfree().      *)
(*                                                                           *)
(* Memory is a range of page numbers.  A block is an address and an order;   *)
(* its header (magic, order and the two links) lies in its first page and    *)
(* the allocator finds a buddy by reading the header at the computed         *)
(* address, whatever lies there.  A free list is the set of its blocks: the  *)
(* code takes the block at the tail, the model any block of the list.        *)
(* Callers are taken not to store BUDDY_MAGIC at the start of a page, and    *)
(* memory outside the managed range never holds it.                          *)
(*                                                                           *)
(* No lock protects the zone.  Preempt says whether a caller can be          *)
(* preempted inside the allocator (system calls on RISC-V) or not            *)
(* (LoongArch).  Definitions ending in _bug are slips that no specification  *)
(* uses.                                                                     *)
EXTENDS Integers, FiniteSets

CONSTANTS MAX_ORDER,     \* number of orders
          BLOCK_NPAGES,  \* pages of a block of each order
          PageBase,      \* first managed page
          PageEnds,      \* possible values of the first page after the range
          THREADS,       \* callers of the allocator
          Requests,      \* sizes asked for, in pages
          MaxHeld,       \* bound: blocks allocated at one time
          Preempt        \* TRUE: a caller may be preempted in the allocator

Orders == 0 .. MAX_ORDER - 1

ASSUME BuddyAssumption ==
  /\ MAX_ORDER \in Nat \ {0}
  /\ BLOCK_NPAGES \in [0 .. MAX_ORDER -> Nat \ {0}]
  /\ BLOCK_NPAGES[0] = 1
  /\ \A k \in Orders : BLOCK_NPAGES[k + 1] = 2 * BLOCK_NPAGES[k]
  /\ PageBase \in Nat
  /\ PageEnds \subseteq Nat
  /\ \A e \in PageEnds : PageBase <= e
  /\ "free" \notin THREADS /\ "carried" \notin THREADS
  /\ Requests \subseteq Nat \ {0}
  /\ MaxHeld \in Nat
  /\ Preempt \in BOOLEAN

VARIABLES
  phase,    \* "init", "ready", "assert" (failed), "oom" (panic) or "wild"
  pageEnd,  \* end of the managed range
  fill,     \* buddy_init: next page to hand to a free list
  todo,     \* buddy_init: blocks of each order still to add
  free,     \* zone.free_area[k].free_list
  nr_free,  \* zone.free_area[k].nr_free
  magic,    \* header at a page: magic = BUDDY_MAGIC
  hord,     \* header at a page: order
  porder,   \* pages[].order
  held,     \* blocks the callers own: <<address, order, caller>>
  op        \* what each caller does in the allocator

vars == <<phase, pageEnd, fill, todo, free, nr_free, magic, hord, porder,
          held, op>>
initVars == <<pageEnd, fill, todo>>

Pages == PageBase .. pageEnd - 1
Span(c) == c[1] .. c[1] + BLOCK_NPAGES[c[2]] - 1

Idle == [pc |-> "idle", addr |-> 0, at |-> 0, order |-> 0]

-----------------------------------------------------------------------------
(* The macros of buddy.h: addr ^ size and addr & ~size.                      *)
LowHalf(addr, k) == (addr \div BLOCK_NPAGES[k]) % 2 = 0
BUDDY_BLOCK(addr, k) == IF LowHalf(addr, k) THEN addr + BLOCK_NPAGES[k]
                                            ELSE addr - BLOCK_NPAGES[k]
BUDDY_LOW_bug(addr, k) == addr
BUDDY_LOW(addr, k) == IF LowHalf(addr, k) THEN addr
                                          ELSE addr - BLOCK_NPAGES[k]

(* The least order whose blocks have n pages; MAX_ORDER stands for any order *)
(* that free_area does not have.                                             *)
get_order(n) ==
  IF \A k \in Orders : BLOCK_NPAGES[k] < n
  THEN MAX_ORDER
  ELSE CHOOSE k \in Orders : /\ n <= BLOCK_NPAGES[k]
                             /\ \A j \in 0 .. k - 1 : BLOCK_NPAGES[j] < n

(* Linking a block into a list: only add_last marks the header.              *)
Link(addr, k) ==
  /\ free' = [free EXCEPT ![k] = @ \cup {addr}]
  /\ nr_free' = [nr_free EXCEPT ![k] = @ + 1]
  /\ hord' = [hord EXCEPT ![addr] = k]

add_first(addr, k) == Link(addr, k) /\ UNCHANGED magic

add_last(addr, k) == Link(addr, k) /\ magic' = [magic EXCEPT ![addr] = TRUE]

(* Unlinking a block decrements the counter of the order its header names    *)
(* and clears the header; an order of -1 is a counter outside the zone.      *)
Cleared_bug(addr) == magic
Cleared(addr) == [magic EXCEPT ![addr] = FALSE]

remove(addr) ==
  /\ free' = [k \in Orders |-> free[k] \ {addr}]
  /\ nr_free' = [k \in Orders |->
                   nr_free[k] - (IF hord[addr] = k THEN 1 ELSE 0)]
  /\ hord' = [hord EXCEPT ![addr] = -1]
  /\ magic' = Cleared(addr)

-----------------------------------------------------------------------------
(* buddy_init: one square of MAX_ORDER areas of equal size when the range is *)
(* larger than that, the rest in as large blocks as possible.                *)
InitSquare_bug(n) == n >= BLOCK_NPAGES[MAX_ORDER - 1]
InitSquare(n) == n > MAX_ORDER * BLOCK_NPAGES[MAX_ORDER - 1]

InitCount(n, k) ==
  LET rest == IF InitSquare(n) THEN n - MAX_ORDER * BLOCK_NPAGES[MAX_ORDER - 1]
                               ELSE n
      part == rest \div BLOCK_NPAGES[k]
  IN  (IF InitSquare(n) THEN BLOCK_NPAGES[MAX_ORDER - 1 - k] ELSE 0)
        + (IF k = MAX_ORDER - 1 THEN part ELSE part % 2)

Init ==
  /\ phase = "init"
  /\ pageEnd \in PageEnds
  /\ fill = PageBase
  /\ todo = [k \in Orders |-> InitCount(pageEnd - PageBase, k)]
  /\ free = [k \in Orders |-> {}]
  /\ nr_free = [k \in Orders |-> 0]
  /\ magic = [p \in Pages |-> FALSE]
  /\ hord = [p \in Pages |-> 0]
  /\ porder = [p \in Pages |-> 0]
  /\ held = {}
  /\ op = [t \in THREADS |-> Idle]

(* One turn of the loop that hands the range to the lists, smallest blocks   *)
(* first; a block past the end is what the assertion on npages_copy excludes. *)
InitBlock(k) ==
  /\ phase = "init"
  /\ todo[k] > 0
  /\ \A j \in 0 .. k - 1 : todo[j] = 0
  /\ IF fill + BLOCK_NPAGES[k] > pageEnd
     THEN /\ phase' = "assert"
          /\ UNCHANGED <<fill, todo, free, nr_free, hord, magic>>
     ELSE /\ add_last(fill, k)
          /\ fill' = fill + BLOCK_NPAGES[k]
          /\ todo' = [todo EXCEPT ![k] = @ - 1]
          /\ UNCHANGED phase
  /\ UNCHANGED <<pageEnd, porder, held, op>>

InitDone ==
  /\ phase = "init"
  /\ \A k \in Orders : todo[k] = 0
  /\ phase' = IF fill = pageEnd THEN "ready" ELSE "assert"
  /\ UNCHANGED <<initVars, free, nr_free, magic, hord, porder, held, op>>

-----------------------------------------------------------------------------
(* A caller enters the allocator between two operations of the others, or,   *)
(* where system calls are preempted, in the middle of one.                   *)
MayEnter(t) ==
  /\ phase = "ready"
  /\ op[t] = Idle
  /\ Preempt \/ \A u \in THREADS : op[u] = Idle

(* buddy_alloc and require up to the choice of the block: the first order    *)
(* from the one asked for that has a free block.                             *)
AllocPick(t, n) ==
  LET order == get_order(n) IN
  /\ MayEnter(t)
  /\ Cardinality(held) < MaxHeld
  /\ order \in Orders
  /\ \E i \in order .. MAX_ORDER - 1 :
       /\ nr_free[i] # 0
       /\ \A j \in order .. i - 1 : nr_free[j] = 0
       /\ \E b \in free[i] :
            op' = [op EXCEPT ![t] = [pc |-> "remove", addr |-> b, at |-> i,
                                     order |-> order]]
  /\ UNCHANGED <<phase, initVars, free, nr_free, magic, hord, porder, held>>

(* No order has a free block: TODO(), that is a panic.                       *)
AllocFail(t, n) ==
  /\ MayEnter(t)
  /\ Cardinality(held) < MaxHeld
  /\ get_order(n) \in Orders
  /\ \A i \in get_order(n) .. MAX_ORDER - 1 : nr_free[i] = 0
  /\ phase' = "oom"
  /\ UNCHANGED <<initVars, free, nr_free, magic, hord, porder, held, op>>

(* More than the largest block is asked for: free_area is read past its end. *)
AllocHuge(t, n) ==
  /\ MayEnter(t)
  /\ get_order(n) = MAX_ORDER
  /\ phase' = "wild"
  /\ UNCHANGED <<initVars, free, nr_free, magic, hord, porder, held, op>>

(* The block is handed out: SET_PAGE_ORDER and return.                       *)
PageOrderOf(addr, order) == [porder EXCEPT ![addr] = order]

Return(t, addr, order) ==
  /\ porder' = PageOrderOf(addr, order)
  /\ held' = held \cup {<<addr, order, t>>}
  /\ op' = [op EXCEPT ![t] = Idle]

(* remove() of the chosen block, of the order asked for or larger.           *)
AllocRemove(t) ==
  LET o == op[t] IN
  /\ phase = "ready"
  /\ o.pc = "remove"
  /\ remove(o.addr)
  /\ IF o.at = o.order
     THEN Return(t, o.addr, o.order)
     ELSE /\ op' = [op EXCEPT ![t] = [o EXCEPT !.pc = "split", !.at = o.at - 1]]
          /\ UNCHANGED <<porder, held>>
  /\ UNCHANGED <<phase, initVars>>

(* One turn of require's splitting loop: the lower half becomes free, the    *)
(* upper half is split further or returned.                                  *)
SplitStep(t) ==
  LET o == op[t]
      up == o.addr + BLOCK_NPAGES[o.at]
  IN
  /\ phase = "ready"
  /\ o.pc = "split"
  /\ add_first(o.addr, o.at)
  /\ IF o.at = o.order
     THEN Return(t, up, o.order)
     ELSE /\ op' = [op EXCEPT ![t] = [o EXCEPT !.addr = up, !.at = o.at - 1]]
          /\ UNCHANGED <<porder, held>>
  /\ UNCHANGED <<phase, initVars>>

(* kfree: the order is the one recorded for the page.                        *)
Free(t, c) ==
  /\ MayEnter(t)
  /\ c \in held
  /\ c[3] = t
  /\ held' = held \ {c}
  /\ porder' = [porder EXCEPT ![c[1]] = 0]
  /\ op' = [op EXCEPT ![t] = [pc |-> "coalesce", addr |-> c[1], at |-> 0,
                              order |-> porder[c[1]]]]
  /\ UNCHANGED <<phase, initVars, free, nr_free, magic, hord>>

(* buddy_free_helper's test of the header at the buddy's address.            *)
Merges(addr, k) ==
  LET b == BUDDY_BLOCK(addr, k) IN
  k < MAX_ORDER - 1 /\ b \in Pages /\ magic[b] /\ hord[b] = k

(* One call of buddy_free_helper: merge with the buddy and recur, or link.   *)
Coalesce(t) ==
  LET o == op[t] IN
  /\ phase = "ready"
  /\ o.pc = "coalesce"
  /\ IF Merges(o.addr, o.order)
     THEN /\ remove(BUDDY_BLOCK(o.addr, o.order))
          /\ op' = [op EXCEPT ![t] = [o EXCEPT !.addr = BUDDY_LOW(o.addr, o.order),
                                               !.order = o.order + 1]]
     ELSE /\ add_last(o.addr, o.order)
          /\ op' = [op EXCEPT ![t] = Idle]
  /\ UNCHANGED <<phase, initVars, porder, held>>

Next ==
  \/ \E k \in Orders : InitBlock(k)
  \/ InitDone
  \/ \E t \in THREADS :
       \/ \E n \in Requests : AllocPick(t, n) \/ AllocFail(t, n) \/ AllocHuge(t, n)
       \/ AllocRemove(t)
       \/ SplitStep(t)
       \/ \E c \in held : Free(t, c)
       \/ Coalesce(t)

Spec == Init /\ [][Next]_vars


-----------------------------------------------------------------------------
(* Claims on the pages: free blocks, blocks a caller owns, and the block an  *)
(* operation has taken off a list and not yet placed.                        *)
FreeClaims(f) == UNION {{<<a, k, "free">> : a \in f[k]} : k \in Orders}
Carried(o) == {<<o[t].addr, o[t].at + 1, "carried">> :
                 t \in {u \in THREADS : o[u].pc = "split"}}
         \cup {<<o[t].addr, o[t].order, "carried">> :
                 t \in {u \in THREADS : o[u].pc = "coalesce"}}
Claims == FreeClaims(free) \cup held \cup Carried(op)

(* Every claim lies in P, every page of P is claimed, by one claim only.     *)
Exact(S, P) ==
  /\ \A c \in S : \A x \in Span(c) : x \in P
  /\ \A x \in P : \E c \in S : x \in Span(c)
  /\ \A c, d \in S : \A x \in Span(c) : x \in Span(d) => c = d

OpType == [pc : {"idle", "remove", "split", "coalesce"}, addr : Nat,
           at : Orders, order : Orders]

(* The type of the allocator's state.                                        *)
TypeOK ==
  /\ phase \in {"init", "ready", "assert", "oom", "wild"}
  /\ pageEnd \in PageEnds
  /\ fill \in PageBase .. pageEnd
  /\ todo \in [Orders -> Nat]
  /\ free \in [Orders -> SUBSET Pages]
  /\ nr_free \in [Orders -> Nat]
  /\ magic \in [Pages -> BOOLEAN]
  /\ hord \in [Pages -> Orders \cup {-1}]
  /\ porder \in [Pages -> Orders]
  /\ held \subseteq Pages \X Orders \X THREADS
  /\ op \in [THREADS -> OpType]

(* No page is handed out twice and none is lost: at every step of buddy_init, *)
(* of the splitting loop of require() and of the merging recursion of        *)
(* buddy_free_helper(), the free blocks, the callers' blocks and the block   *)
(* in transit cover the pages placed so far exactly once.                    *)
Partition == Exact(Claims, PageBase .. fill - 1)

(* buddy_free_helper() trusts whatever lies at the buddy's address: a header *)
(* that carries the magic number is that of a block on the list of the order *)
(* it names, never a stale one inside a free or an allocated block.          *)
HeaderTrusted == \A p \in Pages : magic[p] => hord[p] \in Orders /\ p \in free[hord[p]]

(* nr_free, which decides whether buddy_alloc() and require() dereference    *)
(* free_list.prev, is the length of the list: the list head itself is never  *)
(* taken for a block.                                                        *)
NrFreeExact == \A k \in Orders : nr_free[k] = Cardinality(free[k])

(* kfree() finds in pages[].order the order the block was allocated with     *)
(* ("释放由 kalloc 分配的空间，大小由 kfree 自行判定").                         *)
PageOrderKept == \A c \in held : porder[c[1]] = c[2]

(* The assertions that end buddy_init(), npages_copy == 0 and s == e, hold   *)
(* for every size and alignment of the range.                                *)
InitAsserts == phase # "assert"

(* What two callers own does not overlap (mm.h:25, kalloc() returns space of *)
(* the size asked for): a caller preempted between the choice of a block and *)
(* its removal leaves the block to be chosen again.                          *)
HeldDisjoint == \A c, d \in held : c # d => Span(c) \cap Span(d) = {}
=============================================================================
