---------------------------- MODULE CodeService -----------------------------
(***************************************************************************)
(* What the code pool promises its callers, without free lists, islands or *)
(* branches: memory that has one owner at a time, and functions that lead  *)
(* where they were last sent.  CodePool implements it.  The second promise *)
(* holds while callers keep to their own blocks: a caller that stores into *)
(* one of the pool's leads astray functions of others.                     *)
(***************************************************************************)
EXTENDS Integers

CONSTANTS
  Regions,  \* the regions code can live in
  First,    \* First[r]: the first address of region r
  Size      \* Size[r]: its length

VARIABLES
  open,    \* the regions in use
  blocks,  \* the blocks handed out, of any open region
  pinned,  \* those the pool keeps for itself
  routes,  \* where a detoured function leads (partial function)
  kept,    \* kept[b]: what a caller has backed up in buffer b
  sound    \* whether callers have kept to their own blocks

vars == <<open, blocks, pinned, routes, kept, sound>>

End(b) == b.address + b.size
In(x, b) == b.address <= x /\ x < End(b)

\* Block b lies in an open region, apart from all blocks in B.
Fits(b, B) ==
  /\ b.size > 0
  /\ \E r \in open : First[r] <= b.address /\ End(b) <= First[r] + Size[r]
  /\ \A c \in B : End(b) <= c.address \/ End(c) <= b.address

\* The functions that callers may write and detour are in blocks of theirs.
Callers(x) == \E b \in blocks \ pinned : In(x, b)

Empty == [x \in {} |-> 0]
Set(f, x, S) == [y \in (DOMAIN f \ {x}) \cup {z \in {x} : S # {}} |->
                   IF y = x THEN CHOOSE v \in S : TRUE ELSE f[y]]

-----------------------------------------------------------------------------
Init == /\ open = {} /\ blocks = {} /\ pinned = {}
        /\ routes = Empty /\ kept = Empty /\ sound = TRUE

Open ==
  /\ open \subseteq open'
  /\ UNCHANGED <<blocks, pinned, routes, kept, sound>>

\* A block is handed out blank: no route of an earlier owner shows in it.
Take ==
  /\ \E b \in blocks' : b \notin blocks /\ Fits(b, blocks) /\ blocks' = blocks \cup {b}
  /\ UNCHANGED <<open, pinned, routes, kept, sound>>

\* A caller gives back a block of its own, and the functions in it are gone.
Give ==
  /\ \E b \in blocks \ pinned :
       /\ blocks' = blocks \ {b}
       /\ routes' = [x \in {y \in DOMAIN routes : ~In(y, b)} |-> routes[x]]
  /\ UNCHANGED <<open, pinned, kept, sound>>

\* Code is written over some functions of one block.
Write ==
  /\ \E b \in blocks \ pinned, X \in {DOMAIN routes \ DOMAIN routes'} :
       /\ \A x \in X : In(x, b)
       /\ routes' = [x \in DOMAIN routes \ X |-> routes[x]]
  /\ UNCHANGED <<open, blocks, pinned, kept, sound>>

\* The pool takes a block for itself.
Reserve == \E b \in blocks' : /\ b \notin blocks
                              /\ Fits(b, blocks)
                              /\ blocks' = blocks \cup {b}
                              /\ pinned' = pinned \cup {b}

\* One function is sent elsewhere.
Redirect ==
  /\ \E x \in DOMAIN routes' : Callers(x) /\ routes' = Set(routes, x, {routes'[x]})
  /\ UNCHANGED <<blocks, pinned>> \/ Reserve
  /\ UNCHANGED <<open, kept, sound>>

\* Reading is allowed everywhere, in the blocks of the pool too.
Backup ==
  /\ \E b \in DOMAIN kept' :
       LET x == kept'[b].at
       IN  /\ \E c \in blocks : In(x, c)
           /\ kept'[b].route = IF x \in DOMAIN routes THEN {routes[x]} ELSE {}
           /\ kept' = Set(kept, b, {kept'[b]})
  /\ UNCHANGED <<open, blocks, pinned, routes, sound>>

\* The function leads again where it led when it was backed up.
Restore ==
  /\ \E b \in DOMAIN kept : /\ Callers(kept[b].at)
                            /\ routes' = Set(routes, kept[b].at, kept[b].route)
  /\ UNCHANGED <<open, blocks, pinned, kept, sound>>

\* A caller has stored into a block of the pool's: until everything is closed
\* nothing is promised of the routes, but blocks still have one owner.
Stray ==
  /\ ~sound'
  /\ routes' = Empty
  /\ kept' = Empty
  /\ UNCHANGED <<blocks, pinned>> \/ Reserve
  /\ UNCHANGED open

Close == /\ open' = {} /\ blocks' = {} /\ pinned' = {}
         /\ routes' = Empty /\ kept' = Empty /\ sound' = TRUE

Next == Open \/ Take \/ Give \/ Write \/ Redirect \/ Backup \/ Restore \/ Stray \/ Close

Spec == Init /\ [][Next]_vars
=============================================================================
