--------------------------- MODULE JitPrepareProofs --------------------------
(***************************************************************************)
(* Preparation and cleanup of the code pool: for any number of threads,    *)
(* readers, arenas and calls, any timeout, and a failure at any step.      *)
(***************************************************************************)
EXTENDS JitPrepare, FiniteSetTheorems, TLAPS

-----------------------------------------------------------------------------
(* The inductive invariant                                                 *)

\* The statements of prepare that run under the mutex, before the release
\* store is visible.
Preparing == {"recheck", "protocol", "status", "ask", "signing", "allocate", "protect",
              "address", "remap", "alias", "detach", "firstLook", "look", "sleep", "poll",
              "verify", "link", "store", "release"}
Holding == Preparing \cup {"exchange", "clean", "unlock"}

\* The call of t has an arena structure nobody else knows.
Owns(t) == pc[t] \in Preparing \/ (pc[t] = "lock" /\ kind[t] # "cleanup")

\* Who is where: the mutex has one holder, and a call stays in its function.
Control ==
  \A t \in Threads :
    /\ mutex = t <=> pc[t] \in Holding
    /\ pc[t] \in Preparing \cup {"enter"} => kind[t] # "cleanup"
    /\ pc[t] \in {"exchange", "clean"} => kind[t] = "cleanup"

\* A list that ends, of arena structures that exist.
Linked(x) == /\ Chain(x, next) \subseteq heap
             /\ \A a \in Chain(x, next) : a \notin Chain(next[a], next)

\* Each arena structure is published, or of one call, or on its way out.
Lists ==
  /\ Linked(head)
  /\ \A t \in Threads : Owns(t) => mine[t] \in heap \ Published
  /\ \A t, u \in Threads : Owns(t) /\ Owns(u) /\ mine[t] = mine[u] => t = u
  /\ \A t \in Threads : At(t, "store") => next[mine[t]] = head
  /\ \A t \in Threads : At(t, "clean") =>
       /\ head = None
       /\ Linked(mine[t])
       /\ \A u \in Threads : Owns(u) => mine[u] \notin Chain(mine[t], next)
  /\ \A a \in heap : \/ a \in Published
                     \/ \E t \in Threads : Owns(t) /\ mine[t] = a
                     \/ \E t \in Threads : At(t, "clean") /\ a \in Chain(mine[t], next)

\* What an arena structure says of its regions, and what is mapped.
Maps ==
  /\ \A a \in heap, side \in Sides : field[a][side] = "region" <=> prot[a][side] # "unmapped"
  /\ \A a \in Arenas \ heap, side \in Sides : prot[a][side] = "unmapped"
  /\ \A t \in Threads :
       /\ Owns(t) => \A side \in Sides :
            field[mine[t]][side] = "odd" => At(t, "address") /\ side = "execute"
       /\ Owns(t) /\ pc[t] \in {"lock", "recheck", "protocol", "status", "ask"} =>
            \A side \in Sides : field[mine[t]][side] = "null"
       /\ pc[t] \in {"protect", "remap", "alias"} => field[mine[t]]["execute"] = "region"
       /\ At(t, "alias") => field[mine[t]]["write"] = "region"

Verified(a) == prot[a] = [execute |-> "rx", write |-> "rw"]

\* Only what was verified gets to the list.
Checked == /\ \A a \in Published : Verified(a)
           /\ \A t \in Threads : pc[t] \in {"link", "store"} => Verified(mine[t])

\* Where the call of t has not failed yet.
Smooth == {"enter", "lock"} \cup (Preparing \ {"detach", "release"})

\* Why a call fails, and when the debugger left.
Timeouts ==
  /\ gone => ~traced
  /\ \A t \in Threads :
       /\ pc[t] \in Smooth => err[t] = "OK"
       /\ At(t, "detach") => err[t] # "EBUSY"
       /\ At(t, "release") /\ err[t] = "EBUSY" => ~gone

\* From the answer of the debugger to the label detach.
Lending == {"address", "remap", "alias", "detach"}

\* Whose region it is, and who has been sent away.
Lent ==
  /\ \A t \in Threads : pc[t] \in {"status", "ask"} => device.protocol = "debugger"
  /\ lent => device.protocol = "debugger" /\ \E t \in Threads : pc[t] \in Lending

\* The debugger is there for the traps, unless an earlier call has left
\* before the debugger it sent away did.
Attended ==
  /\ leaving => traced
  /\ leaving => unsure \/ \E t \in Threads : pc[t] \in Waiting \cup {"firstLook", "release"}
  /\ \A t \in Threads :
       /\ pc[t] \in {"ask"} \cup Lending /\ device.protocol = "debugger" => traced \/ unsure
       /\ pc[t] \in {"signing", "allocate", "protect"} => device.protocol = "kernel"
  /\ ~alive => unsure

\* What readers see.  No cleanup meets them; an arena that was ready when the
\* lookup began is still ahead.
Lookups ==
  \A r \in Readers :
    /\ cur[r] \in Published \cup {None, "idle"}
    /\ cur[r] # "idle" => \A t \in Threads : kind[t] = "cleanup" => At(t, "idle")
    /\ due[r] => cur[r] # "idle" /\ want[r] \in Chain(cur[r], next)

\* The inductive invariant.
PrepareInv == TypeOK /\ Control /\ Lists /\ Maps /\ Checked /\ Timeouts /\ Lent /\ Lookups

-----------------------------------------------------------------------------
(* Chains                                                                  *)

Links == [Arenas -> Arenas \cup {None}]

\* A chain goes on until it ends.
LEMMA ChainClosed ==
  ASSUME NEW f \in Links, NEW x, NEW a \in Chain(x, f)
  PROVE  f[a] \in Chain(x, f) \cup {None}
BY DEF Chain, Links

\* It is the least set that does.
LEMMA ChainLeast ==
  ASSUME NEW f, NEW S \in SUBSET Arenas, NEW x \in S \cup {None},
         \A b \in S : f[b] \in S \cup {None}
  PROVE  Chain(x, f) \subseteq S
BY DEF Chain

LEMMA ChainEmpty == ASSUME NEW f PROVE Chain(None, f) = {}
<1>1. PICK S \in SUBSET Arenas : S = {}
  OBVIOUS
<1>2. Chain(None, f) \subseteq S
  BY <1>1, ChainLeast
<1>3. QED
  BY <1>1, <1>2

LEMMA ChainSelf == ASSUME NEW f, NEW x \in Arenas PROVE x \in Chain(x, f)
BY PrepareAssumption DEF Chain

\* The rest of a chain is a chain.
LEMMA ChainWithin ==
  ASSUME NEW f \in Links, NEW x, NEW a \in Chain(x, f)
  PROVE  Chain(a, f) \subseteq Chain(x, f)
<1>1. Chain(x, f) \subseteq Arenas
  BY DEF Chain
<1>2. QED
  BY <1>1, ChainClosed, ChainLeast

LEMMA ChainStep ==
  ASSUME NEW f \in Links, NEW x \in Arenas
  PROVE  Chain(x, f) = {x} \cup Chain(f[x], f)
<1>1. /\ f[x] \in Arenas \cup {None} /\ Chain(f[x], f) \subseteq Arenas
      /\ Chain(x, f) \subseteq Arenas
  BY DEF Links, Chain
<1>2. x \in Chain(x, f)
  BY ChainSelf
<1>3. Chain(f[x], f) \subseteq Chain(x, f)
  <2>1. CASE f[x] = None
    BY <2>1, ChainEmpty
  <2>2. CASE f[x] # None
    BY <1>2, <2>2, ChainClosed, ChainWithin
  <2>3. QED
    BY <2>1, <2>2
<1>4. PICK S \in SUBSET Arenas : S = {x} \cup Chain(f[x], f)
  BY <1>1
<1>5. \A b \in S : f[b] \in S \cup {None}
  BY <1>1, <1>4, ChainClosed, ChainSelf
<1>6. Chain(x, f) \subseteq S
  BY <1>4, <1>5, ChainLeast
<1>7. QED
  BY <1>2, <1>3, <1>4, <1>6

\* A link changed elsewhere changes nothing.
LEMMA ChainSame ==
  ASSUME NEW f \in Links, NEW g \in Links, NEW m, NEW x \in Arenas \cup {None},
         \A b \in Arenas \ {m} : g[b] = f[b], m \notin Chain(x, f)
  PROVE  Chain(x, g) = Chain(x, f)
<1>1. ASSUME NEW F \in Links, NEW G \in Links, m \notin Chain(x, F),
             \A b \in Arenas \ {m} : G[b] = F[b]
      PROVE  Chain(x, G) \subseteq Chain(x, F)
  <2>1. Chain(x, F) \subseteq Arenas
    BY DEF Chain
  <2>2. \A b \in Chain(x, F) : G[b] \in Chain(x, F) \cup {None}
    BY <1>1, <2>1, ChainClosed
  <2>3. x \in Chain(x, F) \cup {None}
    BY ChainSelf
  <2>4. QED
    BY <2>1, <2>2, <2>3, ChainLeast
<1>2. Chain(x, g) \subseteq Chain(x, f)
  BY <1>1
<1>3. Chain(x, f) \subseteq Chain(x, g)
  BY <1>1, <1>2
<1>4. QED
  BY <1>2, <1>3

-----------------------------------------------------------------------------
(* Steps under the mutex that leave the list alone                         *)

LEMMA Distinct == /\ None \notin Arenas /\ None \notin Threads /\ None # "idle"
                  /\ "idle" \notin Arenas
  BY PrepareAssumption

\* Between the recheck and the publication a call of prepare changes nothing
\* that the list, its readers and the other calls depend on.
LEMMA InsideKeeps ==
  ASSUME PrepareInv, NEW t \in Threads, pc[t] \in Preparing,
         NEW p \in Preparing \ {"store"}, pc' = [pc EXCEPT ![t] = p],
         UNCHANGED <<kind, mine, mutex, list, readers>>
  PROVE  Control' /\ Lists' /\ Lookups'
<1> USE Distinct DEF PrepareInv, list, readers
<1>1. /\ pc'[t] = p /\ \A u \in Threads : u # t => pc'[u] = pc[u]
      /\ UNCHANGED <<kind, mine, mutex, head, next, heap, cur, want, due>>
  BY DEF TypeOK
<1>2. Control'
  BY <1>1 DEF Control, Preparing, Holding
<1>3. \A u \in Threads : /\ Owns(u)' <=> Owns(u)
                         /\ At(u, "clean")' <=> At(u, "clean")
                         /\ At(u, "store")' => At(u, "store")
  BY <1>1 DEF Owns, At, Preparing
<1>4. Lists'
  BY <1>1, <1>3 DEF Lists, Linked, Published, Chain
<1>5. \A u \in Threads : kind[u] = "cleanup" => u # t
  BY DEF Control
<1>6. Lookups'
  BY <1>1, <1>5 DEF Lookups, Published, Chain, At
<1>7. QED
  BY <1>2, <1>4, <1>6

\* A step that moves the call and maps nothing.
LEMMA MovesKeep ==
  ASSUME PrepareInv, NEW t \in Threads, pc[t] \in Preparing \ {"address"},
         NEW p \in Preparing \ {"store", "recheck", "protect", "remap", "alias"},
         pc' = [pc EXCEPT ![t] = p],
         p \in {"protocol", "status", "ask"} => pc[t] \in {"recheck", "protocol", "status"},
         p = "link" => Verified(mine[t]),
         UNCHANGED <<kind, mine, mutex, list, readers, kernel>>
  PROVE  Control' /\ Lists' /\ Maps' /\ Checked' /\ Lookups'
<1> USE Distinct DEF PrepareInv
<1>1. Control' /\ Lists' /\ Lookups'
  BY InsideKeeps
<1> USE DEF list, kernel
<1>2. pc'[t] = p /\ \A u \in Threads : u # t => pc'[u] = pc[u]
  BY DEF TypeOK
<1>3. \A u \in Threads : Owns(u)' <=> Owns(u)
  BY <1>2 DEF Owns, Preparing
<1>4. Maps'
  BY <1>2, <1>3 DEF Maps, At, Owns, Preparing
<1>5. Checked'
  BY <1>2 DEF Checked, Published, Chain, Verified
<1>6. QED
  BY <1>1, <1>4, <1>5

\* A look at what the device, the debugger or the kernel says: the call goes
\* on or fails.
LEMMA LooksKeep ==
  ASSUME PrepareInv, NEW t \in Threads,
         pc[t] \in {"recheck", "protocol", "status", "signing", "verify"},
         NEW p \in {"protocol", "status", "signing", "ask", "allocate", "link", "release"},
         NEW e \in {"EIO", "EPERM", "EACCES"},
         pc' = [pc EXCEPT ![t] = p],
         IF p = "release" THEN err' = [err EXCEPT ![t] = e] ELSE err' = err,
         p \in {"protocol", "status", "ask"} => pc[t] \in {"recheck", "protocol", "status"},
         p \in {"status", "ask"} => device.protocol = "debugger",
         p = "link" => Verified(mine[t]),
         UNCHANGED <<kind, mine, calls, mutex, list, kernel, debugger, clock, readers>>
  PROVE  PrepareInv'
<1> USE Distinct DEF PrepareInv
<1>1. Control' /\ Lists' /\ Maps' /\ Checked' /\ Lookups'
  BY MovesKeep DEF Preparing
<1> USE DEF list, kernel, debugger, clock, readers
<1>2. pc'[t] = p /\ \A u \in Threads : u # t => pc'[u] = pc[u]
  BY DEF TypeOK
<1>3. TypeOK'
  BY DEF TypeOK, Places, Waiting, Errors
<1>4. Timeouts'
  BY <1>2 DEF Timeouts, Smooth, Preparing, At, TypeOK
<1>5. Lent'
  BY <1>2 DEF Lent, Lending
<1>6. QED
  BY <1>1, <1>3, <1>4, <1>5

LEMMA ProtocolKeeps ==
  ASSUME PrepareInv, NEW t \in Threads, Protocol(t)
  PROVE  PrepareInv'
<1>1. PICK p \in {"release", "status", "signing"} :
        /\ pc[t] = "protocol"
        /\ pc' = [pc EXCEPT ![t] = p]
        /\ p = "status" => device.protocol = "debugger"
        /\ IF p = "release" THEN err' = [err EXCEPT ![t] = "EIO"] ELSE err' = err
  BY DEF Protocol, OnlyMoves, Goto, Fail, Exit, At
<1>2. UNCHANGED <<kind, mine, calls, mutex, list, kernel, debugger, clock, readers>>
  BY DEF Protocol, OnlyMoves
<1>3. QED
  BY <1>1, <1>2, LooksKeep

LEMMA StatusKeeps ==
  ASSUME PrepareInv, NEW t \in Threads, Status(t)
  PROVE  PrepareInv'
<1>1. PICK p \in {"release", "ask"}, e \in {"EIO", "EPERM"} :
        /\ pc[t] = "status"
        /\ pc' = [pc EXCEPT ![t] = p]
        /\ IF p = "release" THEN err' = [err EXCEPT ![t] = e] ELSE err' = err
  BY DEF Status, OnlyMoves, Goto, Fail, Exit, At
<1>2. UNCHANGED <<kind, mine, calls, mutex, list, kernel, debugger, clock, readers>>
  BY DEF Status, OnlyMoves
<1>3. device.protocol = "debugger"
  BY <1>1 DEF PrepareInv, Lent
<1>4. QED
  BY <1>1, <1>2, <1>3, LooksKeep

LEMMA SigningKeeps ==
  ASSUME PrepareInv, NEW t \in Threads, Signing(t)
  PROVE  PrepareInv'
<1>1. PICK p \in {"release", "allocate"}, e \in {"EIO", "EPERM"} :
        /\ pc[t] = "signing"
        /\ pc' = [pc EXCEPT ![t] = p]
        /\ IF p = "release" THEN err' = [err EXCEPT ![t] = e] ELSE err' = err
  BY DEF Signing, OnlyMoves, Goto, Fail, Exit, At
<1>2. UNCHANGED <<kind, mine, calls, mutex, list, kernel, debugger, clock, readers>>
  BY DEF Signing, OnlyMoves
<1>3. QED
  BY <1>1, <1>2, LooksKeep

LEMMA VerifyKeeps ==
  ASSUME PrepareInv, NEW t \in Threads, Verify(t)
  PROVE  PrepareInv'
<1>1. PICK p \in {"release", "link"}, e \in {"EIO", "EACCES"} :
        /\ pc[t] = "verify"
        /\ pc' = [pc EXCEPT ![t] = p]
        /\ p = "link" => Verified(mine[t])
        /\ IF p = "release" THEN err' = [err EXCEPT ![t] = e] ELSE err' = err
  BY DEF Verify, OnlyMoves, Goto, Fail, Exit, At, Verified
<1>2. UNCHANGED <<kind, mine, calls, mutex, list, kernel, debugger, clock, readers>>
  BY DEF Verify, OnlyMoves
<1>3. QED
  BY <1>1, <1>2, LooksKeep

\* A call that gives up before it has a region frees its structure, which
\* nobody knows, and the mutex, if it has it.
LEMMA GivingUpKeeps ==
  ASSUME PrepareInv, NEW t \in Threads, NEW e \in Errors,
         Owns(t), pc[t] \in {"lock", "recheck"},
         pc' = [pc EXCEPT ![t] = "idle"], err' = [err EXCEPT ![t] = e],
         heap' = heap \ {mine[t]}, mutex' = IF pc[t] = "lock" THEN mutex ELSE None,
         UNCHANGED <<kind, mine, calls, head, next, kernel, debugger, clock, readers>>
  PROVE  PrepareInv'
<1> USE Distinct DEF PrepareInv, kernel, debugger, clock, readers
<1>1. pc'[t] = "idle" /\ \A u \in Threads : u # t => pc'[u] = pc[u]
  BY DEF TypeOK
<1>2. mine[t] \in heap \ Published /\ (pc[t] = "recheck" <=> mutex = t)
  BY DEF Lists, Control, Holding, Preparing
<1>3. TypeOK'
  <2>1. head # mine[t]
    BY <1>2, ChainSelf DEF TypeOK, Published
  <2>2. pc' \in [Threads -> Places] /\ err' \in [Threads -> Errors]
    BY DEF TypeOK, Places
  <2>3. QED
    BY <2>1, <2>2 DEF TypeOK
<1>4. Control'
  BY <1>1, <1>2 DEF Control, Preparing, Holding
<1>5. \A u \in Threads : Owns(u)' <=> Owns(u) /\ u # t
  BY <1>1 DEF Owns, Preparing
<1>6. Lists'
  BY <1>1, <1>2, <1>5 DEF Lists, Linked, Published, Chain, At
<1>7. Maps'
  <2>1. \A side \in Sides : prot[mine[t]][side] = "unmapped"
    BY <1>2 DEF Maps
  <2>2. QED
    BY <1>1, <1>2, <1>5, <2>1 DEF Maps, At
<1>8. Checked'
  BY <1>1 DEF Checked, Published, Chain, Verified
<1>9. Timeouts'
  BY <1>1 DEF Timeouts, Smooth, Preparing, At, TypeOK
<1>10. Lent'
  BY <1>1 DEF Lent, Lending
<1>11. Lookups'
  BY <1>1 DEF Lookups, Published, Chain, At
<1>12. QED
  BY <1>3, <1>4, <1>6, <1>7, <1>8, <1>9, <1>10, <1>11

\* Another look at the pool under the mutex.
LEMMA RecheckKeeps ==
  ASSUME PrepareInv, NEW t \in Threads, Recheck(t)
  PROVE  PrepareInv'
<1>1. CASE pc'[t] = "protocol"
  <2>1. /\ pc[t] = "recheck"
        /\ pc' = [pc EXCEPT ![t] = "protocol"] /\ err' = err
        /\ UNCHANGED <<kind, mine, calls, mutex, list, kernel, debugger, clock, readers>>
    BY <1>1 DEF Recheck, OnlyMoves, Goto, Return, Exit, At, PrepareInv, TypeOK
  <2>2. QED
    BY <2>1, Distinct, LooksKeep DEF PrepareInv
<1>2. CASE pc'[t] # "protocol"
  <2>1. /\ pc[t] = "recheck" /\ heap' = heap \ {mine[t]} /\ mutex' = None
        /\ pc' = [pc EXCEPT ![t] = "idle"] /\ err' = [err EXCEPT ![t] = "OK"]
        /\ UNCHANGED <<kind, mine, calls, head, next, kernel, debugger, clock, readers>>
    BY <1>2 DEF Recheck, OnlyMoves, Goto, Return, Exit, At, PrepareInv, TypeOK
  <2>2. Owns(t) /\ "OK" \in Errors
    BY <2>1 DEF Owns, Preparing, Errors
  <2>3. QED
    BY <2>1, <2>2, GivingUpKeeps
<1>3. QED
  BY <1>1, <1>2

-----------------------------------------------------------------------------
(* Steps under the mutex that map, unmap and protect                       *)

\* A call changes only what its own arena structure says and has mapped, in
\* agreement, on its way to place p.
Remapped(t, p) ==
  /\ field' \in [Arenas -> [Sides -> {"null", "region", "odd"}]]
  /\ prot' \in [Arenas -> [Sides -> {"unmapped", "rw", "rx"}]]
  /\ \A a \in Arenas : a # mine[t] => field'[a] = field[a] /\ prot'[a] = prot[a]
  /\ \A side \in Sides :
       /\ field'[mine[t]][side] = "region" <=> prot'[mine[t]][side] # "unmapped"
       /\ field'[mine[t]][side] = "odd" => p = "address" /\ side = "execute"
  /\ p \in {"protect", "remap", "alias"} => field'[mine[t]]["execute"] = "region"
  /\ p = "alias" => field'[mine[t]]["write"] = "region"

\* That is seen by no other call.
LEMMA MappingKeeps ==
  ASSUME PrepareInv, NEW t \in Threads, pc[t] \in Preparing,
         NEW p \in {"protect", "address", "remap", "alias", "detach", "release"},
         pc' = [pc EXCEPT ![t] = p], Remapped(t, p),
         UNCHANGED <<kind, mine, mutex, list, readers>>
  PROVE  Control' /\ Lists' /\ Maps' /\ Checked' /\ Lookups'
<1> USE Distinct DEF PrepareInv
<1>1. Control' /\ Lists' /\ Lookups'
  BY InsideKeeps DEF Preparing
<1> USE DEF list
<1>2. pc'[t] = p /\ \A u \in Threads : u # t => pc'[u] = pc[u]
  BY DEF TypeOK
<1>3. \A u \in Threads : Owns(u)' <=> Owns(u)
  BY <1>2 DEF Owns, Preparing
<1>4. /\ mine[t] \in heap \ Published
      /\ \A u \in Threads : u # t /\ Owns(u) => mine[u] # mine[t] /\ mine[u] \in Arenas
      /\ heap \subseteq Arenas /\ Published \subseteq Arenas
  BY DEF Lists, Owns, TypeOK, Published, Chain
<1>5. Maps'
  <2>1. /\ \A a \in heap, side \in Sides : field'[a][side] = "region" <=> prot'[a][side] # "unmapped"
        /\ \A a \in Arenas \ heap, side \in Sides : prot'[a][side] = "unmapped"
    BY <1>4 DEF Maps, Remapped
  <2>2. ASSUME NEW u \in Threads, u # t
        PROVE  /\ pc[u] \notin {"protect", "remap", "alias"}
               /\ Owns(u) => pc[u] = "lock"
    BY <2>2 DEF Control, Holding, Preparing, Owns
  <2>3. ASSUME NEW u \in Threads
        PROVE  /\ Owns(u) => \A side \in Sides : field'[mine[u]][side] = "odd" =>
                                                           pc'[u] = "address" /\ side = "execute"
               /\ Owns(u) /\ pc'[u] \in {"lock", "recheck", "protocol", "status", "ask"} =>
                     \A side \in Sides : field'[mine[u]][side] = "null"
               /\ pc'[u] \in {"protect", "remap", "alias"} => field'[mine[u]]["execute"] = "region"
               /\ pc'[u] = "alias" => field'[mine[u]]["write"] = "region"
    BY <1>2, <1>4, <2>2 DEF Maps, At, Remapped
  <2>4. QED
    BY <1>3, <2>1, <2>3 DEF Maps, At
<1>6. Checked'
  <2>1. Published' = Published
    BY DEF Published, Chain
  <2>2. \A u \in Threads : pc'[u] \notin {"link", "store"}
    BY <1>2 DEF Control, Holding, Preparing
  <2>3. QED
    BY <1>4, <2>1, <2>2 DEF Checked, Verified, Remapped
<1>7. QED
  BY <1>1, <1>5, <1>6

\* While the call of t holds the mutex, no other call is at a later place.
LEMMA OnlyHolder ==
  ASSUME PrepareInv, NEW t \in Threads, pc[t] \in Holding, NEW u \in Threads, u # t
  PROVE  pc[u] \notin Holding
BY Distinct DEF PrepareInv, Control

LEMMA AskKeeps ==
  ASSUME PrepareInv, NEW t \in Threads, Ask(t)
  PROVE  PrepareInv'
<1> USE Distinct DEF PrepareInv
<1>1. /\ pc[t] = "ask" /\ traced /\ lent' = TRUE
      /\ UNCHANGED <<kind, mine, calls, mutex, list, device, traced, leaving, debugged,
                     attaches, unsure, gone, alive, clock, readers>>
  BY DEF Ask, At
<1>2. PICK p \in {"detach", "address"}, f \in {"null", "region", "odd"}, q \in {"unmapped", "rw", "rx"} :
        /\ pc' = [pc EXCEPT ![t] = p]
        /\ IF p = "detach" THEN err' = [err EXCEPT ![t] = "ENOMEM"] ELSE err' = err
        /\ field' = [field EXCEPT ![mine[t]]["execute"] = f]
        /\ prot' = [prot EXCEPT ![mine[t]]["execute"] = q]
        /\ f = "region" <=> q # "unmapped"
        /\ f = "odd" => p = "address"
  <2>1. /\ field[mine[t]]["execute"] = "null" /\ prot[mine[t]]["execute"] = "unmapped"
        /\ mine[t] \in Arenas
    BY <1>1 DEF Maps, Owns, Preparing, Lists, Sides, TypeOK
  <2>2. /\ field = [field EXCEPT ![mine[t]]["execute"] = "null"]
        /\ prot = [prot EXCEPT ![mine[t]]["execute"] = "unmapped"]
    BY <2>1 DEF TypeOK, Sides
  <2>3. QED
    BY <1>1, <2>2 DEF Ask, Goto, Exit, SetField, SetProt
<1>3. mine[t] \in heap /\ mine[t] \in Arenas /\ field[mine[t]]["write"] = "null"
      /\ prot[mine[t]]["write"] = "unmapped"
  BY <1>1 DEF Maps, Owns, Preparing, Lists, Sides, TypeOK
<1>4. Control' /\ Lists' /\ Maps' /\ Checked' /\ Lookups'
  <2>1. field' \in [Arenas -> [Sides -> {"null", "region", "odd"}]]
        /\ prot' \in [Arenas -> [Sides -> {"unmapped", "rw", "rx"}]]
    BY <1>2, <1>3 DEF TypeOK, Sides
  <2>2. \A a \in Arenas : a # mine[t] => field'[a] = field[a] /\ prot'[a] = prot[a]
    BY <1>2, <1>3 DEF TypeOK
  <2>3. \A side \in Sides : /\ field'[mine[t]][side] = "region" <=> prot'[mine[t]][side] # "unmapped"
                            /\ field'[mine[t]][side] = "odd" => p = "address" /\ side = "execute"
    BY <1>2, <1>3 DEF TypeOK, Sides
  <2>4. Remapped(t, p)
    BY <1>2, <2>1, <2>2, <2>3 DEF Remapped
  <2>5. pc[t] \in Preparing /\ pc' = [pc EXCEPT ![t] = p]
        /\ UNCHANGED <<kind, mine, mutex, list, readers>>
    BY <1>1, <1>2 DEF Preparing
  <2>6. QED
    BY <2>4, <2>5, MappingKeeps
<1> USE DEF list, clock, readers
<1>5. pc'[t] = p /\ \A u \in Threads : u # t => pc'[u] = pc[u]
  BY <1>2 DEF TypeOK
<1>6. TypeOK'
  BY <1>1, <1>2, <1>3 DEF TypeOK, Places, Waiting, Errors, Sides
<1>7. Timeouts'
  BY <1>1, <1>2, <1>5 DEF Timeouts, Smooth, Preparing, At, TypeOK
<1>8. Lent'
  BY <1>1, <1>2, <1>5 DEF Lent, Lending
<1>9. QED
  BY <1>4, <1>6, <1>7, <1>8

\* What a call knows of its own regions.
LEMMA OwnRegions ==
  ASSUME PrepareInv, NEW t \in Threads, pc[t] \in Preparing
  PROVE  /\ mine[t] \in Arenas
         /\ field[mine[t]] \in [Sides -> {"null", "region", "odd"}]
         /\ prot[mine[t]] \in [Sides -> {"unmapped", "rw", "rx"}]
         /\ \A side \in Sides :
              /\ field[mine[t]][side] = "region" <=> prot[mine[t]][side] # "unmapped"
              /\ field[mine[t]][side] = "odd" => pc[t] = "address"
         /\ pc[t] \in {"protect", "remap", "alias"} => field[mine[t]]["execute"] = "region"
         /\ pc[t] = "alias" => field[mine[t]]["write"] = "region"
<1>1. mine[t] \in heap /\ mine[t] \in Arenas
  BY DEF PrepareInv, Owns, Lists, TypeOK
<1>2. QED
  BY <1>1 DEF PrepareInv, TypeOK, Maps, Owns, At

\* Whatever becomes of the two sides, a call that fails has them as they are.
LEMMA NothingRemapped ==
  ASSUME PrepareInv, NEW t \in Threads, pc[t] \in Preparing \ {"address"},
         NEW p \in {"detach", "release"}, UNCHANGED <<field, prot>>
  PROVE  Remapped(t, p)
<1>1. field' \in [Arenas -> [Sides -> {"null", "region", "odd"}]]
      /\ prot' \in [Arenas -> [Sides -> {"unmapped", "rw", "rx"}]]
  BY DEF PrepareInv, TypeOK
<1>2. QED
  BY <1>1, OwnRegions DEF Remapped

\* One side is set, one side is protected.
LEMMA SideRemapped ==
  ASSUME PrepareInv, NEW t \in Threads, pc[t] \in Preparing,
         NEW p \in {"protect", "address", "remap", "alias", "detach"},
         NEW side \in Sides, NEW f \in {"null", "region", "odd"},
         NEW q \in {"unmapped", "rw", "rx"},
         NEW a, a = mine[t], SetField(a, side, f), SetProt(a, side, q),
         f = "region" <=> q # "unmapped",
         \A s \in Sides \ {side} : field[mine[t]][s] = "odd" => p = "address" /\ s = "execute",
         f = "odd" => p = "address" /\ side = "execute",
         p \in {"protect", "remap", "alias"} =>
            "region" = IF side = "execute" THEN f ELSE field[mine[t]]["execute"],
         p = "alias" => "region" = IF side = "write" THEN f ELSE field[mine[t]]["write"]
  PROVE  Remapped(t, p)
<1>1. /\ mine[t] \in Arenas
      /\ \A s \in Sides : field[mine[t]][s] = "region" <=> prot[mine[t]][s] # "unmapped"
  BY OwnRegions
<1>2. field \in [Arenas -> [Sides -> {"null", "region", "odd"}]]
      /\ prot \in [Arenas -> [Sides -> {"unmapped", "rw", "rx"}]]
  BY DEF PrepareInv, TypeOK
<1>3. field' \in [Arenas -> [Sides -> {"null", "region", "odd"}]]
      /\ prot' \in [Arenas -> [Sides -> {"unmapped", "rw", "rx"}]]
      /\ \A b \in Arenas : b # mine[t] => field'[b] = field[b] /\ prot'[b] = prot[b]
  BY <1>1, <1>2 DEF SetField, SetProt
<1>4. \A s \in Sides : /\ field'[mine[t]][s] = IF s = side THEN f ELSE field[mine[t]][s]
                       /\ prot'[mine[t]][s] = IF s = side THEN q ELSE prot[mine[t]][s]
  BY <1>1, <1>2 DEF SetField, SetProt
<1>5. "execute" \in Sides /\ "write" \in Sides
  BY DEF Sides
<1>6. \A s \in Sides : /\ field'[mine[t]][s] = "region" <=> prot'[mine[t]][s] # "unmapped"
                       /\ field'[mine[t]][s] = "odd" => p = "address" /\ s = "execute"
  BY <1>1, <1>4
<1>7. /\ p \in {"protect", "remap", "alias"} => field'[mine[t]]["execute"] = "region"
      /\ p = "alias" => field'[mine[t]]["write"] = "region"
  BY <1>4, <1>5
<1>8. QED
  BY <1>3, <1>6, <1>7 DEF Remapped

\* The kernel maps, protects and remaps; where it refuses, the call fails.
LEMMA MapsKeep ==
  ASSUME PrepareInv, NEW t \in Threads,
         NEW p \in {"protect", "address", "remap", "alias", "detach", "release"},
         NEW e \in {"EIO", "EFAULT"},
         \/ pc[t] = "allocate" /\ p \in {"release", "protect"}
         \/ pc[t] = "protect" /\ p \in {"release", "address"}
         \/ pc[t] \in {"address", "remap", "alias"} /\ p \in {"detach", "remap", "alias"},
         pc' = [pc EXCEPT ![t] = p], Remapped(t, p),
         \/ p # "release" /\ err' = err
         \/ p \in {"detach", "release"} /\ err' = [err EXCEPT ![t] = e],
         UNCHANGED <<kind, mine, calls, mutex, list, device, debugger, clock, readers>>
  PROVE  PrepareInv'
<1> USE Distinct DEF PrepareInv
<1>1. Control' /\ Lists' /\ Maps' /\ Checked' /\ Lookups'
  BY MappingKeeps DEF Preparing
<1> USE DEF list, clock, readers, debugger
<1>2. pc'[t] = p /\ \A u \in Threads : u # t => pc'[u] = pc[u]
  BY DEF TypeOK
<1>3. TypeOK'
  <2>1. field' \in [Arenas -> [Sides -> {"null", "region", "odd"}]]
        /\ prot' \in [Arenas -> [Sides -> {"unmapped", "rw", "rx"}]]
    BY DEF Remapped
  <2>2. pc' \in [Threads -> Places] /\ err' \in [Threads -> Errors]
    BY DEF TypeOK, Places, Waiting, Errors
  <2>3. QED
    BY <2>1, <2>2 DEF TypeOK
<1>4. Timeouts'
  BY <1>2 DEF Timeouts, Smooth, Preparing, At, TypeOK
<1>5. Lent'
  <2>1. \A u \in Threads : u # t => pc[u] \notin Lending \cup {"status", "ask"}
    BY OnlyHolder DEF Lending, Holding, Preparing
  <2>2. QED
    BY <1>2, <2>1 DEF Lent, Lending
<1>6. QED
  BY <1>1, <1>3, <1>4, <1>5

LEMMA AllocateKeeps ==
  ASSUME PrepareInv, NEW t \in Threads, Allocate(t)
  PROVE  PrepareInv'
<1>1. /\ pc[t] = "allocate" /\ pc[t] \in Preparing
      /\ UNCHANGED <<kind, mine, calls, mutex, list, device, debugger, clock, readers>>
  BY DEF Allocate, OnlyMaps, At, Preparing
<1>2. CASE Fail(t, "EIO") /\ UNCHANGED <<field, prot>>
  <2>1. Remapped(t, "release")
    BY <1>1, <1>2, NothingRemapped
  <2>2. pc' = [pc EXCEPT ![t] = "release"] /\ err' = [err EXCEPT ![t] = "EIO"]
    BY <1>2 DEF Fail, Exit, Goto
  <2>3. QED
    BY <1>1, <2>1, <2>2, MapsKeep
<1>3. CASE /\ SetField(mine[t], "execute", "region") /\ SetProt(mine[t], "execute", "rw")
           /\ Goto(t, "protect") /\ UNCHANGED err
  <2>1. "execute" \in Sides /\ \A side \in Sides : field[mine[t]][side] # "odd"
    BY <1>1, OwnRegions DEF Sides
  <2>2. PICK a : a = mine[t]
    OBVIOUS
  <2>3. SetField(a, "execute", "region") /\ SetProt(a, "execute", "rw")
    BY <1>3, <2>2 DEF SetField, SetProt
  <2>4. Remapped(t, "protect")
    BY <1>1, <2>1, <2>2, <2>3, SideRemapped
  <2>5. pc' = [pc EXCEPT ![t] = "protect"] /\ err' = err
    BY <1>3 DEF Goto
  <2>6. QED
    BY <1>1, <2>4, <2>5, MapsKeep
<1>4. QED
  BY <1>2, <1>3 DEF Allocate

LEMMA ProtectKeeps ==
  ASSUME PrepareInv, NEW t \in Threads, Protect(t)
  PROVE  PrepareInv'
<1>1. /\ pc[t] = "protect" /\ pc[t] \in Preparing /\ field' = field
      /\ UNCHANGED <<kind, mine, calls, mutex, list, device, debugger, clock, readers>>
  BY DEF Protect, OnlyMaps, At, Preparing
<1>2. CASE Fail(t, "EIO") /\ UNCHANGED prot
  <2>1. Remapped(t, "release")
    BY <1>1, <1>2, NothingRemapped
  <2>2. pc' = [pc EXCEPT ![t] = "release"] /\ err' = [err EXCEPT ![t] = "EIO"]
    BY <1>2 DEF Fail, Exit, Goto
  <2>3. QED
    BY <1>1, <2>1, <2>2, MapsKeep
<1>3. CASE SetProt(mine[t], "execute", "rx") /\ Goto(t, "address") /\ UNCHANGED err
  <2>1. /\ "execute" \in Sides /\ \A side \in Sides : field[mine[t]][side] # "odd"
        /\ field[mine[t]]["execute"] = "region" /\ mine[t] \in Arenas
    BY <1>1, OwnRegions DEF Sides
  <2>2. PICK a : a = mine[t]
    OBVIOUS
  <2>3. SetField(a, "execute", "region") /\ SetProt(a, "execute", "rx")
    BY <1>1, <1>3, <2>1, <2>2 DEF SetField, SetProt, PrepareInv, TypeOK
  <2>4. Remapped(t, "address")
    BY <1>1, <2>1, <2>2, <2>3, SideRemapped
  <2>5. pc' = [pc EXCEPT ![t] = "address"] /\ err' = err
    BY <1>3 DEF Goto
  <2>6. QED
    BY <1>1, <2>4, <2>5, MapsKeep
<1>4. QED
  BY <1>1, <1>2, <1>3 DEF Protect

LEMMA AddressKeeps ==
  ASSUME PrepareInv, NEW t \in Threads, Address(t)
  PROVE  PrepareInv'
<1>1. /\ pc[t] = "address" /\ pc[t] \in Preparing /\ prot' = prot
      /\ UNCHANGED <<kind, mine, calls, mutex, list, device, debugger, clock, readers>>
  BY DEF Address, OnlyMaps, At, Preparing
<1>2. /\ "execute" \in Sides /\ "write" \in Sides /\ mine[t] \in Arenas
      /\ \A side \in Sides : field[mine[t]][side] = "region" <=> prot[mine[t]][side] # "unmapped"
  BY <1>1, OwnRegions DEF Sides
<1>3. field[mine[t]]["write"] # "odd"
  BY <1>1, <1>2 DEF PrepareInv, Maps, Owns
<1>4. PICK a : a = mine[t]
  OBVIOUS
<1>5. CASE /\ field[mine[t]]["execute"] = "odd"
           /\ SetField(mine[t], "execute", "null") /\ Exit(t, "detach", "EFAULT")
  <2>1. prot[a]["execute"] = "unmapped"
    BY <1>2, <1>4, <1>5
  <2>2. SetField(a, "execute", "null") /\ SetProt(a, "execute", "unmapped")
    BY <1>1, <1>2, <1>4, <1>5, <2>1 DEF SetField, SetProt, PrepareInv, TypeOK
  <2>3. \A s \in Sides \ {"execute"} : field[mine[t]][s] # "odd"
    BY <1>3 DEF Sides
  <2>4. Remapped(t, "detach")
    BY <1>1, <1>2, <1>4, <2>2, <2>3, SideRemapped
  <2>5. pc' = [pc EXCEPT ![t] = "detach"] /\ err' = [err EXCEPT ![t] = "EFAULT"]
    BY <1>5 DEF Exit, Goto
  <2>6. QED
    BY <1>1, <2>4, <2>5, MapsKeep
<1>6. CASE field[mine[t]]["execute"] = "region" /\ Goto(t, "remap") /\ UNCHANGED <<err, field>>
  <2>1. field' \in [Arenas -> [Sides -> {"null", "region", "odd"}]]
        /\ prot' \in [Arenas -> [Sides -> {"unmapped", "rw", "rx"}]]
    BY <1>1, <1>6 DEF PrepareInv, TypeOK
  <2>2. \A s \in Sides : field[mine[t]][s] # "odd"
    BY <1>3, <1>6 DEF Sides
  <2>3. Remapped(t, "remap")
    BY <1>1, <1>2, <1>6, <2>1, <2>2 DEF Remapped, PrepareInv, TypeOK
  <2>4. pc' = [pc EXCEPT ![t] = "remap"] /\ err' = err
    BY <1>6 DEF Goto
  <2>5. QED
    BY <1>1, <2>3, <2>4, MapsKeep
<1>7. QED
  BY <1>5, <1>6 DEF Address

LEMMA RemapKeeps ==
  ASSUME PrepareInv, NEW t \in Threads, Remap(t)
  PROVE  PrepareInv'
<1>1. /\ pc[t] = "remap" /\ pc[t] \in Preparing
      /\ UNCHANGED <<kind, mine, calls, mutex, list, device, debugger, clock, readers>>
  BY DEF Remap, OnlyMaps, At, Preparing
<1>2. CASE Exit(t, "detach", "EIO") /\ UNCHANGED <<field, prot>>
  <2>1. Remapped(t, "detach")
    BY <1>1, <1>2, NothingRemapped
  <2>2. pc' = [pc EXCEPT ![t] = "detach"] /\ err' = [err EXCEPT ![t] = "EIO"]
    BY <1>2 DEF Exit, Goto
  <2>3. QED
    BY <1>1, <2>1, <2>2, MapsKeep
<1>3. CASE /\ SetField(mine[t], "write", "region")
           /\ SetProt(mine[t], "write", prot[mine[t]]["execute"])
           /\ Exit(t, "detach", "EFAULT") \/ (Goto(t, "alias") /\ UNCHANGED err)
  <2>1. /\ "execute" \in Sides /\ "write" \in Sides
        /\ \A side \in Sides : field[mine[t]][side] # "odd"
        /\ field[mine[t]]["execute"] = "region"
        /\ prot[mine[t]]["execute"] \in {"rw", "rx"}
    BY <1>1, OwnRegions DEF Sides
  <2>2. PICK a, q : a = mine[t] /\ q = prot[mine[t]]["execute"]
    OBVIOUS
  <2>3. SetField(a, "write", "region") /\ SetProt(a, "write", q)
    BY <1>3, <2>2 DEF SetField, SetProt
  <2>4. PICK p \in {"detach", "alias"} :
          /\ pc' = [pc EXCEPT ![t] = p]
          /\ (p = "alias" /\ err' = err) \/ (p = "detach" /\ err' = [err EXCEPT ![t] = "EFAULT"])
    BY <1>3 DEF Exit, Goto
  <2>5. Remapped(t, p)
    BY <1>1, <2>1, <2>2, <2>3, SideRemapped
  <2>6. QED
    BY <1>1, <2>4, <2>5, MapsKeep
<1>4. QED
  BY <1>2, <1>3 DEF Remap

LEMMA AliasKeeps ==
  ASSUME PrepareInv, NEW t \in Threads, Alias(t)
  PROVE  PrepareInv'
<1>1. /\ pc[t] = "alias" /\ pc[t] \in Preparing /\ field' = field
      /\ UNCHANGED <<kind, mine, calls, mutex, list, device, debugger, clock, readers>>
  BY DEF Alias, OnlyMaps, At, Preparing
<1>2. CASE Exit(t, "detach", "EIO") /\ UNCHANGED prot
  <2>1. Remapped(t, "detach")
    BY <1>1, <1>2, NothingRemapped
  <2>2. pc' = [pc EXCEPT ![t] = "detach"] /\ err' = [err EXCEPT ![t] = "EIO"]
    BY <1>2 DEF Exit, Goto
  <2>3. QED
    BY <1>1, <2>1, <2>2, MapsKeep
<1>3. CASE SetProt(mine[t], "write", "rw") /\ Goto(t, "detach") /\ UNCHANGED err
  <2>1. /\ "write" \in Sides /\ \A side \in Sides : field[mine[t]][side] # "odd"
        /\ field[mine[t]]["write"] = "region" /\ mine[t] \in Arenas
    BY <1>1, OwnRegions DEF Sides
  <2>2. PICK a : a = mine[t]
    OBVIOUS
  <2>3. SetField(a, "write", "region") /\ SetProt(a, "write", "rw")
    BY <1>1, <1>3, <2>1, <2>2 DEF SetField, SetProt, PrepareInv, TypeOK
  <2>4. Remapped(t, "detach")
    BY <1>1, <2>1, <2>2, <2>3, SideRemapped
  <2>5. pc' = [pc EXCEPT ![t] = "detach"] /\ err' = err
    BY <1>3 DEF Goto
  <2>6. QED
    BY <1>1, <2>4, <2>5, MapsKeep
<1>4. QED
  BY <1>1, <1>2, <1>3 DEF Alias

-----------------------------------------------------------------------------
(* The wait for the debugger                                               *)

LEMMA DetachKeeps ==
  ASSUME PrepareInv, NEW t \in Threads, Detach(t)
  PROVE  PrepareInv'
<1> USE Distinct DEF PrepareInv
<1>1. /\ pc[t] = "detach"
      /\ UNCHANGED <<kind, mine, err, calls, mutex, list, kernel, traced, debugged, attaches,
                     unsure, gone, alive, clock, readers>>
  BY DEF Detach, At
<1>2. PICK p \in {"firstLook", "verify", "release"} :
        /\ pc' = [pc EXCEPT ![t] = p]
        /\ p = "release" <=> err[t] # "OK"
        /\ \/ device.protocol = "debugger" /\ lent' = FALSE /\ leaving' = TRUE
           \/ device.protocol = "kernel" /\ lent' = lent /\ leaving' = leaving
  BY DEF Detach, Goto
<1>3. Control' /\ Lists' /\ Maps' /\ Checked' /\ Lookups'
  BY <1>1, <1>2, MovesKeep DEF Preparing
<1> USE DEF list, kernel, clock, readers
<1>4. pc'[t] = p /\ \A u \in Threads : u # t => pc'[u] = pc[u]
  BY <1>2 DEF TypeOK
<1>5. TypeOK'
  <2>1. pc' \in [Threads -> Places] /\ {lent', leaving'} \subseteq BOOLEAN
    BY <1>2 DEF TypeOK, Places, Waiting
  <2>2. QED
    BY <1>1, <2>1 DEF TypeOK
<1>6. Timeouts'
  BY <1>1, <1>2, <1>4 DEF Timeouts, Smooth, Preparing, At, TypeOK
<1>7. Lent'
  BY <1>1, <1>2, <1>4 DEF Lent, Lending
<1>8. QED
  BY <1>3, <1>5, <1>6, <1>7

\* A step of the wait that does not give up.
LEMMA WaitKeeps ==
  ASSUME PrepareInv, NEW t \in Threads, pc[t] \in Waiting \cup {"firstLook"},
         NEW p \in {"look", "sleep", "poll", "verify", "release"},
         NEW e \in {"EIO", "EBUSY"},
         pc' = [pc EXCEPT ![t] = p],
         IF p = "release" THEN err' = [err EXCEPT ![t] = e] ELSE err' = err,
         e = "EBUSY" => traced,
         left' \in 0 .. Timeout, expired' \in BOOLEAN,
         (gone' = gone) \/ (gone' = FALSE /\ traced),
         UNCHANGED <<kind, mine, calls, mutex, list, kernel, traced, leaving, debugged,
                     attaches, lent, unsure, alive, readers>>
  PROVE  PrepareInv'
<1> USE Distinct DEF PrepareInv
<1>1. Control' /\ Lists' /\ Maps' /\ Checked' /\ Lookups'
  BY MovesKeep DEF Preparing, Waiting
<1> USE DEF list, kernel, readers
<1>2. pc'[t] = p /\ \A u \in Threads : u # t => pc'[u] = pc[u]
  BY DEF TypeOK
<1>3. TypeOK'
  <2>1. pc' \in [Threads -> Places]
    BY DEF TypeOK, Places, Waiting
  <2>2. err' \in [Threads -> Errors]
    BY DEF TypeOK, Errors
  <2>3. gone' \in BOOLEAN
    BY DEF TypeOK
  <2>4. QED
    BY <2>1, <2>2, <2>3 DEF TypeOK
<1>4. \A u \in Threads : u # t => pc[u] \notin Holding
  BY OnlyHolder DEF Holding, Preparing, Waiting
<1>5. Timeouts'
  BY <1>2, <1>4 DEF Timeouts, Smooth, Preparing, At, TypeOK, Waiting, Holding
<1>6. Lent'
  BY <1>2 DEF Lent, Lending, Waiting
<1>7. QED
  BY <1>1, <1>3, <1>5, <1>6

LEMMA FirstLookKeeps ==
  ASSUME PrepareInv, NEW t \in Threads, FirstLook(t)
  PROVE  PrepareInv'
<1>1. /\ pc[t] = "firstLook"
      /\ UNCHANGED <<kind, mine, calls, mutex, list, kernel, traced, leaving, debugged,
                     attaches, lent, unsure, alive, expired, readers>>
  BY DEF FirstLook, At
<1>2. PICK p \in {"look", "verify", "release"} :
        /\ pc' = [pc EXCEPT ![t] = p]
        /\ IF p = "release" THEN err' = [err EXCEPT ![t] = "EIO"] ELSE err' = err
        /\ \/ left' = left /\ gone' = gone
           \/ left' = Timeout /\ gone' = FALSE /\ traced
  BY DEF FirstLook, Fail, Exit, Goto
<1>3. left' \in 0 .. Timeout /\ expired' \in BOOLEAN
  BY <1>1, <1>2, PrepareAssumption DEF PrepareInv, TypeOK
<1>4. QED
  BY <1>1, <1>2, <1>3, WaitKeeps

LEMMA LookKeeps ==
  ASSUME PrepareInv, NEW t \in Threads, Look(t)
  PROVE  PrepareInv'
<1>1. /\ pc[t] \in Waiting /\ gone' = gone
      /\ UNCHANGED <<kind, mine, calls, mutex, list, kernel, traced, leaving, debugged,
                     attaches, lent, unsure, alive, readers>>
  BY DEF Look, OnlyWaits, At, Waiting, debugger
<1>2. PICK p \in {"sleep", "poll", "release"} :
        /\ pc' = [pc EXCEPT ![t] = p]
        /\ IF p = "release" THEN err' = [err EXCEPT ![t] = "EIO"] ELSE err' = err
  BY DEF Look, Fail, Exit, Goto
<1>3. left' \in 0 .. Timeout /\ expired' \in BOOLEAN
  <2>1. \/ left' \in 0 .. left /\ expired' = (left' = 0)
        \/ left' = left /\ expired' = expired
    BY DEF Look, clock
  <2>2. left \in 0 .. Timeout /\ Timeout \in Nat /\ expired \in BOOLEAN
    BY PrepareAssumption DEF PrepareInv, TypeOK
  <2>3. left' \in 0 .. Timeout
    BY <2>1, <2>2
  <2>4. expired' \in BOOLEAN
    BY <2>1, <2>2, Zenon
  <2>5. QED
    BY <2>3, <2>4
<1>4. QED
  BY <1>1, <1>2, <1>3, WaitKeeps

LEMMA SleepKeeps ==
  ASSUME PrepareInv, NEW t \in Threads, Sleep(t)
  PROVE  PrepareInv'
<1>1. /\ pc[t] \in Waiting /\ gone' = gone
      /\ UNCHANGED <<kind, mine, calls, mutex, list, kernel, traced, leaving, debugged,
                     attaches, lent, unsure, alive, readers>>
  BY DEF Sleep, OnlyWaits, At, Waiting, debugger
<1>2. PICK p \in {"poll", "release"} :
        /\ pc' = [pc EXCEPT ![t] = p]
        /\ IF p = "release" THEN err' = [err EXCEPT ![t] = "EIO"] ELSE err' = err
  BY DEF Sleep, Fail, Exit, Goto
<1>3. left' \in 0 .. Timeout /\ expired' \in BOOLEAN
  BY PrepareAssumption DEF Sleep, PrepareInv, TypeOK
<1>4. QED
  BY <1>1, <1>2, <1>3, WaitKeeps

LEMMA PollKeeps ==
  ASSUME PrepareInv, NEW t \in Threads, Poll(t)
  PROVE  PrepareInv'
<1>1. /\ pc[t] \in Waiting /\ gone' = gone
      /\ UNCHANGED <<kind, mine, calls, mutex, list, kernel, traced, leaving, debugged,
                     attaches, lent, unsure, alive, readers>>
  BY DEF Poll, OnlyWaits, At, Waiting, debugger
<1>2. PICK p \in {"look", "verify", "release"}, e \in {"EIO", "EBUSY"} :
        /\ pc' = [pc EXCEPT ![t] = p]
        /\ IF p = "release" THEN err' = [err EXCEPT ![t] = e] ELSE err' = err
        /\ e = "EBUSY" => traced
  BY DEF Poll, Fail, Exit, Goto
<1>3. left' \in 0 .. Timeout /\ expired' \in BOOLEAN
  BY DEF Poll, clock, PrepareInv, TypeOK
<1>4. QED
  BY <1>1, <1>2, <1>3, WaitKeeps

LEMMA TrapKeeps ==
  ASSUME PrepareInv, NEW t \in Threads, Trap(t)
  PROVE  PrepareInv'
<1> USE DEF PrepareInv, call, list, kernel, clock, readers
<1>1. /\ alive' = FALSE
      /\ UNCHANGED <<call, mutex, list, kernel, traced, leaving, debugged, attaches, lent,
                     unsure, gone, clock, readers>>
  BY DEF Trap
<1>2. TypeOK'
  BY <1>1 DEF TypeOK
<1>3. Control' /\ Timeouts' /\ Lent'
  BY <1>1 DEF Control, Timeouts, At, Lent
<1>4. Lists' /\ Lookups' /\ Checked'
  BY <1>1 DEF Lists, Linked, Owns, At, Published, Chain, Lookups, Checked, Verified
<1>5. Maps'
  BY <1>1 DEF Maps, Owns, At
<1>6. QED
  BY <1>2, <1>3, <1>4, <1>5

-----------------------------------------------------------------------------
(* Steps that begin and end a call                                         *)

\* Nothing that a chain depends on changes when a link elsewhere does.
LEMMA EndsSame ==
  ASSUME NEW f \in Links, NEW g \in Links, NEW m, NEW x \in Arenas \cup {None},
         \A b \in Arenas \ {m} : g[b] = f[b], m \notin Chain(x, f),
         \A b \in Chain(x, f) : b \notin Chain(f[b], f)
  PROVE  /\ Chain(x, g) = Chain(x, f)
         /\ \A b \in Chain(x, g) : b \notin Chain(g[b], g)
<1>1. Chain(x, g) = Chain(x, f) /\ Chain(x, f) \subseteq Arenas
  BY ChainSame DEF Chain
<1>2. ASSUME NEW b \in Chain(x, f) PROVE b \notin Chain(g[b], g)
  <2>1. b \in Arenas /\ b # m /\ g[b] = f[b] /\ f[b] \in Chain(x, f) \cup {None}
    BY <1>1, <1>2, ChainClosed
  <2>2. Chain(f[b], f) \subseteq Chain(x, f)
    BY <2>1, ChainWithin, ChainEmpty
  <2>3. m \notin Chain(f[b], f) /\ f[b] \in Arenas \cup {None}
    BY <1>1, <2>1, <2>2
  <2>4. Chain(f[b], g) = Chain(f[b], f)
    BY <2>3, ChainSame
  <2>5. QED
    BY <1>2, <2>1, <2>4
<1>3. QED
  BY <1>1, <1>2

LEMMA ListTypes == TypeOK => /\ next \in Links /\ head \in Arenas \cup {None}
                             /\ Published \subseteq Arenas /\ heap \subseteq Arenas
  BY DEF TypeOK, Links, Published, Chain

LEMMA BeginKeeps ==
  ASSUME PrepareInv, NEW t \in Threads, NEW k \in Kinds, Begin(t, k)
  PROVE  PrepareInv'
<1> USE Distinct DEF PrepareInv
<1>1. /\ pc[t] = "idle" /\ calls[t] < MaxCalls
      /\ k = "cleanup" => \A r \in Readers : cur[r] = "idle"
      /\ kind' = [kind EXCEPT ![t] = k]
      /\ mine' = [mine EXCEPT ![t] = None]
      /\ err' = [err EXCEPT ![t] = "OK"]
      /\ calls' = [calls EXCEPT ![t] = calls[t] + 1]
      /\ UNCHANGED <<mutex, list, kernel, debugger, clock, readers>>
  BY DEF Begin, At
<1>2. PICK p \in {"lock", "enter"} : /\ pc' = [pc EXCEPT ![t] = p]
                                     /\ p = "lock" <=> k = "cleanup"
  BY DEF Begin, Goto
<1> USE DEF list, kernel, debugger, clock, readers
<1>3. /\ pc'[t] = p /\ kind'[t] = k
      /\ \A u \in Threads : u # t => pc'[u] = pc[u] /\ kind'[u] = kind[u] /\ mine'[u] = mine[u]
  BY <1>1, <1>2 DEF TypeOK
<1>4. TypeOK'
  <2>1. pc' \in [Threads -> Places] /\ kind' \in [Threads -> Kinds]
    BY <1>1, <1>2 DEF TypeOK, Places
  <2>2. mine' \in [Threads -> Arenas \cup {None}] /\ err' \in [Threads -> Errors]
    BY <1>1 DEF TypeOK, Errors
  <2>3. calls' \in [Threads -> 0 .. MaxCalls]
    <3>1. calls[t] \in 0 .. MaxCalls /\ MaxCalls \in Nat
      BY PrepareAssumption DEF TypeOK
    <3>2. calls[t] + 1 \in 0 .. MaxCalls
      BY <1>1, <3>1
    <3>3. QED
      BY <1>1, <3>2 DEF TypeOK
  <2>4. QED
    BY <1>1, <2>1, <2>2, <2>3 DEF TypeOK
<1>5. Control'
  BY <1>1, <1>2, <1>3 DEF Control, Preparing, Holding
<1>6. ~Owns(t) /\ ~Owns(t)' /\ \A u \in Threads : u # t => (Owns(u)' <=> Owns(u))
  BY <1>1, <1>2, <1>3 DEF Owns, Preparing
<1>7. Lists'
  BY <1>1, <1>2, <1>3, <1>6 DEF Lists, Linked, Published, At
<1>8. Maps'
  BY <1>1, <1>2, <1>3, <1>6 DEF Maps, At
<1>9. Checked'
  BY <1>1, <1>2, <1>3 DEF Checked, Published, Verified
<1>10. Timeouts'
  BY <1>1, <1>2, <1>3 DEF Timeouts, Smooth, Preparing, At, TypeOK
<1>11. Lent'
  BY <1>1, <1>2, <1>3 DEF Lent, Lending
<1>12. Lookups'
  BY <1>1, <1>2, <1>3 DEF Lookups, Published, At
<1>13. QED
  BY <1>4, <1>5, <1>7, <1>8, <1>9, <1>10, <1>11, <1>12

\* A call that owns nothing yet ends.
LEMMA EndingKeeps ==
  ASSUME PrepareInv, NEW t \in Threads, NEW e \in Errors,
         ~Owns(t), pc[t] \in {"enter", "lock"},
         pc' = [pc EXCEPT ![t] = "idle"], err' = [err EXCEPT ![t] = e],
         UNCHANGED <<kind, mine, calls, mutex, list, kernel, debugger, clock, readers>>
  PROVE  PrepareInv'
<1> USE Distinct DEF PrepareInv, list, kernel, debugger, clock, readers
<1>1. pc'[t] = "idle" /\ \A u \in Threads : u # t => pc'[u] = pc[u]
  BY DEF TypeOK
<1>2. TypeOK'
  <2>1. pc' \in [Threads -> Places] /\ err' \in [Threads -> Errors]
    BY DEF TypeOK, Places
  <2>2. QED
    BY <2>1 DEF TypeOK
<1>3. Control'
  BY <1>1 DEF Control, Preparing, Holding
<1>4. \A u \in Threads : Owns(u)' <=> Owns(u)
  BY <1>1 DEF Owns, Preparing
<1>5. Lists'
  BY <1>1, <1>4 DEF Lists, Linked, Published, At
<1>6. Maps'
  BY <1>1, <1>4 DEF Maps, At
<1>7. Checked'
  BY <1>1 DEF Checked, Published, Verified
<1>8. Timeouts'
  BY <1>1 DEF Timeouts, Smooth, Preparing, At, TypeOK
<1>9. Lent'
  BY <1>1 DEF Lent, Lending
<1>10. Lookups'
  BY <1>1 DEF Lookups, Published, At
<1>11. QED
  BY <1>2, <1>3, <1>5, <1>6, <1>7, <1>8, <1>9, <1>10

LEMMA EnterEndsKeeps ==
  ASSUME PrepareInv, NEW t \in Threads, EnterEnds(t)
  PROVE  PrepareInv'
<1>1. /\ pc[t] = "enter" /\ pc' = [pc EXCEPT ![t] = "idle"]
      /\ UNCHANGED <<kind, mine, calls, mutex, list, kernel, debugger, clock, readers>>
  BY DEF EnterEnds, OnlyMoves, At, Return, Exit, Goto
<1>2. PICK e \in Errors : err' = [err EXCEPT ![t] = e]
  BY DEF EnterEnds, Return, Exit, Errors
<1>3. ~Owns(t)
  BY <1>1 DEF Owns, Preparing
<1>4. QED
  BY <1>1, <1>2, <1>3, EndingKeeps

LEMMA LockFailsKeeps ==
  ASSUME PrepareInv, NEW t \in Threads, LockFails(t)
  PROVE  PrepareInv'
<1>1. /\ pc[t] = "lock" /\ pc' = [pc EXCEPT ![t] = "idle"]
      /\ err' = [err EXCEPT ![t] = "EINVAL"] /\ "EINVAL" \in Errors
      /\ UNCHANGED <<kind, mine, calls, mutex, head, next, kernel, debugger, clock, readers>>
  BY DEF LockFails, Return, Exit, Goto, At, Errors
<1>2. CASE kind[t] = "cleanup"
  <2>1. UNCHANGED heap /\ ~Owns(t)
    BY <1>1, <1>2 DEF LockFails, Owns, Preparing
  <2>2. QED
    BY <1>1, <2>1, EndingKeeps DEF list
<1>3. CASE kind[t] # "cleanup"
  <2>1. heap' = heap \ {mine[t]} /\ Owns(t)
    BY <1>1, <1>3 DEF LockFails, Owns
  <2>2. QED
    BY <1>1, <2>1, GivingUpKeeps
<1>4. QED
  BY <1>2, <1>3

\* A fresh structure is in no list.
LEMMA EnterKeeps ==
  ASSUME PrepareInv, NEW t \in Threads, NEW a \in Arenas, Enter(t, a)
  PROVE  PrepareInv'
<1> USE Distinct DEF PrepareInv
<1>1. /\ pc[t] = "enter" /\ a \notin heap
      /\ heap' = heap \cup {a}
      /\ next' = [next EXCEPT ![a] = None]
      /\ field' = [field EXCEPT ![a] = [side \in Sides |-> "null"]]
      /\ mine' = [mine EXCEPT ![t] = a]
      /\ pc' = [pc EXCEPT ![t] = "lock"]
      /\ UNCHANGED <<kind, err, calls, mutex, head, prot, device, debugger, clock, readers>>
  BY DEF Enter, At, Goto
<1> USE DEF list, kernel, debugger, clock, readers
<1>2. /\ pc'[t] = "lock" /\ mine'[t] = a /\ kind[t] # "cleanup"
      /\ \A u \in Threads : u # t => pc'[u] = pc[u] /\ mine'[u] = mine[u]
  BY <1>1 DEF TypeOK, Control
<1>3. /\ next \in Links /\ next' \in Links /\ \A b \in Arenas \ {a} : next'[b] = next[b]
      /\ head \in Arenas \cup {None} /\ heap \subseteq Arenas
      /\ field' \in [Arenas -> [Sides -> {"null", "region", "odd"}]]
      /\ field'[a] = [side \in Sides |-> "null"]
      /\ \A b \in Arenas \ {a} : field'[b] = field[b]
  BY <1>1, ListTypes DEF Links, TypeOK
<1>4. TypeOK'
  <2>1. pc' \in [Threads -> Places] /\ mine' \in [Threads -> Arenas \cup {None}]
    BY <1>1 DEF TypeOK, Places
  <2>2. QED
    BY <1>1, <1>3, <2>1 DEF TypeOK, Links
<1>5. Control'
  BY <1>1, <1>2 DEF Control, Preparing, Holding
<1>6. ~Owns(t) /\ Owns(t)' /\ \A u \in Threads : u # t => (Owns(u)' <=> Owns(u))
  BY <1>1, <1>2 DEF Owns, Preparing
<1>7. ASSUME NEW x \in Arenas \cup {None}, Linked(x)
      PROVE  /\ Chain(x, next') = Chain(x, next)
             /\ \A b \in Chain(x, next') : b \notin Chain(next'[b], next')
  <2>1. a \notin Chain(x, next) /\ \A b \in Chain(x, next) : b \notin Chain(next[b], next)
    BY <1>1, <1>7 DEF Linked
  <2>2. QED
    BY <1>3, <2>1, EndsSame
<1>8. Published' = Published
  BY <1>1, <1>3, <1>7 DEF Published, Lists
<1>9. Lists'
  <2>1. Linked(head)'
    BY <1>1, <1>3, <1>7 DEF Lists, Linked
  <2>2. \A u \in Threads : Owns(u)' => mine'[u] \in heap' \ Published'
    BY <1>1, <1>2, <1>6, <1>8 DEF Lists, Published, Linked
  <2>3. \A u, v \in Threads : Owns(u)' /\ Owns(v)' /\ mine'[u] = mine'[v] => u = v
    BY <1>1, <1>2, <1>6 DEF Lists
  <2>4. \A u \in Threads : pc'[u] = "store" => next'[mine'[u]] = head'
    <3>1. ASSUME NEW u \in Threads, pc'[u] = "store"
          PROVE  next'[mine'[u]] = head'
      <4>1. pc[u] = "store" /\ mine'[u] = mine[u] /\ mine[u] \in heap
        BY <1>2, <3>1 DEF Lists, Owns, Preparing
      <4>2. QED
        BY <1>1, <1>3, <4>1 DEF Lists, At
    <3>2. QED
      BY <3>1
  <2>5. ASSUME NEW u \in Threads, pc'[u] = "clean"
        PROVE  /\ head' = None
               /\ Linked(mine[u])'
               /\ Chain(mine'[u], next') = Chain(mine[u], next)
               /\ \A v \in Threads : Owns(v)' => mine'[v] \notin Chain(mine'[u], next')
    <3>1. /\ pc[u] = "clean" /\ mine'[u] = mine[u] /\ head = None /\ Linked(mine[u])
          /\ mine[u] \in Arenas \cup {None}
          /\ \A v \in Threads : Owns(v) => mine[v] \notin Chain(mine[u], next)
      BY <1>2, <2>5 DEF Lists, At, TypeOK
    <3>2. Chain(mine[u], next') = Chain(mine[u], next)
          /\ \A b \in Chain(mine[u], next') : b \notin Chain(next'[b], next')
      BY <1>7, <3>1
    <3>3. QED
      BY <1>1, <1>2, <1>6, <3>1, <3>2 DEF Linked
  <2>6. ASSUME NEW b \in heap'
        PROVE  \/ b \in Published'
               \/ \E u \in Threads : Owns(u)' /\ mine'[u] = b
               \/ \E u \in Threads : pc'[u] = "clean" /\ b \in Chain(mine'[u], next')
    <3>1. CASE b = a
      BY <1>2, <1>6, <3>1
    <3>2. CASE b \in heap
      <4>1. \A u \in Threads : pc[u] = "clean" => pc'[u] = "clean"
        BY <1>1, <1>2
      <4>2. \A u \in Threads : Owns(u) => Owns(u)' /\ mine'[u] = mine[u]
        BY <1>2, <1>6
      <4>3. QED
        BY <1>8, <2>5, <3>2, <4>1, <4>2 DEF Lists, At
    <3>3. QED
      BY <1>1, <3>1, <3>2
  <2>7. QED
    BY <2>1, <2>2, <2>3, <2>4, <2>5, <2>6 DEF Lists, At
<1>10. Maps'
  <2>1. \A u \in Threads : u # t /\ Owns(u) => mine[u] # a
    BY <1>1 DEF Lists
  <2>2. /\ \A b \in heap', side \in Sides : field'[b][side] = "region" <=> prot'[b][side] # "unmapped"
        /\ \A b \in Arenas \ heap', side \in Sides : prot'[b][side] = "unmapped"
    BY <1>1, <1>3 DEF Maps
  <2>3. ASSUME NEW u \in Threads
        PROVE  /\ Owns(u)' => \A side \in Sides :
                    field'[mine'[u]][side] = "odd" => pc'[u] = "address" /\ side = "execute"
               /\ Owns(u)' /\ pc'[u] \in {"lock", "recheck", "protocol", "status", "ask"} =>
                    \A side \in Sides : field'[mine'[u]][side] = "null"
               /\ pc'[u] \in {"protect", "remap", "alias"} => field'[mine'[u]]["execute"] = "region"
               /\ pc'[u] = "alias" => field'[mine'[u]]["write"] = "region"
    <3>1. CASE u = t
      BY <1>2, <1>3, <3>1
    <3>2. CASE u # t /\ Owns(u)
      <4>1. mine'[u] = mine[u] /\ pc'[u] = pc[u] /\ field'[mine[u]] = field[mine[u]]
        BY <1>2, <1>3, <2>1, <3>2 DEF Lists
      <4>2. QED
        BY <3>2, <4>1 DEF Maps, At
    <3>3. CASE u # t /\ ~Owns(u)
      BY <1>2, <1>6, <3>3 DEF Owns, Preparing
    <3>4. QED
      BY <3>1, <3>2, <3>3
  <2>4. QED
    BY <2>2, <2>3 DEF Maps, At
<1>11. Checked'
  BY <1>1, <1>2, <1>8 DEF Checked, Verified
<1>12. Timeouts'
  BY <1>1, <1>2 DEF Timeouts, Smooth, Preparing, At, TypeOK
<1>13. Lent'
  BY <1>1, <1>2 DEF Lent, Lending
<1>14. Lookups'
  <2>1. ASSUME NEW r \in Readers, cur[r] # "idle"
        PROVE  Chain(cur[r], next') = Chain(cur[r], next)
    <3>1. cur[r] \in Published \cup {None}
      BY <2>1 DEF Lookups
    <3>2. Chain(cur[r], next) \subseteq Published
      BY <1>3, <3>1, ChainWithin, ChainEmpty DEF Published
    <3>3. a \notin Chain(cur[r], next) /\ cur[r] \in Arenas \cup {None}
      BY <1>1, <3>1, <3>2, ListTypes DEF Lists, Linked, Published
    <3>4. QED
      BY <1>3, <3>3, ChainSame
  <2>2. \A u \in Threads : kind[u] = "cleanup" /\ At(u, "idle") => At(u, "idle")'
    BY <1>1, <1>2 DEF At
  <2>3. QED
    BY <1>1, <1>8, <2>1, <2>2 DEF Lookups
<1>15. QED
  BY <1>4, <1>5, <1>9, <1>10, <1>11, <1>12, <1>13, <1>14

LEMMA LockKeeps ==
  ASSUME PrepareInv, NEW t \in Threads, Lock(t)
  PROVE  PrepareInv'
<1> USE Distinct DEF PrepareInv
<1>1. /\ pc[t] = "lock" /\ mutex = None /\ mutex' = t
      /\ UNCHANGED <<kind, mine, err, calls, list, kernel, debugger, clock, readers>>
  BY DEF Lock, At
<1>2. PICK p \in {"exchange", "recheck"} : /\ pc' = [pc EXCEPT ![t] = p]
                                           /\ p = "exchange" <=> kind[t] = "cleanup"
  BY DEF Lock, Goto
<1> USE DEF list, kernel, debugger, clock, readers
<1>3. pc'[t] = p /\ \A u \in Threads : u # t => pc'[u] = pc[u]
  BY <1>2 DEF TypeOK
<1>4. TypeOK'
  <2>1. pc' \in [Threads -> Places]
    BY <1>2 DEF TypeOK, Places
  <2>2. QED
    BY <1>1, <2>1 DEF TypeOK
<1>5. \A u \in Threads : pc[u] \notin Holding
  BY <1>1 DEF Control
<1>6. Control'
  BY <1>1, <1>2, <1>3, <1>5 DEF Control, Preparing, Holding
<1>7. \A u \in Threads : Owns(u)' <=> Owns(u)
  BY <1>1, <1>2, <1>3 DEF Owns, Preparing
<1>8. Lists'
  BY <1>1, <1>2, <1>3, <1>7 DEF Lists, Linked, Published, At
<1>9. Maps'
  BY <1>1, <1>2, <1>3, <1>7 DEF Maps, At, Owns, Preparing
<1>10. Checked'
  BY <1>1, <1>2, <1>3 DEF Checked, Published, Verified
<1>11. Timeouts'
  BY <1>1, <1>2, <1>3 DEF Timeouts, Smooth, Preparing, At, TypeOK
<1>12. Lent'
  BY <1>1, <1>2, <1>3, <1>5 DEF Lent, Lending, Holding, Preparing
<1>13. Lookups'
  BY <1>1, <1>2, <1>3 DEF Lookups, Published, At
<1>14. QED
  BY <1>4, <1>6, <1>8, <1>9, <1>10, <1>11, <1>12, <1>13

\* The new arena points at the list; no chain that matters goes through it.
LEMMA LinkKeeps ==
  ASSUME PrepareInv, NEW t \in Threads, Link(t)
  PROVE  PrepareInv'
<1> USE Distinct DEF PrepareInv
<1>1. PICK a : a = mine[t]
  OBVIOUS
<1>2. /\ pc[t] = "link" /\ next' = [next EXCEPT ![a] = head]
      /\ pc' = [pc EXCEPT ![t] = "store"]
      /\ UNCHANGED <<kind, mine, err, calls, mutex, head, heap, kernel, debugger, clock, readers>>
  BY <1>1 DEF Link, At, Goto
<1> USE DEF list, kernel, debugger, clock, readers
<1>3. pc'[t] = "store" /\ \A u \in Threads : u # t => pc'[u] = pc[u] /\ pc[u] \notin Holding
  BY <1>2, OnlyHolder DEF TypeOK, Holding, Preparing
<1>4. /\ next \in Links /\ head \in Arenas \cup {None} /\ heap \subseteq Arenas
      /\ Owns(t) /\ a \in heap \ Published
  BY <1>1, <1>2, ListTypes DEF Owns, Preparing, Lists
<1>5. /\ next' \in Links /\ \A b \in Arenas \ {a} : next'[b] = next[b]
      /\ next'[a] = head
  BY <1>2, <1>4 DEF Links
<1>6. TypeOK'
  <2>1. pc' \in [Threads -> Places]
    BY <1>2 DEF TypeOK, Places
  <2>2. QED
    BY <1>2, <1>5, <2>1 DEF TypeOK, Links
<1>7. Control'
  BY <1>2, <1>3 DEF Control, Preparing, Holding
<1>8. \A u \in Threads : Owns(u)' <=> Owns(u)
  BY <1>2, <1>3 DEF Owns, Preparing
<1>9. Published' = Published /\ \A b \in Published : b \notin Chain(next'[b], next')
  <2>1. a \notin Chain(head, next) /\ \A b \in Chain(head, next) : b \notin Chain(next[b], next)
    BY <1>4 DEF Published, Lists, Linked
  <2>2. Chain(head, next') = Chain(head, next)
        /\ \A b \in Chain(head, next') : b \notin Chain(next'[b], next')
    BY <1>4, <1>5, <2>1, EndsSame
  <2>3. QED
    BY <1>2, <2>2 DEF Published
<1>10. Lists'
  <2>1. Linked(head)'
    BY <1>2, <1>9 DEF Lists, Linked, Published
  <2>2. \A u \in Threads : pc'[u] = "store" => next'[mine[u]] = head
    BY <1>1, <1>3, <1>5 DEF Holding, Preparing
  <2>3. \A u \in Threads : pc'[u] # "clean" /\ pc[u] # "clean"
    BY <1>2, <1>3 DEF Holding
  <2>4. QED
    BY <1>2, <1>8, <1>9, <2>1, <2>2, <2>3 DEF Lists, At
<1>11. Maps'
  BY <1>2, <1>3, <1>8 DEF Maps, At, Owns, Preparing
<1>12. Checked'
  BY <1>2, <1>3, <1>9 DEF Checked, Verified
<1>13. Timeouts'
  BY <1>2, <1>3 DEF Timeouts, Smooth, Preparing, At, TypeOK
<1>14. Lent'
  BY <1>2, <1>3 DEF Lent, Lending
<1>15. Lookups'
  <2>1. ASSUME NEW r \in Readers, cur[r] # "idle"
        PROVE  Chain(cur[r], next') = Chain(cur[r], next)
    <3>1. cur[r] \in Published \cup {None}
      BY <2>1 DEF Lookups
    <3>2. Chain(cur[r], next) \subseteq Published
      BY <1>4, <3>1, ChainWithin, ChainEmpty DEF Published
    <3>3. a \notin Chain(cur[r], next) /\ cur[r] \in Arenas \cup {None}
      BY <1>4, <3>1, <3>2, ListTypes
    <3>4. QED
      BY <1>4, <1>5, <3>3, ChainSame
  <2>2. \A u \in Threads : At(u, "idle") => At(u, "idle")'
    BY <1>2, <1>3 DEF At
  <2>3. QED
    BY <1>2, <1>9, <2>1, <2>2 DEF Lookups
<1>16. QED
  BY <1>6, <1>7, <1>10, <1>11, <1>12, <1>13, <1>14, <1>15

\* The list begins with the new arena and goes on as before.
LEMMA StoreKeeps ==
  ASSUME PrepareInv, NEW t \in Threads, Store(t)
  PROVE  PrepareInv'
<1> USE Distinct DEF PrepareInv
<1>1. PICK a : a = mine[t]
  OBVIOUS
<1>2. /\ pc[t] = "store" /\ head' = a
      /\ pc' = [pc EXCEPT ![t] = "unlock"]
      /\ UNCHANGED <<kind, mine, err, calls, mutex, next, heap, kernel, debugger, clock, readers>>
  BY <1>1 DEF Store, At, Goto
<1> USE DEF list, kernel, debugger, clock, readers
<1>3. pc'[t] = "unlock" /\ \A u \in Threads : u # t => pc'[u] = pc[u] /\ pc[u] \notin Holding
  BY <1>2, OnlyHolder DEF TypeOK, Holding, Preparing
<1>4. /\ next \in Links /\ head \in Arenas \cup {None} /\ heap \subseteq Arenas
      /\ Owns(t) /\ a \in heap \ Published /\ next[a] = head
      /\ kind[t] # "cleanup"
  BY <1>1, <1>2, ListTypes DEF Owns, Preparing, Lists, At, Control
<1>5. Published' = {a} \cup Published
  BY <1>2, <1>4, ChainStep DEF Published
<1>6. TypeOK'
  <2>1. pc' \in [Threads -> Places]
    BY <1>2 DEF TypeOK, Places
  <2>2. QED
    BY <1>2, <1>4, <2>1 DEF TypeOK
<1>7. Control'
  BY <1>2, <1>3 DEF Control, Preparing, Holding
<1>8. ~Owns(t)' /\ \A u \in Threads : u # t => (Owns(u)' <=> Owns(u))
  BY <1>2, <1>3 DEF Owns, Preparing
<1>9. Lists'
  <2>1. Linked(head)'
    <3>1. \A b \in Published : b \in heap /\ b \notin Chain(next[b], next)
      BY DEF Lists, Linked, Published
    <3>2. a \notin Chain(next[a], next)
      BY <1>4 DEF Published
    <3>3. QED
      BY <1>2, <1>4, <1>5, <3>1, <3>2 DEF Linked, Published
  <2>2. \A u \in Threads : Owns(u)' => mine[u] \in heap \ Published'
    BY <1>1, <1>4, <1>5, <1>8 DEF Lists
  <2>3. \A u \in Threads : pc'[u] # "clean" /\ pc[u] # "clean" /\ pc'[u] # "store"
    BY <1>2, <1>3 DEF Holding, Preparing
  <2>4. QED
    BY <1>1, <1>2, <1>5, <1>8, <2>1, <2>2, <2>3 DEF Lists, At
<1>10. Maps'
  BY <1>2, <1>3, <1>8 DEF Maps, At
<1>11. Checked'
  BY <1>1, <1>2, <1>3, <1>5 DEF Checked, Verified
<1>12. Timeouts'
  BY <1>2, <1>3 DEF Timeouts, Smooth, Preparing, At, TypeOK
<1>13. Lent'
  BY <1>2, <1>3 DEF Lent, Lending
<1>14. Lookups'
  <2>1. \A u \in Threads : kind[u] = "cleanup" /\ At(u, "idle") => At(u, "idle")'
    BY <1>2, <1>3 DEF At
  <2>2. QED
    BY <1>2, <1>5, <2>1 DEF Lookups
<1>15. QED
  BY <1>6, <1>7, <1>9, <1>10, <1>11, <1>12, <1>13, <1>14

\* A failed call unmaps what it mapped and frees what nobody has seen.
LEMMA ReleaseKeeps ==
  ASSUME PrepareInv, NEW t \in Threads, Release(t)
  PROVE  PrepareInv'
<1> USE Distinct DEF PrepareInv
<1>1. PICK a : a = mine[t]
  OBVIOUS
<1>2. /\ pc[t] = "release" /\ heap' = heap \ {a}
      /\ pc' = [pc EXCEPT ![t] = "unlock"]
      /\ UNCHANGED <<kind, mine, err, calls, mutex, head, next, field, device, traced,
                     leaving, debugged, attaches, lent, gone, alive, clock, readers>>
  BY <1>1 DEF Release, At, Goto
<1>3. prot' = [prot EXCEPT ![a] = [side \in Sides |->
                  IF field[a][side] = "null" THEN prot[a][side] ELSE "unmapped"]]
  BY <1>1 DEF Release, Unmap
<1>4. unsure' \in BOOLEAN
  BY DEF Release, TypeOK
<1> USE DEF list, clock, readers
<1>5. pc'[t] = "unlock" /\ \A u \in Threads : u # t => pc'[u] = pc[u] /\ pc[u] \notin Holding
  BY <1>2, OnlyHolder DEF TypeOK, Holding, Preparing
<1>6. Owns(t) /\ a \in heap \ Published /\ a \in Arenas /\ heap \subseteq Arenas
  BY <1>1, <1>2, ListTypes DEF Owns, Preparing, Lists
<1>7. /\ prot' \in [Arenas -> [Sides -> {"unmapped", "rw", "rx"}]]
      /\ \A b \in Arenas \ {a} : prot'[b] = prot[b]
      /\ \A side \in Sides : prot'[a][side] = "unmapped"
  <2>1. \A side \in Sides : field[a][side] = "null" => prot[a][side] = "unmapped"
    BY <1>6 DEF Maps
  <2>2. QED
    BY <1>3, <1>6, <2>1 DEF TypeOK
<1>8. Published' = Published /\ (head # None => head \in Published)
  BY <1>2, ListTypes, ChainSelf DEF Published
<1>9. TypeOK'
  <2>1. pc' \in [Threads -> Places]
    BY <1>2 DEF TypeOK, Places
  <2>2. head' \in heap' \cup {None} /\ heap' \subseteq Arenas
    BY <1>2, <1>6, <1>8 DEF TypeOK
  <2>3. QED
    BY <1>2, <1>4, <1>7, <2>1, <2>2 DEF TypeOK
<1>10. Control'
  BY <1>2, <1>5 DEF Control, Preparing, Holding
<1>11. ~Owns(t)' /\ \A u \in Threads : u # t => (Owns(u)' <=> Owns(u))
  BY <1>2, <1>5 DEF Owns, Preparing
<1>12. Lists'
  <2>1. Linked(head)'
    BY <1>2, <1>6 DEF Lists, Linked, Published
  <2>2. \A u \in Threads : Owns(u)' => mine[u] \in heap' \ Published'
    BY <1>1, <1>2, <1>6, <1>8, <1>11 DEF Lists
  <2>3. \A u \in Threads : pc'[u] # "clean" /\ pc[u] # "clean" /\ pc'[u] # "store"
    BY <1>2, <1>5 DEF Holding, Preparing
  <2>4. QED
    BY <1>1, <1>2, <1>8, <1>11, <2>1, <2>2, <2>3 DEF Lists, At
<1>13. Maps'
  <2>1. /\ \A b \in heap', side \in Sides : field'[b][side] = "region" <=> prot'[b][side] # "unmapped"
        /\ \A b \in Arenas \ heap', side \in Sides : prot'[b][side] = "unmapped"
    BY <1>2, <1>6, <1>7 DEF Maps
  <2>2. QED
    BY <1>2, <1>5, <1>11, <2>1 DEF Maps, At
<1>14. Checked'
  <2>1. \A b \in Published : b \in Arenas \ {a}
    BY <1>6 DEF Lists, Linked, Published
  <2>2. \A u \in Threads : pc'[u] \notin {"link", "store"}
    BY <1>5 DEF Holding, Preparing
  <2>3. QED
    BY <1>7, <1>8, <2>1, <2>2 DEF Checked, Verified
<1>15. Timeouts'
  BY <1>2, <1>5 DEF Timeouts, Smooth, Preparing, At, TypeOK
<1>16. Lent'
  BY <1>2, <1>5 DEF Lent, Lending
<1>17. Lookups'
  <2>1. \A u \in Threads : kind[u] = "cleanup" /\ At(u, "idle") => At(u, "idle")'
    BY <1>2, <1>5 DEF At
  <2>2. QED
    BY <1>2, <1>8, <2>1 DEF Lookups
<1>18. QED
  BY <1>9, <1>10, <1>12, <1>13, <1>14, <1>15, <1>16, <1>17

LEMMA UnlockKeeps ==
  ASSUME PrepareInv, NEW t \in Threads, Unlock(t)
  PROVE  PrepareInv'
<1> USE Distinct DEF PrepareInv
<1>1. /\ pc[t] = "unlock" /\ mutex' = None /\ pc' = [pc EXCEPT ![t] = "idle"]
      /\ UNCHANGED <<kind, mine, err, calls, list, kernel, debugger, clock, readers>>
  BY DEF Unlock, At, Goto
<1> USE DEF list, kernel, debugger, clock, readers
<1>2. pc'[t] = "idle" /\ \A u \in Threads : u # t => pc'[u] = pc[u] /\ pc[u] \notin Holding
  BY <1>1, OnlyHolder DEF TypeOK, Holding
<1>3. TypeOK'
  <2>1. pc' \in [Threads -> Places]
    BY <1>1 DEF TypeOK, Places
  <2>2. QED
    BY <1>1, <2>1 DEF TypeOK
<1>4. Control'
  BY <1>1, <1>2 DEF Control, Preparing, Holding
<1>5. \A u \in Threads : Owns(u)' <=> Owns(u)
  BY <1>1, <1>2 DEF Owns, Preparing
<1>6. Lists'
  BY <1>1, <1>2, <1>5 DEF Lists, Linked, Published, At
<1>7. Maps'
  BY <1>1, <1>2, <1>5 DEF Maps, At
<1>8. Checked'
  BY <1>1, <1>2 DEF Checked, Published, Verified
<1>9. Timeouts'
  BY <1>1, <1>2 DEF Timeouts, Smooth, Preparing, At, TypeOK
<1>10. Lent'
  BY <1>1, <1>2 DEF Lent, Lending
<1>11. Lookups'
  BY <1>1, <1>2 DEF Lookups, Published, At
<1>12. QED
  BY <1>3, <1>4, <1>6, <1>7, <1>8, <1>9, <1>10, <1>11

-----------------------------------------------------------------------------
(* Cleanup                                                                 *)

\* While a cleanup runs, no reader walks the list.
LEMMA CleanupAlone ==
  ASSUME PrepareInv, NEW t \in Threads, pc[t] \in {"exchange", "clean"}
  PROVE  \A r \in Readers : cur[r] = "idle"
BY DEF PrepareInv, Control, Lookups, At

LEMMA ExchangeKeeps ==
  ASSUME PrepareInv, NEW t \in Threads, Exchange(t)
  PROVE  PrepareInv'
<1> USE Distinct DEF PrepareInv
<1>1. /\ pc[t] = "exchange" /\ mine' = [mine EXCEPT ![t] = head] /\ head' = None
      /\ pc' = [pc EXCEPT ![t] = "clean"]
      /\ UNCHANGED <<kind, err, calls, mutex, next, heap, kernel, debugger, clock, readers>>
  BY DEF Exchange, At, Goto
<1> USE DEF list, kernel, debugger, clock, readers
<1>2. /\ pc'[t] = "clean" /\ mine'[t] = head
      /\ \A u \in Threads : u # t => pc'[u] = pc[u] /\ mine'[u] = mine[u] /\ pc[u] \notin Holding
  BY <1>1, OnlyHolder DEF TypeOK, Holding
<1>3. Published' = {}
  BY <1>1, ChainEmpty DEF Published
<1>4. TypeOK'
  <2>1. pc' \in [Threads -> Places] /\ mine' \in [Threads -> Arenas \cup {None}]
    BY <1>1, ListTypes DEF TypeOK, Places
  <2>2. QED
    BY <1>1, <2>1 DEF TypeOK
<1>5. Control'
  BY <1>1, <1>2 DEF Control, Preparing, Holding
<1>6. ~Owns(t) /\ \A u \in Threads : Owns(u)' <=> Owns(u)
  BY <1>1, <1>2 DEF Owns, Preparing
<1>7. Lists'
  <2>1. Linked(head)'
    BY <1>3 DEF Linked, Published
  <2>2. \A u \in Threads : Owns(u)' => mine'[u] \in heap' \ Published' /\ mine'[u] \notin Published
    BY <1>1, <1>2, <1>3, <1>6 DEF Lists
  <2>3. \A u, v \in Threads : Owns(u)' /\ Owns(v)' /\ mine'[u] = mine'[v] => u = v
    BY <1>2, <1>6 DEF Lists
  <2>4. \A u \in Threads : pc'[u] # "store" /\ (pc'[u] = "clean" => u = t)
    BY <1>2 DEF Holding, Preparing
  <2>5. Linked(mine[t])' /\ Chain(mine'[t], next') = Published
    BY <1>1, <1>2 DEF Lists, Linked, Published
  <2>6. ASSUME NEW b \in heap'
        PROVE  \/ \E u \in Threads : Owns(u)' /\ mine'[u] = b
               \/ b \in Published
    <3>1. \A u \in Threads : pc[u] # "clean"
      BY <1>1, <1>2 DEF Holding
    <3>2. CASE \E u \in Threads : Owns(u) /\ mine[u] = b
      BY <1>2, <1>6, <3>2
    <3>3. QED
      BY <1>1, <2>6, <3>1, <3>2 DEF Lists, At
  <2>7. QED
    BY <1>1, <1>2, <2>1, <2>2, <2>3, <2>4, <2>5, <2>6 DEF Lists, At
<1>8. Maps'
  BY <1>1, <1>2, <1>6 DEF Maps, At
<1>9. Checked'
  BY <1>1, <1>2, <1>3 DEF Checked, Verified
<1>10. Timeouts'
  BY <1>1, <1>2 DEF Timeouts, Smooth, Preparing, At, TypeOK
<1>11. Lent'
  BY <1>1, <1>2 DEF Lent, Lending
<1>12. Lookups'
  BY <1>1, CleanupAlone DEF Lookups
<1>13. QED
  BY <1>4, <1>5, <1>7, <1>8, <1>9, <1>10, <1>11, <1>12

\* The end of the chain.
LEMMA CleanEnds ==
  ASSUME PrepareInv, NEW t \in Threads, pc[t] = "clean", mine[t] = None,
         pc' = [pc EXCEPT ![t] = "unlock"],
         UNCHANGED <<kind, mine, err, calls, mutex, list, kernel, debugger, clock, readers>>
  PROVE  PrepareInv'
<1> USE Distinct DEF PrepareInv, list, kernel, debugger, clock, readers
<1>1. pc'[t] = "unlock" /\ \A u \in Threads : u # t => pc'[u] = pc[u] /\ pc[u] \notin Holding
  BY OnlyHolder DEF TypeOK, Holding
<1>2. TypeOK'
  <2>1. pc' \in [Threads -> Places]
    BY DEF TypeOK, Places
  <2>2. QED
    BY <2>1 DEF TypeOK
<1>3. Control'
  BY <1>1 DEF Control, Preparing, Holding
<1>4. \A u \in Threads : Owns(u)' <=> Owns(u)
  BY <1>1 DEF Owns, Preparing
<1>5. Lists'
  <2>1. Chain(mine[t], next) = {}
    BY ChainEmpty
  <2>2. \A u \in Threads : pc'[u] # "clean" /\ pc'[u] # "store" /\ (pc[u] = "clean" => u = t)
    BY <1>1 DEF Holding, Preparing
  <2>3. \A b \in heap : b \in Published \/ \E u \in Threads : Owns(u) /\ mine[u] = b
    BY <2>1, <2>2 DEF Lists, At
  <2>4. QED
    BY <1>1, <1>4, <2>2, <2>3 DEF Lists, Linked, Published, At
<1>6. Maps'
  BY <1>1, <1>4 DEF Maps, At
<1>7. Checked'
  BY <1>1 DEF Checked, Published, Verified
<1>8. Timeouts'
  BY <1>1 DEF Timeouts, Smooth, Preparing, At, TypeOK
<1>9. Lent'
  BY <1>1 DEF Lent, Lending
<1>10. Lookups'
  BY CleanupAlone DEF Lookups
<1>11. QED
  BY <1>2, <1>3, <1>5, <1>6, <1>7, <1>8, <1>9, <1>10

\* One structure of the chain goes; the rest is still a chain.
LEMMA CleanKeeps ==
  ASSUME PrepareInv, NEW t \in Threads, Clean(t)
  PROVE  PrepareInv'
<1> USE Distinct DEF PrepareInv
<1>1. CASE mine[t] = None
  BY <1>1, CleanEnds DEF Clean, At, Goto, list, kernel
<1>2. CASE mine[t] # None
  <2>1. PICK a : a = mine[t]
    OBVIOUS
  <2>2. /\ pc[t] = "clean" /\ heap' = heap \ {a}
        /\ mine' = [mine EXCEPT ![t] = next[a]]
        /\ UNCHANGED <<pc, kind, err, calls, mutex, head, next, field, device, debugger, clock,
                       readers>>
    BY <1>2, <2>1 DEF Clean, At
  <2>3. prot' = [prot EXCEPT ![a] = [side \in Sides |->
                    IF field[a][side] = "null" THEN prot[a][side] ELSE "unmapped"]]
    BY <1>2, <2>1 DEF Clean, Unmap
  <2> USE DEF list, debugger, clock, readers
  <2>4. /\ next \in Links /\ a \in Arenas /\ heap \subseteq Arenas /\ head = None
        /\ next[a] \in Arenas \cup {None}
    BY <1>2, <2>1, <2>2, ListTypes DEF TypeOK, Lists, At
  <2>5. /\ Chain(a, next) = {a} \cup Chain(next[a], next)
        /\ a \notin Chain(next[a], next)
        /\ Chain(a, next) \subseteq heap
        /\ \A b \in Chain(a, next) : b \notin Chain(next[b], next)
        /\ \A u \in Threads : Owns(u) => mine[u] \notin Chain(a, next)
    <3>1. /\ Chain(a, next) \subseteq heap
          /\ \A b \in Chain(a, next) : b \notin Chain(next[b], next)
          /\ \A u \in Threads : Owns(u) => mine[u] \notin Chain(a, next)
      BY <2>1, <2>2 DEF Lists, At, Linked
    <3>2. Chain(a, next) = {a} \cup Chain(next[a], next)
      BY <2>4, ChainStep
    <3>3. QED
      BY <3>1, <3>2
  <2>6. /\ mine'[t] = next[a]
        /\ \A u \in Threads : u # t => mine'[u] = mine[u] /\ pc[u] \notin Holding
    BY <2>2, OnlyHolder DEF TypeOK, Holding
  <2>7. ~Owns(t) /\ \A u \in Threads : Owns(u)' <=> Owns(u)
    BY <2>2 DEF Owns, Preparing
  <2>8. Published = {} /\ Published' = {}
    BY <2>2, <2>4, ChainEmpty DEF Published
  <2>9. /\ prot' \in [Arenas -> [Sides -> {"unmapped", "rw", "rx"}]]
        /\ \A b \in Arenas \ {a} : prot'[b] = prot[b]
        /\ \A side \in Sides : prot'[a][side] = "unmapped"
    <3>1. \A side \in Sides : field[a][side] = "null" => prot[a][side] = "unmapped"
      BY <2>5 DEF Maps
    <3>2. QED
      BY <2>3, <2>4, <3>1 DEF TypeOK
  <2>10. TypeOK'
    <3>1. mine' \in [Threads -> Arenas \cup {None}]
      BY <2>2, <2>4 DEF TypeOK
    <3>2. head' \in heap' \cup {None} /\ heap' \subseteq Arenas
      BY <2>2, <2>4
    <3>3. QED
      BY <2>2, <2>9, <3>1, <3>2 DEF TypeOK
  <2>11. Control'
    BY <2>2 DEF Control, Preparing, Holding
  <2>12. Lists'
    <3>1. Linked(head)'
      BY <2>8 DEF Linked, Published
    <3>2. \A u \in Threads : Owns(u)' => mine'[u] = mine[u] /\ mine'[u] \in heap' \ Published'
      BY <2>2, <2>5, <2>6, <2>7, <2>8 DEF Lists
    <3>3. \A u \in Threads : pc'[u] # "store" /\ (pc'[u] = "clean" <=> u = t)
                             /\ (pc[u] = "clean" <=> u = t)
      BY <2>2, <2>6 DEF Holding, Preparing
    <3>4. Linked(mine[t])' /\ \A u \in Threads : Owns(u)' => mine'[u] \notin Chain(mine'[t], next')
      BY <2>2, <2>5, <2>6, <2>7, <3>2 DEF Linked
    <3>5. ASSUME NEW b \in heap'
          PROVE  \/ \E u \in Threads : Owns(u)' /\ mine'[u] = b
                 \/ b \in Chain(mine'[t], next')
      <4>1. b \in heap /\ b # a
        BY <2>2, <3>5
      <4>2. CASE \E u \in Threads : Owns(u) /\ mine[u] = b
        BY <2>7, <3>2, <4>2
      <4>3. CASE b \in Chain(mine[t], next)
        BY <2>1, <2>2, <2>5, <2>6, <4>1, <4>3
      <4>4. QED
        BY <2>8, <3>3, <4>1, <4>2, <4>3 DEF Lists, At
    <3>6. QED
      BY <2>2, <2>4, <2>7, <3>1, <3>2, <3>3, <3>4, <3>5 DEF Lists, At
  <2>13. Maps'
    <3>1. /\ \A b \in heap', side \in Sides : field'[b][side] = "region" <=> prot'[b][side] # "unmapped"
          /\ \A b \in Arenas \ heap', side \in Sides : prot'[b][side] = "unmapped"
      BY <2>2, <2>4, <2>9 DEF Maps
    <3>2. \A u \in Threads : Owns(u) \/ pc[u] \in {"protect", "remap", "alias"} => mine'[u] = mine[u]
      BY <2>2, <2>6, <2>7
    <3>3. QED
      BY <2>2, <2>7, <3>1, <3>2 DEF Maps, At
  <2>14. Checked'
    BY <2>2, <2>6, <2>8 DEF Checked, Holding, Preparing
  <2>15. Timeouts' /\ Lent'
    BY <2>2 DEF Timeouts, At, Lent
  <2>16. Lookups'
    BY <2>2, CleanupAlone DEF Lookups
  <2>17. QED
    BY <2>10, <2>11, <2>12, <2>13, <2>14, <2>15, <2>16
<1>3. QED
  BY <1>1, <1>2

-----------------------------------------------------------------------------
(* Readers and the debugger                                                *)

LEMMA LoadHeadKeeps ==
  ASSUME PrepareInv, NEW r \in Readers, NEW a \in Arenas, LoadHead(r, a)
  PROVE  PrepareInv'
<1> USE Distinct DEF PrepareInv, call, list, kernel, debugger, clock
<1>1. /\ cur[r] = "idle" /\ \A t \in Threads : kind[t] = "cleanup" => pc[t] = "idle"
      /\ cur' = [cur EXCEPT ![r] = head]
      /\ want' = [want EXCEPT ![r] = a]
      /\ UNCHANGED <<call, mutex, list, kernel, debugger, clock>>
  BY DEF LoadHead, At
<1>2. PICK d : d = (a \in heap \ InUse)
  OBVIOUS
<1>3. due' = [due EXCEPT ![r] = d] /\ d \in BOOLEAN
  BY <1>2 DEF LoadHead
<1>4. TypeOK'
  <2>1. /\ cur' \in [Readers -> Arenas \cup {None, "idle"}]
        /\ want' \in [Readers -> Arenas \cup {None}] /\ due' \in [Readers -> BOOLEAN]
    BY <1>1, <1>3, ListTypes DEF TypeOK
  <2>2. QED
    BY <1>1, <2>1 DEF TypeOK
<1>5. Control' /\ Timeouts' /\ Lent'
  BY <1>1 DEF Control, Timeouts, At, Lent
<1>6. Lists' /\ Checked'
  BY <1>1 DEF Lists, Linked, Owns, At, Published, Checked, Verified
<1>7. Maps'
  BY <1>1 DEF Maps, Owns, At
<1>8. Lookups'
  <2>1. /\ cur'[r] = head /\ want'[r] = a /\ due'[r] = d
        /\ \A s \in Readers : s # r => cur'[s] = cur[s] /\ want'[s] = want[s] /\ due'[s] = due[s]
    BY <1>1, <1>3 DEF TypeOK
  <2>2. head \in Published \cup {None} /\ head # "idle"
    BY ListTypes, ChainSelf DEF Published
  <2>3. d => a \in Published
    <3>1. SUFFICES ASSUME d PROVE a \in Published
      OBVIOUS
    <3>2. a \in heap /\ a \notin InUse
      BY <1>2, <3>1
    <3>3. \A t \in Threads : ~At(t, "clean")
      BY <1>1 DEF Control, At
    <3>4. \A t \in Threads : Owns(t) => mine[t] \in InUse
      BY DEF Owns, Preparing, InUse, At
    <3>5. QED
      BY <3>2, <3>3, <3>4 DEF Lists
  <2>4. QED
    BY <1>1, <2>1, <2>2, <2>3 DEF Lookups, Published, At
<1>9. QED
  BY <1>4, <1>5, <1>6, <1>7, <1>8

\* What a reader still looks for is where it is or ahead of it.
LEMMA VisitKeeps ==
  ASSUME PrepareInv, NEW r \in Readers, Visit(r)
  PROVE  PrepareInv'
<1> USE Distinct DEF PrepareInv, call, list, kernel, debugger, clock
<1>1. cur[r] # "idle" /\ UNCHANGED <<call, mutex, list, kernel, debugger, clock>>
  BY DEF Visit
<1>2. /\ next \in Links /\ cur[r] \in Published \cup {None}
      /\ Published \subseteq Arenas
  BY <1>1, ListTypes DEF Lookups
<1>3. Control' /\ Timeouts' /\ Lent'
  BY <1>1 DEF Control, Timeouts, At, Lent
<1>4. Lists' /\ Checked'
  BY <1>1 DEF Lists, Linked, Owns, At, Published, Checked, Verified
<1>5. Maps'
  BY <1>1 DEF Maps, Owns, At
<1>6. CASE /\ cur[r] \in {None, want[r]}
           /\ cur' = [cur EXCEPT ![r] = "idle"]
           /\ want' = [want EXCEPT ![r] = None]
           /\ due' = [due EXCEPT ![r] = FALSE]
  <2>1. TypeOK'
    BY <1>1, <1>6 DEF TypeOK
  <2>2. Lookups'
    BY <1>1, <1>6 DEF Lookups, Published, TypeOK, At
  <2>3. QED
    BY <1>3, <1>4, <1>5, <2>1, <2>2
<1>7. CASE /\ cur[r] \in Arenas \ {want[r]}
           /\ cur' = [cur EXCEPT ![r] = next[cur[r]]]
           /\ UNCHANGED <<want, due>>
  <2>1. PICK a \in Published : a = cur[r]
    BY <1>2, <1>7
  <2>2. /\ next[a] \in Published \cup {None} /\ next[a] # "idle"
        /\ Chain(a, next) = {a} \cup Chain(next[a], next)
    BY <1>2, <2>1, ChainClosed, ChainStep DEF Published
  <2>3. /\ cur'[r] = next[a] /\ want'[r] = want[r] /\ want[r] # a
        /\ \A s \in Readers : s # r => cur'[s] = cur[s] /\ want'[s] = want[s] /\ due'[s] = due[s]
    BY <1>7, <2>1 DEF TypeOK
  <2>4. TypeOK'
    <3>1. cur' \in [Readers -> Arenas \cup {None, "idle"}]
      BY <1>2, <1>7, <2>1, <2>2 DEF TypeOK
    <3>2. QED
      BY <1>1, <1>7, <3>1 DEF TypeOK
  <2>5. Lookups'
    BY <1>1, <1>7, <2>1, <2>2, <2>3 DEF Lookups, Published, At
  <2>6. QED
    BY <1>3, <1>4, <1>5, <2>4, <2>5
<1>8. QED
  BY <1>6, <1>7 DEF Visit

\* The debugger left, or did not, while one call waited for it at most.
LEMMA DebuggerKeeps ==
  ASSUME PrepareInv, Attach \/ Leave
  PROVE  PrepareInv'
<1> USE Distinct DEF PrepareInv
<1>1. attaches' \in 0 .. MaxAttach
  <2>1. attaches \in 0 .. MaxAttach /\ MaxAttach \in Nat
    BY PrepareAssumption DEF TypeOK
  <2>2. attaches' = attaches \/ (attaches < MaxAttach /\ attaches' = attaches + 1)
    BY DEF Attach, Leave
  <2>3. QED
    BY <2>1, <2>2
<1>2. /\ {traced', debugged', leaving'} \subseteq BOOLEAN
      /\ UNCHANGED <<call, mutex, list, kernel, lent, unsure, alive, clock, readers>>
  BY DEF Attach, Leave, OnlyDebugger, TypeOK
<1>3. gone' \in BOOLEAN
  BY DEF Attach, Leave, TypeOK
<1>4. /\ gone' => ~traced'
      /\ gone' => gone \/ \E t \in Threads : pc[t] \in Waiting
  BY DEF Attach, Leave
<1> USE DEF call, list, kernel, clock, readers
<1>5. TypeOK'
  BY <1>1, <1>2, <1>3 DEF TypeOK
<1>6. Control' /\ Lent'
  BY <1>2 DEF Control, At, Lent
<1>7. Lists' /\ Lookups' /\ Checked'
  BY <1>2 DEF Lists, Linked, Owns, At, Published, Lookups, Checked, Verified
<1>8. Maps'
  BY <1>2 DEF Maps, Owns, At
<1>9. Timeouts'
  <2>1. ASSUME NEW t \in Threads, pc[t] = "release", err[t] = "EBUSY" PROVE ~gone'
    <3>1. ~gone
      BY <2>1 DEF Timeouts, At
    <3>2. \A u \in Threads : pc[u] \notin Waiting
      BY <2>1 DEF Control, Holding, Preparing, Waiting
    <3>3. QED
      BY <1>4, <3>1, <3>2
  <2>2. QED
    BY <1>2, <1>4, <2>1 DEF Timeouts, At
<1>10. QED
  BY <1>5, <1>6, <1>7, <1>8, <1>9

-----------------------------------------------------------------------------
(* The invariant                                                           *)

LEMMA PrepareInit == Init => PrepareInv
<1> SUFFICES ASSUME Init PROVE PrepareInv
  OBVIOUS
<1> USE Distinct DEF Init
<1>1. Published = {}
  BY ChainEmpty DEF Published
<1>2. \A t \in Threads : ~Owns(t) /\ pc[t] = "idle"
  BY DEF Owns, Preparing
<1>3. TypeOK
  <2>1. /\ pc \in [Threads -> Places] /\ kind \in [Threads -> Kinds]
        /\ mine \in [Threads -> Arenas \cup {None}] /\ err \in [Threads -> Errors]
    BY DEF Places, Kinds, Errors
  <2>2. /\ calls \in [Threads -> 0 .. MaxCalls] /\ attaches \in 0 .. MaxAttach
        /\ left \in 0 .. Timeout
    BY PrepareAssumption
  <2>3. /\ next \in [Arenas -> Arenas \cup {None}]
        /\ field \in [Arenas -> [Sides -> {"null", "region", "odd"}]]
        /\ prot \in [Arenas -> [Sides -> {"unmapped", "rw", "rx"}]]
    OBVIOUS
  <2>4. QED
    BY <2>1, <2>2, <2>3 DEF TypeOK
<1>4. Control
  BY <1>2 DEF Control, Preparing, Holding
<1>5. Lists
  BY <1>1, <1>2 DEF Lists, Linked, Published, At
<1>6. Maps
  BY <1>2 DEF Maps, At
<1>7. Checked
  BY <1>1, <1>2 DEF Checked
<1>8. Timeouts /\ Lent
  BY <1>2 DEF Timeouts, Lent, At, Smooth, Preparing
<1>9. Lookups
  BY <1>1, <1>2 DEF Lookups, At
<1>10. QED
  BY <1>3, <1>4, <1>5, <1>6, <1>7, <1>8, <1>9 DEF PrepareInv

LEMMA StepKeeps ==
  ASSUME PrepareInv, NEW t \in Threads, Step(t)
  PROVE  PrepareInv'
<1>1. CASE EnterEnds(t)
  BY <1>1, EnterEndsKeeps
<1>2. CASE \E a \in Arenas : Enter(t, a)
  BY <1>2, EnterKeeps
<1>3. CASE Lock(t)
  BY <1>3, LockKeeps
<1>4. CASE Recheck(t)
  BY <1>4, RecheckKeeps
<1>5. CASE Protocol(t) \/ Status(t) \/ Signing(t)
  BY <1>5, ProtocolKeeps, StatusKeeps, SigningKeeps
<1>6. CASE Trap(t)
  BY <1>6, TrapKeeps
<1>7. CASE Ask(t)
  BY <1>7, AskKeeps
<1>8. CASE Allocate(t) \/ Protect(t)
  BY <1>8, AllocateKeeps, ProtectKeeps
<1>9. CASE Address(t) \/ Remap(t) \/ Alias(t)
  BY <1>9, AddressKeeps, RemapKeeps, AliasKeeps
<1>10. CASE Detach(t) \/ FirstLook(t)
  BY <1>10, DetachKeeps, FirstLookKeeps
<1>11. CASE Look(t) \/ Sleep(t) \/ Poll(t)
  BY <1>11, LookKeeps, SleepKeeps, PollKeeps
<1>12. CASE Verify(t)
  BY <1>12, VerifyKeeps
<1>13. CASE Link(t) \/ Store(t)
  BY <1>13, LinkKeeps, StoreKeeps
<1>14. CASE Release(t) \/ Unlock(t)
  BY <1>14, ReleaseKeeps, UnlockKeeps
<1>15. CASE Exchange(t) \/ Clean(t)
  BY <1>15, ExchangeKeeps, CleanKeeps
<1>16. QED
  BY <1>1, <1>2, <1>3, <1>4, <1>5, <1>6, <1>7, <1>8, <1>9, <1>10, <1>11, <1>12, <1>13,
     <1>14, <1>15 DEF Step

LEMMA PrepareStutters == ASSUME PrepareInv, UNCHANGED vars PROVE PrepareInv'
<1> USE DEF PrepareInv, vars, call, list, kernel, debugger, clock, readers
<1>1. TypeOK'
  BY DEF TypeOK
<1>2. Control' /\ Timeouts' /\ Lent'
  BY DEF Control, Timeouts, At, Lent
<1>3. Lists' /\ Lookups' /\ Checked'
  BY DEF Lists, Linked, Owns, At, Published, Lookups, Checked, Verified
<1>4. Maps'
  BY DEF Maps, Owns, At
<1>5. QED
  BY <1>1, <1>2, <1>3, <1>4

LEMMA PrepareNext == ASSUME PrepareInv, [Next]_vars PROVE PrepareInv'
<1>1. CASE \E t \in Threads : Step(t) \/ LockFails(t)
  BY <1>1, StepKeeps, LockFailsKeeps
<1>2. CASE \E t \in Threads, k \in Kinds : Begin(t, k)
  BY <1>2, BeginKeeps
<1>3. CASE \E r \in Readers : Visit(r) \/ \E a \in Arenas : LoadHead(r, a)
  BY <1>3, VisitKeeps, LoadHeadKeeps
<1>4. CASE Attach \/ Leave
  BY <1>4, DebuggerKeeps
<1>5. CASE UNCHANGED vars
  BY <1>5, PrepareStutters
<1>6. QED
  BY <1>1, <1>2, <1>3, <1>4, <1>5 DEF Next, Running, Stopped

LEMMA PrepareInvariant == Spec => []PrepareInv
<1>1. PrepareInv /\ [Next]_vars => PrepareInv'
  BY PrepareNext
<1>2. QED
  BY PrepareInit, <1>1, PTL DEF Spec

-----------------------------------------------------------------------------
(* What follows from it                                                    *)

\* mono_ios_jit_prepare: what the variables hold, at every step of every call.
THEOREM PrepareTypes == Spec => []TypeOK
<1>1. PrepareInv => TypeOK
  BY DEF PrepareInv
<1>2. QED
  BY <1>1, PrepareInvariant, PTL

\* verify_arena is never skipped: a published arena runs in one view and is
\* written in the other, whatever failed on the way.
THEOREM OnlyVerifiedPublished == Spec => []PublishedVerified
<1>1. PrepareInv => PublishedVerified
  BY DEF PrepareInv, Lists, Linked, Checked, Verified, Published, PublishedVerified
<1>2. QED
  BY <1>1, PrepareInvariant, PTL

\* No failure of prepare, and no order of two calls, loses an arena structure
\* or leaves a region mapped that no structure names.
THEOREM NothingIsLost == Spec => []NothingLeaks
<1>1. ASSUME PrepareInv PROVE NothingLeaks
  <2>1. \A a \in Arenas, side \in Sides : prot[a][side] # "unmapped" => a \in heap
    BY <1>1 DEF PrepareInv, Maps
  <2>2. ASSUME mutex = None, InUse \subseteq {None} PROVE heap = Published
    <3>1. \A t \in Threads : ~At(t, "clean")
      BY <1>1, <2>2, Distinct DEF PrepareInv, Control, Holding, At
    <3>2. \A t \in Threads : Owns(t) => mine[t] \in InUse /\ mine[t] \in heap /\ heap \subseteq Arenas
      BY <1>1 DEF PrepareInv, Lists, TypeOK, Owns, Preparing, InUse, At
    <3>3. \A t \in Threads : ~Owns(t)
      BY <2>2, <3>2, Distinct
    <3>4. QED
      BY <1>1, <3>1, <3>3 DEF PrepareInv, Lists, Linked, Published
  <2>3. QED
    BY <2>1, <2>2 DEF NothingLeaks
<1>2. QED
  BY <1>1, PrepareInvariant, PTL

\* release_arena unmaps what was mapped for its arena and nothing else.
THEOREM OwnRegionsUnmapped == Spec => []OnlyOwnUnmapped
<1>1. ASSUME PrepareInv PROVE OnlyOwnUnmapped
  <2>1. ASSUME NEW t \in Threads, pc[t] = "release", NEW side \in Sides
        PROVE  field[mine[t]][side] = "null" <=> prot[mine[t]][side] = "unmapped"
    <3>1. /\ field[mine[t]] \in [Sides -> {"null", "region", "odd"}]
          /\ field[mine[t]][side] = "region" <=> prot[mine[t]][side] # "unmapped"
          /\ field[mine[t]][side] # "odd"
      BY <1>1, <2>1, OwnRegions DEF Preparing
    <3>2. QED
      BY <3>1
  <2>2. QED
    BY <2>1 DEF OnlyOwnUnmapped, At
<1>2. QED
  BY <1>1, PrepareInvariant, PTL

\* find_arena, without the mutex, never reads an arena that is not published.
THEOREM ReadersAreSafe == Spec => []ReaderSafe
<1>1. PrepareInv => ReaderSafe
  BY DEF PrepareInv, Lookups, ReaderSafe
<1>2. QED
  BY <1>1, PrepareInvariant, PTL

\* find_arena misses no arena that was ready when it began.
THEOREM ReadersFindAll == Spec => []ReaderFinds
<1>1. PrepareInv => ReaderFinds
  BY ChainEmpty DEF PrepareInv, Lookups, ReaderFinds
<1>2. QED
  BY <1>1, PrepareInvariant, PTL

\* Every call that had the debugger lend a region sends it away, on the path
\* to success and on each path of failure.
THEOREM DebuggerIsReturned == Spec => []DebuggerReturned
<1>1. PrepareInv => DebuggerReturned
  BY Distinct DEF PrepareInv, Control, Lent, Lending, Holding, Preparing, DebuggerReturned
<1>2. QED
  BY <1>1, PrepareInvariant, PTL

\* wait_for_debugger_detach reports a timeout only of a debugger that was
\* there at the deadline, also when the debugger leaves unasked.
THEOREM TimeoutsAreLate == Spec => []TimeoutIsLate
<1>1. PrepareInv => TimeoutIsLate
  BY DEF PrepareInv, Timeouts, TimeoutIsLate
<1>2. QED
  BY <1>1, PrepareInvariant, PTL

-----------------------------------------------------------------------------
(* The traps                                                               *)

Trapping == {"ask"} \cup Lending
Parting == Waiting \cup {"firstLook", "release"}

\* A step of a call that leaves the debugger and its ghosts alone.
LEMMA AttendedMoves ==
  ASSUME PrepareInv, Attended, NEW t \in Threads, NEW p,
         pc' = [pc EXCEPT ![t] = p],
         UNCHANGED <<device, traced, leaving, unsure, alive>>,
         pc[t] \in Parting /\ p \notin Parting => ~traced,
         p \in Trapping => pc[t] \in Trapping \/ traced \/ device.protocol = "kernel",
         p \in {"signing", "allocate", "protect"} => device.protocol = "kernel"
  PROVE  Attended'
<1>1. pc'[t] = p /\ \A u \in Threads : u # t => pc'[u] = pc[u]
  BY DEF PrepareInv, TypeOK
<1>2. ASSUME leaving, ~unsure PROVE \E u \in Threads : pc'[u] \in Parting
  <2>1. PICK u \in Threads : pc[u] \in Parting
    BY <1>2 DEF Attended, Parting
  <2>2. CASE u = t
    BY <1>1, <1>2, <2>1, <2>2 DEF Attended
  <2>3. CASE u # t
    BY <1>1, <2>1, <2>3
  <2>4. QED
    BY <2>2, <2>3
<1>3. ASSUME NEW u \in Threads, pc'[u] \in Trapping, device.protocol = "debugger"
      PROVE  traced \/ unsure
  BY <1>1, <1>3 DEF Attended, Trapping
<1>4. ASSUME NEW u \in Threads, pc'[u] \in {"signing", "allocate", "protect"}
      PROVE  device.protocol = "kernel"
  BY <1>1, <1>4 DEF Attended
<1>5. QED
  BY <1>2, <1>3, <1>4 DEF Attended, Parting, Trapping

\* The steps of one call, whoever else waits for the debugger.
LEMMA AttendedSteps ==
  ASSUME PrepareInv, Attended, NEW t \in Threads, Step(t) \/ LockFails(t)
  PROVE  Attended'
<1> USE DEF At, Goto, Exit, Fail, Return, OnlyMoves, OnlyMaps, OnlyWaits, debugger, kernel
<1>1. CASE \/ EnterEnds(t) \/ Lock(t) \/ LockFails(t) \/ Recheck(t)
           \/ \E a \in Arenas : Enter(t, a)
  <2>1. PICK p \in {"idle", "lock", "exchange", "recheck", "protocol"} :
          pc[t] \in {"enter", "lock", "recheck"} /\ pc' = [pc EXCEPT ![t] = p]
    BY <1>1 DEF EnterEnds, Lock, LockFails, Recheck, Enter
  <2>2. UNCHANGED <<device, traced, leaving, unsure, alive>>
    BY <1>1 DEF EnterEnds, Lock, LockFails, Recheck, Enter
  <2>3. QED
    BY <2>1, <2>2, AttendedMoves DEF Parting, Trapping, Lending, Waiting
<1>2. CASE Protocol(t) \/ Status(t) \/ Signing(t) \/ Verify(t)
  <2>1. PICK p \in {"release", "status", "signing", "ask", "allocate", "link"} :
          /\ pc[t] \in {"protocol", "status", "signing", "verify"} /\ pc' = [pc EXCEPT ![t] = p]
          /\ p = "ask" => traced
          /\ p = "signing" => device.protocol = "kernel"
          /\ p = "allocate" => pc[t] = "signing"
    BY <1>2 DEF Protocol, Status, Signing, Verify
  <2>2. UNCHANGED <<device, traced, leaving, unsure, alive>>
    BY <1>2 DEF Protocol, Status, Signing, Verify
  <2>3. pc[t] = "signing" => device.protocol = "kernel"
    BY DEF Attended
  <2>4. QED
    BY <2>1, <2>2, <2>3, AttendedMoves DEF Parting, Trapping, Lending, Waiting
<1>3. CASE Trap(t)
  <2>1. ~traced /\ alive' = FALSE /\ UNCHANGED <<pc, device, traced, leaving, unsure>>
    BY <1>3 DEF Trap, call
  <2>2. unsure
    BY <1>3 DEF Trap, Attended, Lending, PrepareInv, Lent
  <2>3. QED
    BY <2>1, <2>2 DEF Attended
<1>4. CASE Ask(t) \/ Allocate(t) \/ Protect(t) \/ Address(t) \/ Remap(t) \/ Alias(t)
  <2>1. PICK p \in {"release", "protect", "address", "remap", "alias", "detach"} :
          /\ pc[t] \in {"ask", "allocate", "protect", "address", "remap", "alias"}
          /\ pc' = [pc EXCEPT ![t] = p]
          /\ p = "protect" => pc[t] = "allocate"
    BY <1>4 DEF Ask, Allocate, Protect, Address, Remap, Alias
  <2>2. UNCHANGED <<device, traced, leaving, unsure, alive>>
    BY <1>4 DEF Ask, Allocate, Protect, Address, Remap, Alias
  <2>3. pc[t] \in {"allocate", "protect"} => device.protocol = "kernel"
    BY DEF Attended
  <2>4. QED
    BY <2>1, <2>2, <2>3, AttendedMoves DEF Parting, Trapping, Lending, Waiting
<1>5. CASE Detach(t)
  <2>1. PICK p \in {"firstLook", "verify", "release"} :
          /\ pc[t] = "detach" /\ pc' = [pc EXCEPT ![t] = p]
          /\ \/ traced /\ leaving' = TRUE /\ p # "verify"
             \/ leaving' = leaving
    BY <1>5 DEF Detach
  <2>2. UNCHANGED <<device, traced, unsure, alive>>
    BY <1>5 DEF Detach
  <2>3. CASE leaving' = leaving
    BY <2>1, <2>2, <2>3, AttendedMoves DEF Parting, Trapping, Lending, Waiting
  <2>4. CASE traced /\ leaving' = TRUE /\ p # "verify"
    <3>1. pc'[t] = p /\ \A u \in Threads : u # t => pc'[u] = pc[u]
      BY <2>1 DEF PrepareInv, TypeOK
    <3>2. QED
      BY <2>1, <2>2, <2>4, <3>1 DEF Attended, Lending
  <2>5. QED
    BY <2>1, <2>3, <2>4
<1>6. CASE FirstLook(t) \/ Look(t) \/ Sleep(t) \/ Poll(t)
  <2>1. PICK p \in {"look", "sleep", "poll", "verify", "release"} :
          pc' = [pc EXCEPT ![t] = p] /\ (p = "verify" => ~traced)
    BY <1>6 DEF FirstLook, Look, Sleep, Poll
  <2>2. UNCHANGED <<device, traced, leaving, unsure, alive>>
    BY <1>6 DEF FirstLook, Look, Sleep, Poll
  <2>3. QED
    BY <2>1, <2>2, AttendedMoves DEF Parting, Trapping, Lending, Waiting
<1>7. CASE Link(t) \/ Store(t) \/ Unlock(t) \/ Exchange(t)
  <2>1. PICK p \in {"store", "unlock", "idle", "clean"} :
          pc[t] \in {"link", "store", "unlock", "exchange"} /\ pc' = [pc EXCEPT ![t] = p]
    BY <1>7 DEF Link, Store, Unlock, Exchange
  <2>2. UNCHANGED <<device, traced, leaving, unsure, alive>>
    BY <1>7 DEF Link, Store, Unlock, Exchange
  <2>3. QED
    BY <2>1, <2>2, AttendedMoves DEF Parting, Trapping, Lending, Waiting
<1>8. CASE Clean(t)
  <2>1. /\ pc[t] = "clean" /\ (pc' = pc \/ pc' = [pc EXCEPT ![t] = "unlock"])
        /\ UNCHANGED <<device, traced, leaving, unsure, alive>>
    BY <1>8 DEF Clean
  <2>2. CASE pc' = pc
    BY <2>1, <2>2 DEF Attended
  <2>3. CASE pc' = [pc EXCEPT ![t] = "unlock"]
    BY <2>1, <2>3, AttendedMoves DEF Parting, Trapping, Lending, Waiting
  <2>4. QED
    BY <2>1, <2>2, <2>3
<1>9. CASE Release(t)
  <2>1. /\ pc[t] = "release" /\ pc' = [pc EXCEPT ![t] = "unlock"]
        /\ unsure' = (unsure \/ (leaving /\ traced))
        /\ UNCHANGED <<device, traced, leaving, alive>>
    BY <1>9 DEF Release
  <2>2. \A u \in Threads : u # t => pc'[u] = pc[u]
    BY <2>1 DEF PrepareInv, TypeOK
  <2>3. pc'[t] = "unlock"
    BY <2>1 DEF PrepareInv, TypeOK
  <2>4. (unsure => unsure') /\ (leaving => unsure')
    BY <2>1 DEF Attended
  <2>5. QED
    BY <2>1, <2>2, <2>3, <2>4 DEF Attended, Lending
<1>10. QED
  BY <1>1, <1>2, <1>3, <1>4, <1>5, <1>6, <1>7, <1>8, <1>9 DEF Step

\* A debugger that leaves was asked to, by a call that no other one follows
\* before it has waited or failed.
LEMMA AttendedLeaves ==
  ASSUME ~Spontaneous, PrepareInv, Attended, Leave
  PROVE  Attended'
<1>1. /\ traced /\ leaving /\ traced' = FALSE /\ leaving' = FALSE
      /\ UNCHANGED <<pc, device, unsure, alive>>
  BY DEF Leave, OnlyDebugger, call, kernel
<1>2. ASSUME NEW t \in Threads, pc[t] \in Trapping PROVE unsure
  <2>1. \A u \in Threads : pc[u] \notin Parting
    BY <1>2 DEF PrepareInv, Control, Holding, Preparing, Parting, Trapping, Lending, Waiting
  <2>2. QED
    BY <1>1, <2>1 DEF Attended, Parting
<1>3. QED
  BY <1>1, <1>2 DEF Attended, Trapping

\* prepare_region and detach_debugger trap only with a debugger attached, if
\* debuggers leave when they are asked to, but for the retry of a call that
\* failed after it had asked.
THEOREM TrapsAreAttended ==
  ASSUME ~Spontaneous PROVE Spec => []TrapsAttended
<1>1. Init => Attended
  BY DEF Init, Attended, Lending
<1>2. PrepareInv /\ Attended /\ [Next]_vars => Attended'
  <2>1. SUFFICES ASSUME PrepareInv, Attended, [Next]_vars PROVE Attended'
    OBVIOUS
  <2>2. CASE \E t \in Threads : Step(t) \/ LockFails(t)
    BY <2>1, <2>2, AttendedSteps
  <2>3. CASE \E t \in Threads, k \in Kinds : Begin(t, k)
    <3>1. PICK t \in Threads, k \in Kinds : Begin(t, k)
      BY <2>3
    <3>2. PICK p \in {"lock", "enter"} : pc[t] = "idle" /\ pc' = [pc EXCEPT ![t] = p]
      BY <3>1 DEF Begin, At, Goto
    <3>3. UNCHANGED <<device, traced, leaving, unsure, alive>>
      BY <3>1 DEF Begin, kernel, debugger
    <3>4. QED
      BY <2>1, <3>2, <3>3, AttendedMoves DEF Parting, Trapping, Lending, Waiting
  <2>4. CASE \E r \in Readers : Visit(r) \/ \E a \in Arenas : LoadHead(r, a)
    <3>1. UNCHANGED <<pc, device, traced, leaving, unsure, alive>>
      BY <2>4 DEF Visit, LoadHead, call, kernel, debugger
    <3>2. QED
      BY <2>1, <3>1 DEF Attended
  <2>5. CASE Attach
    <3>1. traced' = TRUE /\ leaving' = FALSE /\ UNCHANGED <<pc, device, unsure, alive>>
      BY <2>5 DEF Attach, OnlyDebugger, call, kernel
    <3>2. QED
      BY <2>1, <3>1 DEF Attended
  <2>6. CASE Leave
    BY <2>1, <2>6, AttendedLeaves
  <2>7. CASE UNCHANGED vars
    <3>1. UNCHANGED <<pc, device, traced, leaving, unsure, alive>>
      BY <2>7 DEF vars, call, kernel, debugger
    <3>2. QED
      BY <2>1, <3>1 DEF Attended
  <2>8. QED
    BY <2>1, <2>2, <2>3, <2>4, <2>5, <2>6, <2>7 DEF Next, Running, Stopped
<1>3. Attended => TrapsAttended
  BY DEF Attended, TrapsAttended
<1>4. QED
  BY <1>1, <1>2, <1>3, PrepareInvariant, PTL DEF Spec

-----------------------------------------------------------------------------
(* The calls are atomic                                                    *)
(*                                                                         *)
(* A call of prepare takes effect with its release store, one of cleanup   *)
(* with its exchange; one that fails or finds the startup pool, when it    *)
(* goes back.  The arenas of a cleanup are freed after it has taken effect.*)

\* What a call will answer is settled in time: a failure has an error, a
\* cleanup none, and a startup call goes on only while there is no pool.
Answers ==
  \A t \in Threads :
    /\ pc[t] = "release" => err[t] # "OK"
    /\ pc[t] = "exchange" => err[t] = "OK"
    /\ pc[t] \in Preparing \ {"recheck"} /\ kind[t] = "startup" => head = None

\* A link of an arena that is not published is nothing to callers.
LEMMA PoolKept ==
  ASSUME PrepareInv, UNCHANGED head, NEW m, m \notin Published, next' \in Links,
         \A b \in Arenas \ {m} : next'[b] = next[b]
  PROVE  Older' = Older
<1>1. head \in Arenas \cup {None} /\ next \in Links
  BY ListTypes DEF PrepareInv
<1>2. Chain(head, next') = Chain(head, next)
  BY <1>1, ChainSame DEF Published
<1>3. Published' = Published /\ Published \subseteq Arenas
  BY <1>2 DEF Published, Chain
<1>4. \A b \in Published : next'[b] = next[b]
  BY <1>3
<1>5. QED
  BY <1>3, <1>4 DEF Older

LEMMA PoolUntouched == ASSUME UNCHANGED <<head, next>> PROVE Older' = Older
BY DEF Older, Published

\* A call changes its own answer at most.
LEMMA OwnAnswer ==
  ASSUME NEW t \in Threads,
         \A u \in Threads : u # t => pc'[u] = pc[u] /\ err'[u] = err[u] /\ kind'[u] = kind[u]
  PROVE  Answer' = [Answer EXCEPT ![t] = Answer'[t]]
BY DEF Answer

\* Between its recheck and its release store, or its failure, a call has no
\* effect.
LEMMA StaysInside ==
  ASSUME PrepareInv, Answers, NEW t \in Threads, pc[t] \in Preparing,
         NEW p \in Preparing \ {"recheck"}, pc' = [pc EXCEPT ![t] = p],
         NEW e \in Errors, err' = [err EXCEPT ![t] = e],
         p = "release" => e # "OK",
         pc[t] = "recheck" /\ kind[t] = "startup" => head = None,
         UNCHANGED <<kind, head>>, Older' = Older
  PROVE  Answers' /\ UNCHANGED <<head, Older, Answer>>
<1>1. /\ pc'[t] = p /\ err'[t] = e
      /\ \A u \in Threads : u # t => pc'[u] = pc[u] /\ err'[u] = err[u]
  BY DEF PrepareInv, TypeOK
<1>2. Answers'
  BY <1>1 DEF Answers, Preparing
<1>3. \A u \in Threads : (pc'[u] \in Settled) = (pc[u] \in Settled)
                         /\ (pc[u] \in Settled => u # t)
  BY <1>1 DEF Settled, Preparing
<1>4. Answer' = Answer
  BY <1>1, <1>3 DEF Answer
<1>5. QED
  BY <1>2, <1>4

Inner(t) ==
  \/ Protocol(t) \/ Status(t) \/ Ask(t) \/ Signing(t) \/ Allocate(t) \/ Protect(t)
  \/ Address(t) \/ Remap(t) \/ Alias(t) \/ Detach(t)
  \/ FirstLook(t) \/ Look(t) \/ Sleep(t) \/ Poll(t) \/ Verify(t) \/ Link(t)

LEMMA InnerStutters ==
  ASSUME PrepareInv, PrepareInv', Answers, NEW t \in Threads, Inner(t)
  PROVE  Answers' /\ UNCHANGED <<head, Older, Answer>>
<1> USE DEF At, Goto, Exit, Fail, OnlyMoves, OnlyMaps, OnlyWaits, list
<1>1. err \in [Threads -> Errors] /\ err' \in [Threads -> Errors]
  BY DEF PrepareInv, TypeOK
<1>2. UNCHANGED <<kind, head>>
  BY DEF Inner, Protocol, Status, Ask, Signing, Allocate, Protect, Address, Remap, Alias, Detach,
         FirstLook, Look, Sleep, Poll, Verify, Link
<1>3. Older' = Older
  <2>1. CASE Link(t)
    <3>1. next' = [next EXCEPT ![mine[t]] = head] /\ pc[t] = "link"
      BY <2>1 DEF Link
    <3>2. mine[t] \notin Published
      BY <3>1 DEF PrepareInv, Lists, Owns, Preparing
    <3>3. next \in Links /\ next' \in Links
      BY DEF PrepareInv, TypeOK, Links
    <3>4. \A b \in Arenas \ {mine[t]} : next'[b] = next[b]
      BY <3>1, <3>3 DEF Links
    <3>5. QED
      BY <1>2, <3>2, <3>3, <3>4, PoolKept
  <2>2. CASE ~Link(t)
    <3>1. UNCHANGED next
      BY <2>2 DEF Inner, Protocol, Status, Ask, Signing, Allocate, Protect, Address, Remap, Alias,
                  Detach, FirstLook, Look, Sleep, Poll, Verify
    <3>2. QED
      BY <1>2, <3>1, PoolUntouched
  <2>3. QED
    BY <2>1, <2>2
<1>4. \E p \in Preparing \ {"recheck"} :
        /\ pc[t] \in Preparing \ {"recheck"} /\ pc' = [pc EXCEPT ![t] = p]
        /\ \/ err' = err /\ (p = "release" => err[t] # "OK")
           \/ \E e \in Errors \ {"OK"} : err' = [err EXCEPT ![t] = e]
  <2> USE DEF Preparing, Errors
  <2>1. CASE Protocol(t) \/ Status(t) \/ Signing(t) \/ Verify(t)
    BY <2>1 DEF Protocol, Status, Signing, Verify
  <2>2. CASE Ask(t) \/ Allocate(t) \/ Protect(t)
    BY <2>2 DEF Ask, Allocate, Protect
  <2>3. CASE Address(t) \/ Remap(t) \/ Alias(t)
    BY <2>3 DEF Address, Remap, Alias
  <2>4. CASE Detach(t) \/ Link(t)
    BY <2>4 DEF Detach, Link
  <2>5. CASE FirstLook(t) \/ Look(t) \/ Sleep(t) \/ Poll(t)
    BY <2>5 DEF FirstLook, Look, Sleep, Poll
  <2>6. QED
    BY <2>1, <2>2, <2>3, <2>4, <2>5 DEF Inner
<1>5. PICK p \in Preparing \ {"recheck"}, e \in Errors :
        /\ pc[t] \in Preparing \ {"recheck"} /\ pc' = [pc EXCEPT ![t] = p]
        /\ err' = [err EXCEPT ![t] = e] /\ (p = "release" => e # "OK")
  BY <1>1, <1>4
<1>6. QED
  BY <1>2, <1>3, <1>5, StaysInside

\* A call is made, waits for the mutex, or has it: nothing of it shows yet but
\* that it was made.
LEMMA ArrivalImplements ==
  ASSUME PrepareInv, PrepareInv', Answers, NEW t \in Threads,
         (\E k \in Kinds : Begin(t, k)) \/ (\E a \in Arenas : Enter(t, a)) \/ Lock(t)
  PROVE  Answers' /\ (Atomic!Next \/ UNCHANGED <<head, Older, Answer>>)
<1> USE DEF At, Goto, list
<1>1. CASE \E k \in Kinds : Begin(t, k)
  <2>1. PICK k \in Kinds : Begin(t, k)
    BY <1>1
  <2>2. PICK p \in {"lock", "enter"} :
          /\ pc[t] = "idle" /\ pc' = [pc EXCEPT ![t] = p]
          /\ kind' = [kind EXCEPT ![t] = k] /\ err' = [err EXCEPT ![t] = "OK"]
          /\ UNCHANGED <<head, next>>
    BY <2>1 DEF Begin
  <2>3. /\ pc'[t] = p /\ kind'[t] = k /\ err'[t] = "OK"
        /\ \A u \in Threads : u # t => pc'[u] = pc[u] /\ kind'[u] = kind[u] /\ err'[u] = err[u]
    BY <2>2 DEF PrepareInv, TypeOK
  <2>4. Answers'
    BY <2>2, <2>3 DEF Answers, Preparing
  <2>5. Answer[t] \in {"OK", "failed"} /\ Answer'[t] = k
    BY <2>2, <2>3 DEF Answer, Settled, Outcome
  <2>6. Answer' = [Answer EXCEPT ![t] = k] /\ Older' = Older
    BY <2>2, <2>3, <2>5, OwnAnswer, PoolUntouched
  <2>7. Atomic!Invoke(t, k)
    BY <2>2, <2>5, <2>6 DEF Atomic!Invoke, Atomic!Outcomes
  <2>8. QED
    BY <2>4, <2>7 DEF Atomic!Next, Atomic!Requests, Kinds
<1>2. CASE \E a \in Arenas : Enter(t, a)
  <2>1. PICK a \in Arenas : Enter(t, a)
    BY <1>2
  <2>2. /\ pc[t] = "enter" /\ pc' = [pc EXCEPT ![t] = "lock"]
        /\ a \notin heap /\ next' = [next EXCEPT ![a] = None]
        /\ UNCHANGED <<kind, err, head>>
    BY <2>1 DEF Enter
  <2>3. pc'[t] = "lock" /\ \A u \in Threads : u # t => pc'[u] = pc[u]
    BY <2>2 DEF PrepareInv, TypeOK
  <2>4. Answers'
    BY <2>2, <2>3 DEF Answers, Preparing
  <2>5. Answer' = Answer
    BY <2>2, <2>3 DEF Answer, Settled
  <2>6. Older' = Older
    <3>1. a \notin Published
      BY <2>2 DEF PrepareInv, Lists, Linked, Published
    <3>2. next \in Links /\ next' \in Links
      BY DEF PrepareInv, TypeOK, Links
    <3>3. \A b \in Arenas \ {a} : next'[b] = next[b]
      BY <2>2, <3>2 DEF Links
    <3>4. QED
      BY <2>2, <3>1, <3>2, <3>3, PoolKept
  <2>7. QED
    BY <2>2, <2>4, <2>5, <2>6
<1>3. CASE Lock(t)
  <2>1. PICK p \in {"exchange", "recheck"} :
          /\ pc[t] = "lock" /\ pc' = [pc EXCEPT ![t] = p]
          /\ UNCHANGED <<kind, err, head, next>>
    BY <1>3 DEF Lock
  <2>2. pc'[t] = p /\ \A u \in Threads : u # t => pc'[u] = pc[u]
    BY <2>1 DEF PrepareInv, TypeOK
  <2>3. Answers'
    BY <2>1, <2>2 DEF Answers, Preparing, PrepareInv, Timeouts, Smooth
  <2>4. Answer' = Answer
    BY <2>1, <2>2 DEF Answer, Settled
  <2>5. QED
    BY <2>1, <2>3, <2>4, PoolUntouched
<1>4. QED
  BY <1>1, <1>2, <1>3

\* The call returns with error e, or with success because there is a pool.
LEMMA ReturnImplements ==
  ASSUME PrepareInv, PrepareInv', Answers, NEW t \in Threads,
         EnterEnds(t) \/ LockFails(t) \/ Recheck(t) \/ Release(t)
  PROVE  Answers' /\ (Atomic!Next \/ UNCHANGED <<head, Older, Answer>>)
<1> USE DEF At, Goto, Exit, Return, OnlyMoves, list
<1>1. CASE Recheck(t) /\ pc'[t] = "protocol"
  <2>1. /\ pc[t] = "recheck" /\ pc' = [pc EXCEPT ![t] = "protocol"] /\ err' = err
        /\ kind[t] = "startup" => head = None
        /\ UNCHANGED <<kind, head, next>>
    BY <1>1 DEF Recheck, PrepareInv, TypeOK
  <2>2. err[t] \in Errors /\ err' = [err EXCEPT ![t] = err[t]]
    BY <2>1 DEF PrepareInv, TypeOK
  <2>3. "protocol" \in Preparing \ {"recheck"} /\ "recheck" \in Preparing
    BY DEF Preparing
  <2>4. Older' = Older
    BY <2>1, PoolUntouched
  <2>5. QED
    BY <2>1, <2>2, <2>3, <2>4, StaysInside
<1>2. CASE ~(Recheck(t) /\ pc'[t] = "protocol")
  <2>1. PICK p \in {"idle", "unlock"}, e \in Errors :
          /\ pc[t] \in {"enter", "lock", "recheck", "release"} /\ pc' = [pc EXCEPT ![t] = p]
          /\ err' = [err EXCEPT ![t] = e]
          /\ e = "OK" => kind[t] = "startup" /\ head # None
          /\ UNCHANGED <<kind, head, next>>
    <3>1. err \in [Threads -> Errors]
      BY DEF PrepareInv, TypeOK
    <3>2. CASE EnterEnds(t)
      BY <3>2 DEF EnterEnds, Errors
    <3>3. CASE Recheck(t)
      BY <1>2, <3>3 DEF Recheck, Errors, PrepareInv, TypeOK
    <3>4. CASE Release(t)
      BY <3>1, <3>4 DEF Release, Answers
    <3>5. CASE LockFails(t)
      BY <3>5 DEF LockFails, Errors
    <3>6. QED
      BY <3>2, <3>3, <3>4, <3>5
  <2>2. /\ pc'[t] = p /\ err'[t] = e
        /\ \A u \in Threads : u # t => pc'[u] = pc[u] /\ err'[u] = err[u]
    BY <2>1 DEF PrepareInv, TypeOK
  <2>3. Answers'
    BY <2>1, <2>2 DEF Answers, Preparing
  <2>4. kind[t] \in Kinds
    BY DEF PrepareInv, TypeOK
  <2>5. Answer[t] = kind[t] /\ Answer'[t] = Outcome(e)
    BY <2>1, <2>2 DEF Answer, Settled
  <2>6. Answer' = [Answer EXCEPT ![t] = Outcome(e)] /\ Older' = Older
    BY <2>1, <2>2, <2>5, OwnAnswer, PoolUntouched
  <2>7. CASE e = "OK"
    <3>1. Atomic!Ensured(t)
      BY <2>1, <2>5, <2>6, <2>7 DEF Atomic!Ensured, Atomic!Succeed, Outcome
    <3>2. QED
      BY <2>3, <3>1 DEF Atomic!Next
  <2>8. CASE e # "OK"
    <3>1. Atomic!Fail(t)
      BY <2>1, <2>4, <2>5, <2>6, <2>8 DEF Atomic!Fail, Atomic!Requests, Kinds, Outcome
    <3>2. QED
      BY <2>3, <3>1 DEF Atomic!Next
  <2>9. QED
    BY <2>7, <2>8
<1>3. QED
  BY <1>1, <1>2

\* The release store is the moment at which the pool has a new arena.
LEMMA StoreImplements ==
  ASSUME PrepareInv, PrepareInv', Answers, NEW t \in Threads, Store(t)
  PROVE  Answers' /\ Atomic!Next
<1>1. PICK a : a = mine[t]
  OBVIOUS
<1>2. /\ pc[t] = "store" /\ pc' = [pc EXCEPT ![t] = "unlock"]
      /\ head' = a /\ UNCHANGED <<kind, err, next, mutex>>
  BY <1>1 DEF Store, At, Goto
<1>3. pc'[t] = "unlock" /\ \A u \in Threads : u # t => pc'[u] = pc[u] /\ pc[u] \notin Holding
  BY <1>2, OnlyHolder DEF PrepareInv, TypeOK, Holding, Preparing
<1>4. Answers'
  BY <1>2, <1>3 DEF Answers, Preparing, Holding
<1>5. /\ a \in Arenas \ Published /\ next[a] = head /\ next \in Links
      /\ kind[t] \in {"startup", "extend"} /\ err[t] = "OK"
      /\ kind[t] = "startup" => head = None
  BY <1>1, <1>2, ListTypes
  DEF PrepareInv, TypeOK, Lists, Owns, Preparing, At, Control, Kinds, Timeouts, Smooth, Answers
<1>6. Answer[t] = kind[t] /\ Answer'[t] = "OK"
  BY <1>2, <1>3, <1>5 DEF Answer, Settled, Outcome
<1>7. Answer' = [Answer EXCEPT ![t] = "OK"]
  BY <1>2, <1>3, <1>6, OwnAnswer
<1>8. Older' = [b \in Published \cup {a} |-> IF b = a THEN head ELSE Older[b]]
  <2>1. Published' = Published \cup {a}
    BY <1>2, <1>5, ChainStep DEF Published
  <2>2. QED
    BY <1>2, <1>5, <2>1 DEF Older
<1>9. DOMAIN Older = Published
  BY DEF Older
<1>10. Atomic!Extend(t, a)
  BY <1>2, <1>5, <1>6, <1>7, <1>8, <1>9 DEF Atomic!Extend, Atomic!Succeed, Atomic!Pool
<1>11. QED
  BY <1>4, <1>5, <1>10 DEF Atomic!Next

\* The exchange takes all arenas at once; their memory goes later.
LEMMA CleanupImplements ==
  ASSUME PrepareInv, PrepareInv', Answers, NEW t \in Threads,
         Exchange(t) \/ Clean(t) \/ Unlock(t)
  PROVE  Answers' /\ (Atomic!Next \/ UNCHANGED <<head, Older, Answer>>)
<1> USE DEF At, Goto
<1>1. CASE Exchange(t)
  <2>1. /\ pc[t] = "exchange" /\ pc' = [pc EXCEPT ![t] = "clean"]
        /\ head' = None /\ UNCHANGED <<kind, err, next>>
    BY <1>1 DEF Exchange
  <2>2. pc'[t] = "clean" /\ \A u \in Threads : u # t => pc'[u] = pc[u]
    BY <2>1 DEF PrepareInv, TypeOK
  <2>3. Answers'
    BY <2>1, <2>2 DEF Answers, Preparing
  <2>4. kind[t] = "cleanup" /\ err[t] = "OK"
    BY <2>1 DEF PrepareInv, Control, Answers
  <2>5. Answer[t] = "cleanup" /\ Answer'[t] = "OK"
    BY <2>1, <2>2, <2>4 DEF Answer, Settled, Outcome
  <2>6. Answer' = [Answer EXCEPT ![t] = "OK"]
    BY <2>1, <2>2, <2>5, OwnAnswer
  <2>7. Older' = [b \in {} |-> None]
    <3>1. Published' = {}
      BY <2>1, ChainEmpty DEF Published
    <3>2. QED
      BY <3>1 DEF Older
  <2>8. Atomic!Clear(t)
    BY <2>1, <2>5, <2>6, <2>7 DEF Atomic!Clear, Atomic!Succeed
  <2>9. QED
    BY <2>3, <2>8 DEF Atomic!Next
<1>2. CASE Clean(t) \/ Unlock(t)
  <2>1. PICK p \in {"clean", "unlock", "idle"} :
          /\ pc[t] \in {"clean", "unlock"} /\ pc' = [pc EXCEPT ![t] = p]
          /\ UNCHANGED <<kind, err, head, next>>
    BY <1>2 DEF Clean, Unlock, list, PrepareInv, TypeOK
  <2>2. pc'[t] = p /\ \A u \in Threads : u # t => pc'[u] = pc[u]
    BY <2>1 DEF PrepareInv, TypeOK
  <2>3. Answers'
    BY <2>1, <2>2 DEF Answers, Preparing
  <2>4. Answer' = Answer
    BY <2>1, <2>2 DEF Answer, Settled
  <2>5. QED
    BY <2>1, <2>3, <2>4, PoolUntouched
<1>3. QED
  BY <1>1, <1>2

LEMMA CallImplements ==
  ASSUME PrepareInv, PrepareInv', Answers, [Next]_vars
  PROVE  Answers' /\ (Atomic!Next \/ UNCHANGED <<head, Older, Answer>>)
<1>1. CASE \E t \in Threads : (Step(t) /\ ~Trap(t)) \/ LockFails(t)
  BY <1>1, ArrivalImplements, ReturnImplements, InnerStutters, StoreImplements,
     CleanupImplements DEF Step, Inner
<1>2. CASE \E t \in Threads, k \in Kinds : Begin(t, k)
  BY <1>2, ArrivalImplements
<1>3. CASE \/ \E t \in Threads : Trap(t)
           \/ \E r \in Readers : Visit(r) \/ \E a \in Arenas : LoadHead(r, a)
           \/ Attach \/ Leave
           \/ UNCHANGED vars
  <2>1. UNCHANGED <<pc, kind, err, head, next>>
    BY <1>3 DEF Trap, Visit, LoadHead, Attach, Leave, OnlyDebugger, vars, call, list
  <2>2. QED
    BY <2>1, PoolUntouched DEF Answers, Answer
<1>4. QED
  BY <1>1, <1>2, <1>3 DEF Next, Running, Stopped

\* Callers of prepare and cleanup, on any threads, cannot tell that a call is
\* more than one step, whatever the debugger and the kernel do in it.
THEOREM PrepareIsAtomic == Spec => CallsAreAtomic
<1>1. Init => Atomic!Init /\ Answers
  <2>1. SUFFICES ASSUME Init PROVE Atomic!Init /\ Answers
    OBVIOUS
  <2>2. Published = {}
    BY <2>1, ChainEmpty DEF Init, Published
  <2>3. Older = [b \in {} |-> None]
    BY <2>2 DEF Older
  <2>4. Answer = [t \in Threads |-> "OK"]
    BY <2>1 DEF Init, Answer, Settled, Outcome
  <2>5. QED
    BY <2>1, <2>3, <2>4 DEF Init, Atomic!Init, Answers, Preparing
<1>2. PrepareInv /\ PrepareInv' /\ Answers /\ [Next]_vars
        => Answers' /\ [Atomic!Next]_<<head, Older, Answer>>
  BY CallImplements
<1>3. QED
  BY <1>1, <1>2, PrepareInvariant, PTL DEF Spec, CallsAreAtomic, Atomic!Spec
-----------------------------------------------------------------------------
(* Calls come to an end                                                    *)

\* The statements a call has ahead of it at most, the wait and the arenas of
\* a cleanup apart.
Ahead(place) ==
  CASE place = "idle"      -> 0
    [] place = "unlock"    -> 1
    [] place = "store"     -> 2
    [] place = "release"   -> 2
    [] place = "link"      -> 3
    [] place = "verify"    -> 4
    [] place = "firstLook" -> 7 + 3 * Timeout
    [] place = "detach"    -> 8 + 3 * Timeout
    [] place = "alias"     -> 9 + 3 * Timeout
    [] place = "remap"     -> 10 + 3 * Timeout
    [] place = "address"   -> 11 + 3 * Timeout
    [] place = "protect"   -> 12 + 3 * Timeout
    [] place = "ask"       -> 12 + 3 * Timeout
    [] place = "allocate"  -> 13 + 3 * Timeout
    [] place = "status"    -> 13 + 3 * Timeout
    [] place = "signing"   -> 14 + 3 * Timeout
    [] place = "protocol"  -> 15 + 3 * Timeout
    [] place = "recheck"   -> 16 + 3 * Timeout
    [] place = "exchange"  -> 3 + Cardinality(Arenas)
    [] place = "lock"      -> 17 + 3 * Timeout + Cardinality(Arenas)
    [] place = "enter"     -> 18 + 3 * Timeout + Cardinality(Arenas)

\* Each turn of the wait takes a tick off the deadline; each turn of a cleanup
\* frees an arena.
Rest(t) ==
  CASE At(t, "look")  -> 6 + 3 * left
    [] At(t, "sleep") -> 5 + 3 * left
    [] At(t, "poll")  -> IF expired THEN 5 ELSE 7 + 3 * left
    [] At(t, "clean") -> 2 + Cardinality(Chain(mine[t], next))
    [] OTHER          -> Ahead(pc[t])

Longest == 18 + 3 * Timeout + Cardinality(Arenas)

\* A step of a call, unless it kills the process, leaves it less to do; a step
\* of anybody else leaves it as much.
Approaches ==
  \A t \in Threads :
    /\ Step(t) \/ LockFails(t) => Rest(t)' < Rest(t) \/ ~alive'
    /\ ~At(t, "idle") /\ ~Step(t) /\ ~LockFails(t) => Rest(t)' = Rest(t)

\* Places whose rest is what is ahead of them.
Plain == Places \ (Waiting \cup {"clean"})

LEMMA FiniteNumbers ==
  /\ Timeout \in Nat \ {0}
  /\ Cardinality(Arenas) \in Nat
  /\ \A x, f : Chain(x, f) \subseteq Arenas /\ IsFiniteSet(Chain(x, f))
               /\ Cardinality(Chain(x, f)) \in Nat
               /\ Cardinality(Chain(x, f)) <= Cardinality(Arenas)
<1>1. Timeout \in Nat \ {0} /\ IsFiniteSet(Arenas)
  BY PrepareAssumption
<1>2. \A x, f : Chain(x, f) \subseteq Arenas
  BY DEF Chain
<1>3. QED
  BY <1>1, <1>2, FS_Subset, FS_CardinalityType

\* The number of statements ahead falls along every path through prepare.
LEMMA Downhill ==
  /\ \A p \in Plain : Ahead(p) \in 0 .. Longest
  /\ \A p \in {"enter", "lock", "recheck", "unlock"} : Ahead("idle") < Ahead(p)
  /\ \A p \in {"release", "store"} : Ahead("unlock") < Ahead(p)
  /\ \A p \in {"protocol", "status", "signing", "allocate", "protect", "detach", "verify"} :
       Ahead("release") < Ahead(p)
  /\ \A p \in {"ask", "address", "remap", "alias"} : Ahead("detach") < Ahead(p)
  /\ Ahead("lock") < Ahead("enter") /\ Ahead("protocol") < Ahead("recheck")
  /\ Ahead("status") < Ahead("protocol") /\ Ahead("ask") < Ahead("status")
  /\ Ahead("signing") < Ahead("protocol") /\ Ahead("allocate") < Ahead("signing")
  /\ Ahead("protect") < Ahead("allocate") /\ Ahead("address") < Ahead("protect")
  /\ Ahead("address") < Ahead("ask") /\ Ahead("remap") < Ahead("address")
  /\ Ahead("alias") < Ahead("remap") /\ Ahead("firstLook") < Ahead("detach")
  /\ Ahead("verify") < Ahead("detach") /\ Ahead("link") < Ahead("verify")
  /\ Ahead("store") < Ahead("link")
<1>1. PICK wait \in Nat, size \in Nat : wait = 3 * Timeout /\ size = Cardinality(Arenas)
  BY FiniteNumbers
<1>2. /\ Ahead("idle") = 0 /\ Ahead("unlock") = 1 /\ Ahead("store") = 2
      /\ Ahead("release") = 2 /\ Ahead("link") = 3 /\ Ahead("verify") = 4
      /\ Ahead("firstLook") = 7 + wait /\ Ahead("detach") = 8 + wait
      /\ Ahead("alias") = 9 + wait /\ Ahead("remap") = 10 + wait
      /\ Ahead("address") = 11 + wait
  BY <1>1 DEF Ahead
<1>3. /\ Ahead("protect") = 12 + wait /\ Ahead("ask") = 12 + wait
      /\ Ahead("allocate") = 13 + wait /\ Ahead("status") = 13 + wait
      /\ Ahead("signing") = 14 + wait /\ Ahead("protocol") = 15 + wait
      /\ Ahead("recheck") = 16 + wait /\ Ahead("exchange") = 3 + size
      /\ Ahead("lock") = 17 + wait + size /\ Ahead("enter") = 18 + wait + size
  BY <1>1 DEF Ahead
<1>4. Longest = 18 + wait + size
  BY <1>1 DEF Longest
<1> HIDE DEF Ahead
<1>5. \A p \in Plain : Ahead(p) \in 0 .. Longest
  BY <1>1, <1>2, <1>3, <1>4 DEF Plain, Places, Waiting
<1>6. QED
  BY <1>1, <1>2, <1>3, <1>5

\* There is an end to every call.
LEMMA RestBounds ==
  ASSUME TypeOK, NEW t \in Threads
  PROVE  Rest(t) \in 0 .. Longest
<1>1. pc[t] \in Places /\ left \in 0 .. Timeout /\ expired \in BOOLEAN
  BY DEF TypeOK
<1>2. CASE pc[t] \in Plain
  BY <1>2, Downhill DEF Rest, At, Plain, Waiting
<1>3. CASE pc[t] \in Waiting
  BY <1>1, <1>3, FiniteNumbers DEF Rest, At, Waiting, Longest
<1>4. CASE pc[t] = "clean"
  BY <1>4, FiniteNumbers DEF Rest, At, Longest
<1>5. QED
  BY <1>1, <1>2, <1>3, <1>4 DEF Plain

\* A step from one statement to a later one.
LEMMA PlainShortens ==
  ASSUME TypeOK, NEW t \in Threads, pc[t] \in Plain,
         NEW p \in Plain, pc' = [pc EXCEPT ![t] = p], Ahead(p) < Ahead(pc[t])
  PROVE  Rest(t)' < Rest(t)
<1>1. pc'[t] = p
  BY DEF TypeOK
<1>2. Rest(t) = Ahead(pc[t])
  BY DEF Rest, At, Plain, Waiting
<1>3. Rest(t)' = Ahead(p)
  BY <1>1 DEF Rest, At, Plain, Waiting
<1>4. QED
  BY <1>2, <1>3

Early(t) == EnterEnds(t) \/ (\E a \in Arenas : Enter(t, a)) \/ LockFails(t) \/ Recheck(t)
            \/ Protocol(t)
            \/ Status(t) \/ Ask(t) \/ Signing(t) \/ Allocate(t) \/ Protect(t)
Late(t) == Address(t) \/ Remap(t) \/ Alias(t) \/ Detach(t) \/ Verify(t) \/ Link(t)
           \/ Store(t) \/ Release(t) \/ Unlock(t)

LEMMA EarlyShortens ==
  ASSUME TypeOK, NEW t \in Threads, Early(t)
  PROVE  Rest(t)' < Rest(t)
<1> USE DEF At, Goto, Exit, Fail, Return
<1>1. \E p \in Plain : /\ pc[t] \in Plain /\ pc' = [pc EXCEPT ![t] = p]
                       /\ Ahead(p) < Ahead(pc[t])
  <2> USE Downhill DEF Plain, Places, Waiting
  <2>1. CASE EnterEnds(t) \/ \E a \in Arenas : Enter(t, a)
    BY <2>1 DEF EnterEnds, Enter
  <2>2. CASE LockFails(t) \/ Recheck(t)
    BY <2>2 DEF LockFails, Recheck
  <2>3. CASE Protocol(t) \/ Status(t)
    BY <2>3 DEF Protocol, Status
  <2>4. CASE Ask(t)
    BY <2>4 DEF Ask
  <2>5. CASE Signing(t) \/ Allocate(t) \/ Protect(t)
    BY <2>5 DEF Signing, Allocate, Protect
  <2>6. QED
    BY <2>1, <2>2, <2>3, <2>4, <2>5 DEF Early
<1>2. QED
  BY <1>1, PlainShortens

LEMMA LateShortens ==
  ASSUME TypeOK, NEW t \in Threads, Late(t)
  PROVE  Rest(t)' < Rest(t)
<1> USE DEF At, Goto, Exit, Fail, Return
<1>1. \E p \in Plain : /\ pc[t] \in Plain /\ pc' = [pc EXCEPT ![t] = p]
                       /\ Ahead(p) < Ahead(pc[t])
  <2> USE Downhill DEF Plain, Places, Waiting
  <2>1. CASE Address(t) \/ Remap(t) \/ Alias(t)
    BY <2>1 DEF Address, Remap, Alias
  <2>2. CASE Detach(t)
    BY <2>2 DEF Detach
  <2>3. CASE Verify(t)
    BY <2>3 DEF Verify
  <2>4. CASE Link(t) \/ Store(t) \/ Release(t) \/ Unlock(t)
    BY <2>4 DEF Link, Store, Release, Unlock
  <2>5. QED
    BY <2>1, <2>2, <2>3, <2>4 DEF Late
<1>2. QED
  BY <1>1, PlainShortens

\* Every turn of wait_for_debugger_detach takes a tick, or is the last.
LEMMA WaitShortens ==
  ASSUME TypeOK, TypeOK', NEW t \in Threads, FirstLook(t) \/ Look(t) \/ Sleep(t) \/ Poll(t)
  PROVE  Rest(t)' < Rest(t)
<1> USE FiniteNumbers DEF At, Goto, Exit, Fail
<1>1. /\ left \in 0 .. Timeout /\ left' \in 0 .. Timeout
      /\ \A p : pc' = [pc EXCEPT ![t] = p] => pc'[t] = p
  BY DEF TypeOK
<1>2. CASE FirstLook(t)
  <2>1. /\ pc[t] = "firstLook"
        /\ pc'[t] \in {"release", "verify"} \/ (pc'[t] = "look" /\ left' = Timeout)
    BY <1>1, <1>2 DEF FirstLook
  <2>2. QED
    BY <2>1 DEF Rest, Ahead
<1>3. CASE Look(t)
  <2>1. /\ pc[t] = "look"
        /\ \/ pc'[t] = "release"
           \/ pc'[t] = "poll" /\ expired'
           \/ pc'[t] = "sleep" /\ left' <= left
    BY <1>1, <1>3 DEF Look
  <2>2. QED
    BY <1>1, <2>1 DEF Rest, Ahead
<1>4. CASE Sleep(t)
  <2>1. /\ pc[t] = "sleep"
        /\ \/ pc'[t] = "release"
           \/ pc'[t] = "poll" /\ left' <= left - 1
    BY <1>1, <1>4 DEF Sleep
  <2>2. QED
    BY <1>1, <2>1 DEF Rest, Ahead
<1>5. CASE Poll(t)
  <2>1. /\ pc[t] = "poll"
        /\ \/ pc'[t] \in {"release", "verify"}
           \/ pc'[t] = "look" /\ ~expired /\ left' = left
    BY <1>1, <1>5 DEF Poll, clock
  <2>2. QED
    BY <1>1, <2>1 DEF Rest, Ahead
<1>6. QED
  BY <1>2, <1>3, <1>4, <1>5

\* Every turn of a cleanup frees an arena, and a list ends.
LEMMA CleanupShortens ==
  ASSUME PrepareInv, NEW t \in Threads, Lock(t) \/ Exchange(t) \/ Clean(t)
  PROVE  Rest(t)' < Rest(t)
<1> USE FiniteNumbers DEF At, Goto
<1>1. /\ \A p : pc' = [pc EXCEPT ![t] = p] => pc'[t] = p
      /\ \A m : mine' = [mine EXCEPT ![t] = m] => mine'[t] = m
  BY DEF PrepareInv, TypeOK
<1>2. CASE Lock(t)
  <2>1. pc[t] = "lock" /\ pc'[t] \in {"exchange", "recheck"}
    BY <1>1, <1>2 DEF Lock
  <2>2. QED
    BY <2>1 DEF Rest, Ahead
<1>3. CASE Exchange(t)
  <2>1. pc[t] = "exchange" /\ pc'[t] = "clean"
    BY <1>1, <1>3 DEF Exchange
  <2>2. Rest(t) = 3 + Cardinality(Arenas) /\ Rest(t)' = 2 + Cardinality(Chain(mine'[t], next'))
    BY <2>1 DEF Rest, Ahead
  <2>3. QED
    BY <2>2
<1>4. CASE Clean(t) /\ mine[t] = None
  <2>1. pc[t] = "clean" /\ pc'[t] = "unlock"
    BY <1>1, <1>4 DEF Clean
  <2>2. QED
    BY <2>1 DEF Rest, Ahead
<1>5. CASE Clean(t) /\ mine[t] # None
  <2>1. pc[t] = "clean" /\ pc' = pc /\ mine'[t] = next[mine[t]] /\ next' = next
    BY <1>1, <1>5 DEF Clean
  <2>2. mine[t] \in Arenas /\ next \in Links
    BY <1>5, ListTypes DEF PrepareInv, TypeOK
  <2>3. PICK rest : rest = Chain(next[mine[t]], next)
    OBVIOUS
  <2>4. Chain(mine[t], next) = {mine[t]} \cup rest
    BY <2>2, <2>3, ChainStep
  <2>5. mine[t] \notin rest
    <3>1. Linked(mine[t])
      BY <2>1 DEF PrepareInv, Lists
    <3>2. mine[t] \in Chain(mine[t], next)
      BY <2>2, ChainSelf
    <3>3. QED
      BY <2>3, <3>1, <3>2 DEF Linked
  <2>6. IsFiniteSet(rest) /\ Cardinality(rest) \in Nat
    BY <2>3
  <2>7. Cardinality(Chain(mine[t], next)) = Cardinality(rest) + 1
    <3>1. Cardinality(rest \cup {mine[t]}) = Cardinality(rest) + 1
      BY <2>5, <2>6, FS_AddElement
    <3>2. Chain(mine[t], next) = rest \cup {mine[t]}
      BY <2>4
    <3>3. QED
      BY <3>1, <3>2
  <2>8. Rest(t) = 2 + Cardinality(Chain(mine[t], next)) /\ Rest(t)' = 2 + Cardinality(rest)
    BY <2>1, <2>3 DEF Rest
  <2>9. QED
    BY <2>6, <2>7, <2>8
<1>6. QED
  BY <1>2, <1>3, <1>4, <1>5

LEMMA StepShortens ==
  ASSUME PrepareInv, PrepareInv', NEW t \in Threads, Step(t) \/ LockFails(t)
  PROVE  Rest(t)' < Rest(t) \/ ~alive'
<1>1. TypeOK /\ TypeOK'
  BY DEF PrepareInv
<1>2. CASE Trap(t)
  BY <1>2 DEF Trap
<1>3. CASE ~Trap(t)
  BY <1>1, <1>3, EarlyShortens, LateShortens, WaitShortens, CleanupShortens
  DEF Step, Early, Late
<1>4. QED
  BY <1>2, <1>3

\* What the others would have to change.
LEMMA RestSame ==
  ASSUME NEW t \in Threads, pc'[t] = pc[t], mine'[t] = mine[t],
         pc[t] \in Waiting => UNCHANGED clock,
         pc[t] = "clean" => Chain(mine[t], next') = Chain(mine[t], next)
  PROVE  Rest(t)' = Rest(t)
BY DEF Rest, At, Waiting, clock

\* A step of another call moves neither the call of t nor its arena.
LEMMA OthersStay ==
  ASSUME PrepareInv, NEW t \in Threads, NEW u \in Threads \ {t},
         Step(u) \/ LockFails(u) \/ \E k \in Kinds : Begin(u, k)
  PROVE  pc'[t] = pc[t] /\ mine'[t] = mine[t]
<1> USE DEF At, Goto, Exit, Fail, Return, OnlyMoves, OnlyMaps, OnlyWaits, call
<1>1. pc' = pc \/ \E p : pc' = [pc EXCEPT ![u] = p]
  BY DEF Step, Begin, EnterEnds, Enter, Lock, LockFails, Recheck, Protocol, Status, Trap, Ask,
         Signing, Allocate, Protect, Address, Remap, Alias, Detach, FirstLook, Look, Sleep, Poll,
         Verify, Link, Store, Release, Unlock, Exchange, Clean
<1>2. mine' = mine \/ \E m : mine' = [mine EXCEPT ![u] = m]
  BY DEF Step, Begin, EnterEnds, Enter, Lock, LockFails, Recheck, Protocol, Status, Trap, Ask,
         Signing, Allocate, Protect, Address, Remap, Alias, Detach, FirstLook, Look, Sleep, Poll,
         Verify, Link, Store, Release, Unlock, Exchange, Clean
<1>3. QED
  BY <1>1, <1>2 DEF PrepareInv, TypeOK

\* The clock and the links of a cleanup are of the holder of the mutex.
LEMMA OthersWait ==
  ASSUME PrepareInv, PrepareInv', NEW t \in Threads, NEW u \in Threads \ {t},
         ~At(t, "idle"), Step(u) \/ LockFails(u) \/ \E k \in Kinds : Begin(u, k)
  PROVE  Rest(t)' = Rest(t)
<1> USE DEF At, Goto, Exit, Fail, Return, OnlyMoves, OnlyMaps, OnlyWaits, call, list, clock
<1>1. pc'[t] = pc[t] /\ mine'[t] = mine[t]
  BY OthersStay
<1>2. pc[t] \in Holding => pc[u] \notin Holding
  BY OnlyHolder DEF PrepareInv
<1>3. ASSUME pc[t] \in Waiting PROVE UNCHANGED clock
  <2>1. pc[u] \notin Holding
    BY <1>2, <1>3 DEF Waiting, Holding, Preparing
  <2>2. ~(FirstLook(u) \/ Look(u) \/ Sleep(u) \/ Poll(u))
    BY <2>1 DEF FirstLook, Look, Sleep, Poll, Holding, Preparing
  <2>3. QED
    BY <2>2 DEF Step, Begin, EnterEnds, Enter, Lock, LockFails, Recheck, Protocol, Status, Trap,
                Ask, Signing, Allocate, Protect, Address, Remap, Alias, Detach, Verify, Link, Store,
                Release, Unlock, Exchange, Clean
<1>4. ASSUME pc[t] = "clean" PROVE Chain(mine[t], next') = Chain(mine[t], next)
  <2>1. pc[u] \notin Holding
    BY <1>2, <1>4 DEF Holding, Preparing
  <2>2. ~Link(u)
    BY <2>1 DEF Link, Holding, Preparing
  <2>3. CASE \E a \in Arenas : Enter(u, a)
    <3>1. PICK a \in Arenas : a \notin heap /\ next' = [next EXCEPT ![a] = None]
      BY <2>3 DEF Enter
    <3>2. next \in Links /\ next' \in Links /\ mine[t] \in Arenas \cup {None}
      BY DEF PrepareInv, TypeOK, Links
    <3>3. a \notin Chain(mine[t], next)
      BY <1>4, <3>1 DEF PrepareInv, Lists, Linked
    <3>4. \A b \in Arenas \ {a} : next'[b] = next[b]
      BY <3>1, <3>2 DEF Links
    <3>5. QED
      BY <3>2, <3>3, <3>4, ChainSame
  <2>4. CASE ~\E a \in Arenas : Enter(u, a)
    <3>1. next' = next
      BY <2>2, <2>4 DEF Step, Begin, EnterEnds, Lock, LockFails, Recheck, Protocol, Status, Trap, Ask,
           Signing, Allocate, Protect, Address, Remap, Alias, Detach, FirstLook, Look, Sleep,
           Poll, Verify, Store, Release, Unlock, Exchange, Clean
    <3>2. QED
      BY <3>1
  <2>5. QED
    BY <2>3, <2>4
<1>5. QED
  BY <1>1, <1>3, <1>4, RestSame

LEMMA CallsApproach ==
  ASSUME PrepareInv, PrepareInv', [Next]_vars
  PROVE  Approaches
<1> SUFFICES ASSUME NEW t \in Threads
             PROVE  /\ Step(t) \/ LockFails(t) => Rest(t)' < Rest(t) \/ ~alive'
                    /\ ~At(t, "idle") /\ ~Step(t) /\ ~LockFails(t) => Rest(t)' = Rest(t)
  BY DEF Approaches
<1>1. Step(t) \/ LockFails(t) => Rest(t)' < Rest(t) \/ ~alive'
  BY StepShortens
<1>2. ASSUME ~At(t, "idle"), ~Step(t), ~LockFails(t)
      PROVE  Rest(t)' = Rest(t)
  <2>1. CASE \E u \in Threads : Step(u) \/ LockFails(u) \/ \E k \in Kinds : Begin(u, k)
    <3>1. PICK u \in Threads : Step(u) \/ LockFails(u) \/ \E k \in Kinds : Begin(u, k)
      BY <2>1
    <3>2. u # t
      BY <1>2, <3>1 DEF Begin
    <3>3. QED
      BY <1>2, <3>1, <3>2, OthersWait
  <2>2. CASE \/ \E r \in Readers : Visit(r) \/ \E a \in Arenas : LoadHead(r, a)
             \/ Attach \/ Leave \/ UNCHANGED vars
    <3>1. UNCHANGED <<pc, mine, next, clock>>
      BY <2>2 DEF Visit, LoadHead, Attach, Leave, OnlyDebugger, vars, call, list
    <3>2. QED
      BY <3>1, RestSame
  <2>3. QED
    BY <2>1, <2>2 DEF Next, Running, Stopped
<1>3. QED
  BY <1>1, <1>2

\* A call has a bounded number of steps of its own, whatever the debugger, the
\* kernel and other threads do: a step leaves it less to do than before, no
\* step of others leaves it more, and what is left is never above a number that
\* only the timeout and the number of arenas decide.
THEOREM CallsAreBounded ==
  Spec => [](\A t \in Threads : Rest(t) \in 0 .. Longest) /\ [][Approaches]_vars
<1>1. PrepareInv => \A t \in Threads : Rest(t) \in 0 .. Longest
  BY RestBounds DEF PrepareInv
<1>2. PrepareInv /\ PrepareInv' /\ [Next]_vars => [Approaches]_vars
  BY CallsApproach
<1>3. QED
  BY <1>1, <1>2, PrepareInvariant, PTL DEF Spec

\* The arenas a lookup may still visit, and its end.
Walk(r) == IF cur[r] = "idle" THEN 0 ELSE 1 + Cardinality(Chain(cur[r], next))

\* A step of a lookup shortens it; no other step makes one that is under way
\* longer, although arenas are added meanwhile.
Walks ==
  \A r \in Readers :
    /\ Visit(r) => Walk(r)' < Walk(r)
    /\ cur[r] # "idle" /\ ~Visit(r) => Walk(r)' = Walk(r)

LEMMA VisitShortens ==
  ASSUME PrepareInv, NEW r \in Readers, Visit(r)
  PROVE  Walk(r)' < Walk(r)
<1>1. /\ cur[r] # "idle" /\ cur[r] \in Published \cup {None}
      /\ next \in Links /\ UNCHANGED next
      /\ \A x : cur' = [cur EXCEPT ![r] = x] => cur'[r] = x
  BY ListTypes DEF Visit, list, PrepareInv, Lookups, TypeOK
<1>2. Walk(r) = 1 + Cardinality(Chain(cur[r], next))
  BY <1>1 DEF Walk
<1>3. CASE cur'[r] = "idle"
  BY <1>2, <1>3, FiniteNumbers DEF Walk
<1>4. CASE cur'[r] # "idle"
  <2>1. cur[r] \in Arenas /\ cur'[r] = next[cur[r]]
    BY <1>1, <1>4 DEF Visit
  <2>2. PICK a \in Arenas, rest \in SUBSET Arenas : a = cur[r] /\ rest = Chain(next[a], next)
    BY <2>1, FiniteNumbers
  <2>3. Chain(a, next) = rest \cup {a}
    BY <1>1, <2>2, ChainStep
  <2>4. a \notin rest
    BY <1>1, <2>2, Distinct DEF PrepareInv, Lists, Linked, Published
  <2>5. Cardinality(rest \cup {a}) = Cardinality(rest) + 1
    BY <2>2, <2>4, FiniteNumbers, FS_AddElement
  <2>6. Walk(r)' = 1 + Cardinality(rest)
    BY <1>1, <1>4, <2>1, <2>2 DEF Walk
  <2>7. QED
    BY <1>2, <2>2, <2>3, <2>5, <2>6, FiniteNumbers
<1>5. QED
  BY <1>3, <1>4

\* What a lookup still visits stays where it is.
LEMMA WalkSame ==
  ASSUME PrepareInv, PrepareInv', NEW r \in Readers, cur[r] # "idle", cur'[r] = cur[r],
         [Next]_vars
  PROVE  Walk(r)' = Walk(r)
<1>1. /\ next \in Links /\ next' \in Links /\ head \in Arenas \cup {None}
      /\ cur[r] \in Published \cup {None} /\ Published \subseteq Arenas
  BY ListTypes DEF PrepareInv, Lookups, TypeOK, Links, Published, Chain
<1>2. Chain(cur[r], next) \subseteq Published
  BY <1>1, ChainWithin, ChainEmpty DEF Published
<1>3. CASE UNCHANGED next
  BY <1>3 DEF Walk
<1>4. CASE \E t \in Threads : Link(t) \/ \E a \in Arenas : Enter(t, a)
  <2>1. PICK m, x : m \notin Published /\ next' = [next EXCEPT ![m] = x]
    <3>1. CASE \E t \in Threads : Link(t)
      <4>1. PICK t \in Threads : pc[t] = "link" /\ next' = [next EXCEPT ![mine[t]] = head]
        BY <3>1 DEF Link, At
      <4>2. mine[t] \notin Published
        BY <4>1 DEF PrepareInv, Lists, Owns, Preparing
      <4>3. QED
        BY <4>1, <4>2
    <3>2. CASE \E t \in Threads, a \in Arenas : Enter(t, a)
      <4>1. PICK a \in Arenas : a \notin heap /\ next' = [next EXCEPT ![a] = None]
        BY <3>2 DEF Enter
      <4>2. a \notin Published
        BY <4>1 DEF PrepareInv, Lists, Linked, Published
      <4>3. QED
        BY <4>1, <4>2
    <3>3. QED
      BY <1>4, <3>1, <3>2
  <2>2. \A b \in Arenas \ {m} : next'[b] = next[b]
    BY <1>1, <2>1 DEF Links
  <2>3. Chain(cur[r], next') = Chain(cur[r], next)
    <3>1. PICK y \in Arenas \cup {None}, g \in Links : y = cur[r] /\ g = next'
      BY <1>1
    <3>2. m \notin Chain(y, next)
      BY <1>2, <2>1, <3>1
    <3>3. Chain(y, g) = Chain(y, next)
      BY <1>1, <2>2, <3>1, <3>2, ChainSame
    <3>4. QED
      BY <3>1, <3>3
  <2>4. QED
    BY <2>3 DEF Walk
<1>5. QED
  <2>1. UNCHANGED next \/ \E t \in Threads : Link(t) \/ \E a \in Arenas : Enter(t, a)
    BY DEF Next, Running, Stopped, Step, Begin, EnterEnds, Lock, LockFails, Recheck, Protocol, Status,
           Trap, Ask, Signing, Allocate, Protect, Address, Remap, Alias, Detach, FirstLook, Look,
           Sleep, Poll, Verify, Store, Release, Unlock, Exchange, Clean, Visit, LoadHead, Attach,
           Leave, OnlyMoves, OnlyMaps, OnlyWaits, OnlyDebugger, list, vars
  <2>2. QED
    BY <1>3, <1>4, <2>1

LEMMA ReadersWalk ==
  ASSUME PrepareInv, PrepareInv', [Next]_vars
  PROVE  Walks
<1> SUFFICES ASSUME NEW r \in Readers
             PROVE  /\ Visit(r) => Walk(r)' < Walk(r)
                    /\ cur[r] # "idle" /\ ~Visit(r) => Walk(r)' = Walk(r)
  BY DEF Walks
<1>1. Visit(r) => Walk(r)' < Walk(r)
  BY VisitShortens
<1>2. ASSUME cur[r] # "idle", ~Visit(r)
      PROVE  cur'[r] = cur[r]
  <2>1. \/ cur' = cur
        \/ \E s \in Readers \ {r} : \E x : cur' = [cur EXCEPT ![s] = x]
    BY <1>2 DEF Next, Running, Stopped, Step, Begin, EnterEnds, Enter, Lock, LockFails, Recheck, Protocol,
           Status, Trap, Ask, Signing, Allocate, Protect, Address, Remap, Alias, Detach,
           FirstLook, Look, Sleep, Poll, Verify, Link, Store, Release, Unlock, Exchange, Clean,
           Visit, LoadHead, Attach, Leave, OnlyMoves, OnlyMaps, OnlyWaits, OnlyDebugger,
           readers, vars
  <2>2. QED
    BY <2>1 DEF PrepareInv, TypeOK
<1>3. QED
  BY <1>1, <1>2, WalkSame

\* A lookup without the lock visits no more arenas than there are, whatever is
\* published while it walks.
THEOREM LookupsAreBounded ==
  Spec => [](\A r \in Readers : Walk(r) \in 0 .. 1 + Cardinality(Arenas)) /\ [][Walks]_vars
<1>1. \A r \in Readers : Walk(r) \in 0 .. 1 + Cardinality(Arenas)
  BY FiniteNumbers DEF Walk
<1>2. PrepareInv /\ PrepareInv' /\ [Next]_vars => [Walks]_vars
  BY ReadersWalk
<1>3. QED
  BY <1>1, <1>2, PrepareInvariant, PTL DEF Spec

-----------------------------------------------------------------------------
(* Calls wait for the mutex only                                           *)

\* Where the region is got and given back: past the look at the protocol.
Mapping == {"ask", "signing", "allocate", "protect"} \cup Lending

\* The statements whose alternatives do not cover every value have one that
\* is open: the address the arena names, the time that is left, the protocol.
Open(t) ==
  /\ At(t, "address") => field[mine[t]]["execute"] \in {"odd", "region"}
  /\ At(t, "sleep") => left > 0
  /\ pc[t] \in Mapping => device.protocol \in {"debugger", "kernel"}

\* While t holds the mutex, another call only gets as far as the lock.
LEMMA OthersKeepOpen ==
  ASSUME PrepareInv, NEW t \in Threads, pc[t] \in Holding, Open(t), NEW u \in Threads \ {t},
         Step(u) \/ LockFails(u) \/ \E k \in Kinds : Begin(u, k)
  PROVE  Open(t)'
<1> USE Distinct DEF At, Goto, Exit, Return, OnlyMoves, kernel, clock
<1>1. pc[u] \notin Holding /\ mutex = t /\ mutex # None
  BY OnlyHolder DEF PrepareInv, Control
<1>2. \/ EnterEnds(u) \/ LockFails(u)
      \/ (\E a \in Arenas : Enter(u, a)) \/ \E k \in Kinds : Begin(u, k)
  BY <1>1 DEF Step, Lock, LockFails, Recheck, Protocol, Status, Trap, Ask, Signing, Allocate, Protect,
     Address, Remap, Alias, Detach, FirstLook, Look, Sleep, Poll, Verify, Link, Store,
     Release, Unlock, Exchange, Clean, Holding, Preparing
<1>3. UNCHANGED <<left, device>>
  BY <1>2 DEF EnterEnds, LockFails, Enter, Begin
<1>4. pc'[t] = pc[t] /\ mine'[t] = mine[t]
  BY OthersStay
<1>5. ASSUME At(t, "address") PROVE field'[mine[t]] = field[mine[t]]
  <2>1. mine[t] \in heap /\ heap \subseteq Arenas
    BY <1>5 DEF PrepareInv, Lists, Owns, Preparing, TypeOK
  <2>2. field' = field \/ \E a \in Arenas \ heap : \E f : field' = [field EXCEPT ![a] = f]
    BY <1>2 DEF EnterEnds, LockFails, Enter, Begin
  <2>3. QED
    BY <2>1, <2>2 DEF PrepareInv, TypeOK
<1>6. QED
  BY <1>3, <1>4, <1>5 DEF Open

\* A statement leaves the next one an alternative.
LEMMA StepKeepsOpen ==
  ASSUME PrepareInv, PrepareInv', NEW t \in Threads, Open(t), Step(t)
  PROVE  Open(t)'
<1> USE DEF At, Goto, Exit, Fail, Return, OnlyMoves, OnlyMaps, OnlyWaits, SetField, kernel
<1>1. /\ \A p : pc' = [pc EXCEPT ![t] = p] => pc'[t] = p
      /\ pc[t] \in Places /\ mine' \in [Threads -> Arenas \cup {None}]
      /\ field \in [Arenas -> [Sides -> {"null", "region", "odd"}]]
      /\ "execute" \in Sides
  BY DEF PrepareInv, TypeOK, Sides
<1>2. ASSUME pc'[t] = "address"
      PROVE  field'[mine'[t]]["execute"] \in {"odd", "region"}
  <2>1. Ask(t) \/ Protect(t)
    BY <1>1, <1>2 DEF Step, EnterEnds, Enter, Lock, Recheck, Protocol, Status, Trap, Signing,
       Allocate, Address, Remap, Alias, Detach, FirstLook, Look, Sleep, Poll, Verify, Link,
       Store, Release, Unlock, Exchange, Clean, call
  <2>2. mine[t] \in Arenas /\ mine' = mine
    BY <2>1 DEF Ask, Protect, PrepareInv, Lists, Owns, Preparing, TypeOK
  <2>3. CASE Ask(t)
    <3>1. \E v \in {"odd", "region"} : field' = [field EXCEPT ![mine[t]]["execute"] = v]
      BY <1>1, <1>2, <2>3 DEF Ask
    <3>2. QED
      BY <1>1, <2>2, <3>1
  <2>4. CASE Protect(t)
    BY <2>2, <2>4 DEF Protect, PrepareInv, Maps
  <2>5. QED
    BY <2>1, <2>3, <2>4
<1>3. ASSUME pc'[t] = "sleep" PROVE left' > 0
  <2>1. Look(t)
    BY <1>1, <1>3 DEF Step, EnterEnds, Enter, Lock, Recheck, Protocol, Status, Trap, Ask,
       Signing, Allocate, Protect, Address, Remap, Alias, Detach, FirstLook, Sleep, Poll,
       Verify, Link, Store, Release, Unlock, Exchange, Clean, call
  <2>2. left' \in 0 .. Timeout
    BY DEF PrepareInv, TypeOK
  <2>3. expired' = (left' = 0) /\ ~expired'
    BY <1>1, <1>3, <2>1 DEF Look
  <2>4. left' # 0
    BY <2>3, Zenon
  <2>5. QED
    BY <2>2, <2>4, FiniteNumbers
<1>4. ASSUME pc'[t] \in Mapping PROVE device'.protocol \in {"debugger", "kernel"}
  <2>1. pc[t] \in Mapping \/ Protocol(t) \/ Status(t)
    BY <1>1, <1>4 DEF Step, EnterEnds, Enter, Lock, Recheck, Trap, Ask,
       Signing, Allocate, Protect, Address, Remap, Alias, Detach, FirstLook, Look, Sleep, Poll,
       Verify, Link, Store, Release, Unlock, Exchange, Clean, call, Mapping, Lending
  <2>2. device' = device
    BY DEF Step, EnterEnds, Enter, Lock, Recheck, Protocol, Status, Trap, Ask,
       Signing, Allocate, Protect, Address, Remap, Alias, Detach, FirstLook, Look, Sleep, Poll,
       Verify, Link, Store, Release, Unlock, Exchange, Clean
  <2>3. ASSUME Protocol(t) \/ Status(t) PROVE device.protocol \in {"debugger", "kernel"}
    BY <1>1, <1>4, <2>3 DEF Protocol, Status, PrepareInv, Lent, Mapping, Lending
  <2>4. QED
    BY <2>1, <2>2, <2>3 DEF Open
<1>5. QED
  BY <1>2, <1>3, <1>4 DEF Open

\* What nobody else changes.
LEMMA RestKeepsOpen ==
  ASSUME NEW t \in Threads, Open(t), UNCHANGED <<pc, mine, field, left, device>>
  PROVE  Open(t)'
BY DEF Open, At

LEMMA OpenNext ==
  ASSUME PrepareInv, PrepareInv', \A t \in Threads : Open(t), [Next]_vars
  PROVE  \A t \in Threads : Open(t)'
<1> SUFFICES ASSUME NEW t \in Threads PROVE Open(t)'
  OBVIOUS
<1>1. CASE Step(t)
  BY <1>1, StepKeepsOpen
<1>2. CASE \E u \in Threads \ {t} : Step(u) \/ LockFails(u) \/ \E k \in Kinds : Begin(u, k)
  <2>1. PICK u \in Threads \ {t} : Step(u) \/ LockFails(u) \/ \E k \in Kinds : Begin(u, k)
    BY <1>2
  <2>2. CASE pc[t] \in Holding
    BY <2>1, <2>2, OthersKeepOpen
  <2>3. CASE pc[t] \notin Holding
    <3>1. pc'[t] = pc[t]
      BY <2>1, OthersStay
    <3>2. QED
      BY <2>3, <3>1 DEF Open, At, Mapping, Lending, Holding, Preparing
  <2>4. QED
    BY <2>2, <2>3
<1>3. CASE LockFails(t) \/ \E k \in Kinds : Begin(t, k)
  <2>1. pc'[t] \in {"idle", "lock", "enter"}
    BY <1>3 DEF LockFails, Return, Exit, Begin, Goto, PrepareInv, TypeOK
  <2>2. QED
    BY <2>1 DEF Open, At, Mapping, Lending
<1>4. CASE \/ \E r \in Readers : Visit(r) \/ \E a \in Arenas : LoadHead(r, a)
           \/ Attach \/ Leave \/ UNCHANGED vars
  <2>1. UNCHANGED <<pc, mine, field, left, device>>
    BY <1>4 DEF Visit, LoadHead, Attach, Leave, OnlyDebugger, vars, call, kernel, clock
  <2>2. QED
    BY <2>1, RestKeepsOpen
<1>5. QED
  BY <1>1, <1>2, <1>3, <1>4 DEF Next, Running, Stopped

\* Deadlock freedom: a call that waits for the mutex waits for a call that is
\* past the lock, and past the lock every statement has an alternative open: it
\* waits for no other thread, and for the debugger no longer than the deadline
\* says (CallsAreBounded).
THEOREM OnlyTheMutexWaits ==
  Spec => [](\A t \in Threads :
               /\ At(t, "lock") /\ mutex # None => mutex \in Threads /\ pc[mutex] \in Holding
               /\ Open(t))
<1>1. Init => \A t \in Threads : Open(t)
  BY DEF Init, Open, At, Mapping, Lending
<1>2. PrepareInv /\ PrepareInv' /\ (\A t \in Threads : Open(t)) /\ [Next]_vars
        => (\A t \in Threads : Open(t))'
  BY OpenNext
<1>3. PrepareInv /\ (\A t \in Threads : Open(t))
        => \A t \in Threads :
             /\ At(t, "lock") /\ mutex # None => mutex \in Threads /\ pc[mutex] \in Holding
             /\ Open(t)
  BY DEF PrepareInv, TypeOK, Control
<1>4. QED
  BY <1>1, <1>2, <1>3, PrepareInvariant, PTL DEF Spec
=============================================================================
