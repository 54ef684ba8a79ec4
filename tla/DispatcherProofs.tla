--------------------------- MODULE DispatcherProofs ---------------------------
(***************************************************************************)
(* Proofs about Dispatcher, for any number of threads, processes and list  *)
(* nodes: the linked lists of kernel/scheduler.c stay well formed, they    *)
(* are FIFO queues, and get_next_process takes the highest there is.       *)
(***************************************************************************)
EXTENDS Dispatcher, FiniteSetTheorems, SequenceTheorems, TLAPS

-----------------------------------------------------------------------------
(* Loops *)

LEMMA LeastNumber ==
    ASSUME NEW T \in SUBSET Nat, T # {}
    PROVE  \E m \in T : \A k \in T : m <= k
<1> DEFINE D == {0 .. n : n \in T}
<1>1. IsWellFoundedOn(StrictSubsetOrdering(Nat), FiniteSubsetsOf(Nat))
  BY FS_StrictSubsetOrderingWellFounded
<1>2. D \subseteq FiniteSubsetsOf(Nat)
  <2>1. ASSUME NEW n \in T
        PROVE  IsFiniteSet(0 .. n) /\ 0 .. n \in SUBSET Nat
    BY FS_Interval
  <2> QED BY <2>1 DEF FiniteSubsetsOf
<1>3. D # {}
  OBVIOUS
<1>4. \E x \in D : \A y \in D : <<y, x>> \notin StrictSubsetOrdering(Nat)
  <2> HIDE DEF D
  <2> QED BY <1>1, <1>2, <1>3, WFMin
<1>5. PICK m \in T : \A k \in T : <<0 .. k, 0 .. m>> \notin StrictSubsetOrdering(Nat)
  BY <1>4
<1>6. ASSUME NEW k \in T, k < m
      PROVE  FALSE
  <2>1. 0 .. k \in SUBSET Nat /\ 0 .. m \in SUBSET Nat
    OBVIOUS
  <2>2. 0 .. k \subseteq 0 .. m /\ m \in 0 .. m /\ m \notin 0 .. k
    BY <1>6
  <2> QED BY <2>1, <2>2, <1>5 DEF StrictSubsetOrdering
<1> QED
  BY <1>6

\* A loop's invariant: what holds at 0 and from each index to the next.
LEMMA LoopInduction ==
    ASSUME NEW n \in Nat, NEW T, 0 \in T,
           \A k \in 0 .. n - 1 : k \in T => k + 1 \in T
    PROVE  \A k \in 0 .. n : k \in T
<1> SUFFICES ASSUME NEW j \in 0 .. n, j \notin T PROVE FALSE
  OBVIOUS
<1> DEFINE Bad == {k \in 0 .. n : k \notin T}
<1>1. Bad \in SUBSET Nat /\ Bad # {}
  OBVIOUS
<1>2. PICK m \in Bad : \A k \in Bad : m <= k
  <2> HIDE DEF Bad
  <2> QED BY <1>1, LeastNumber
<1>3. m # 0 /\ m - 1 \in 0 .. n - 1 /\ m - 1 \notin Bad
  BY <1>2
<1> QED BY <1>2, <1>3

-----------------------------------------------------------------------------
(* The inductive invariant *)

\* The k-th node from first on, and the nodes of every queue in that order.
Walk(first, nd, k) ==
    LET at[j \in 1 .. k] == IF j = 1 THEN first ELSE nd[at[j - 1]].next
    IN  at[k]

Chains(fr, sz, nd) == [l \in Priorities |-> [k \in 1 .. sz[l] |-> Walk(fr[l], nd, k)]]

\* The nodes of ch are the lists: linked in that order from front to rear, each
\* in one place, all of the queue of their process's priority.
Linked(ch, fr, re, sz, nd) ==
    \A l \in Priorities :
        /\ IF sz[l] = 0 THEN fr[l] = NULL /\ re[l] = NULL
                        ELSE fr[l] = ch[l][1] /\ re[l] = ch[l][sz[l]]
        /\ \A k \in 1 .. sz[l] :
              /\ ch[l][k] \in Node /\ nd[ch[l][k]] # NULL
              /\ nd[ch[l][k]].next = IF k = sz[l] THEN NULL ELSE ch[l][k + 1]
              /\ priority[nd[ch[l][k]].process] = l

Apart(ch, sz) ==
    \A l, m \in Priorities : \A j \in 1 .. sz[l] : \A k \in 1 .. sz[m] :
        ch[l][j] = ch[m][k] => l = m /\ j = k

\* No node is outside the lists.
Covered(ch, sz, nd) ==
    \A n \in Node : nd[n] # NULL => \E l \in Priorities : \E k \in 1 .. sz[l] : n = ch[l][k]

Listed(ch, fr, re, sz, nd) ==
    Linked(ch, fr, re, sz, nd) /\ Apart(ch, sz) /\ Covered(ch, sz, nd)

Allocated(nd) == {n \in Node : nd[n] # NULL}

Counted(sz, nd) ==
    /\ IsFiniteSet(Allocated(nd))
    /\ Cardinality(Allocated(nd)) = sz["high"] + sz["medium"] + sz["low"]

\* What is in a queue is READY, is there once and in no thread's hands.
Waiting(nd) ==
    /\ \A n \in Allocated(nd) :
          /\ state[nd[n].process] = "READY"
          /\ \A t \in Thread : mine[t] # nd[n].process
    /\ \A m, n \in Allocated(nd) : nd[m].process = nd[n].process => m = n

\* A thread has a process in hand from the call that submits it or returns it
\* until it is queued or done with, and no other thread has the same.
InHand ==
    /\ \A t \in Thread :
          /\ pc[t] \in {"ready", "push", "switch", "running"} => mine[t] \in Process
          /\ pc[t] \in {"idle", "lock", "check", "take"} => mine[t] = NULL
          /\ pc[t] = "push" => state[mine[t]] = "READY"
    /\ \A t, u \in Thread : mine[t] = mine[u] /\ mine[t] # NULL => t = u

\* The scheduler_lock is held from the first queue looked at to the last.
LockHeld ==
    \A t \in Thread : pc[t] \in {"check", "take", "unlock"} <=> scheduler_lock = t

IsQueued(p) == \E n \in Allocated(nodes) : nodes[n].process = p

\* What was queued when the lock was taken still is, in a queue the cascade has
\* not passed; a queue seen non-empty stays so, for only the holder takes.
Cascade ==
    \A t \in Thread :
        /\ pc[t] \in {"check", "take"} =>
              \A p \in found[t] : IsQueued(p) /\ rank[t] <= Rank(priority[p])
        /\ pc[t] = "take" => size[AtRank(rank[t])] # 0

Lists(fr, re, sz, nd) ==
    /\ fr \in [Priorities -> Node \union {NULL}] /\ re \in [Priorities -> Node \union {NULL}]
    /\ sz \in [Priorities -> Nat] /\ nd \in [Node -> Nodes \union {NULL}]
    /\ Listed(Chains(fr, sz, nd), fr, re, sz, nd)
    /\ Counted(sz, nd)

IInv ==
    /\ TypeOK /\ Lists(front, rear, size, nodes)
    /\ Waiting(nodes) /\ InHand
    /\ LockHeld /\ Cascade /\ HighestFirst

-----------------------------------------------------------------------------
(* The lists as data *)

\* NULL is no node: a free address is told from one that holds a QueueNode.
LEMMA NodesNotNull == NULL \notin Nodes
BY DispatcherAssumption

\* A walk along the links passes the nodes that are linked, in that order.
Path(c, first, nd, K) ==
    K \in Nat \ {0} /\ c[1] = first /\ \A j \in 1 .. K - 1 : nd[c[j]].next = c[j + 1]

LEMMA Walks ==
    ASSUME NEW first, NEW nd, NEW c, NEW K, Path(c, first, nd, K)
    PROVE  Walk(first, nd, K) = c[K]
<1>0. K \in Nat \ {0} /\ c[1] = first /\ \A j \in 1 .. K - 1 : nd[c[j]].next = c[j + 1]
  BY DEF Path
<1> DEFINE Is(g) == g = [j \in 1 .. K |-> IF j = 1 THEN first ELSE nd[g[j - 1]].next]
           w == [j \in 1 .. K |-> c[j]]
           v == CHOOSE g : Is(g)
<1>1. Is(w)
  <2>1. \A j \in 1 .. K : w[j] = IF j = 1 THEN first ELSE nd[w[j - 1]].next
    <3> SUFFICES ASSUME NEW j \in 1 .. K
                 PROVE  w[j] = IF j = 1 THEN first ELSE nd[w[j - 1]].next
      OBVIOUS
    <3>1. CASE j = 1
      BY <1>0, <3>1
    <3>2. CASE j # 1
      <4>1. j - 1 \in 1 .. K - 1 /\ j - 1 \in 1 .. K /\ (j - 1) + 1 = j
        BY <1>0, <3>2
      <4>2. w[j] = c[j] /\ w[j - 1] = c[j - 1]
        BY <4>1
      <4>3. nd[c[j - 1]].next = c[j]
        BY <1>0, <4>1
      <4> QED BY <3>2, <4>2, <4>3
    <3> QED BY <3>1, <3>2
  <2> QED BY <2>1
<1>2. Is(v)
  <2> HIDE DEF w, Is
  <2> QED BY <1>1
<1>3. Walk(first, nd, K) = v[K]
  BY DEF Walk
<1> HIDE DEF v
<1>4. v[1] = first /\ \A j \in 2 .. K : v[j] = nd[v[j - 1]].next
  BY <1>0, <1>2
<1> DEFINE T == {j \in 0 .. K : j = 0 \/ v[j] = c[j]}
<1>5. ASSUME NEW j \in 0 .. K - 1, j \in T
      PROVE  j + 1 \in T
  <2>1. CASE j = 0
    BY <1>0, <1>4, <2>1
  <2>2. CASE j # 0
    <3>1. j + 1 \in 2 .. K /\ (j + 1) - 1 = j /\ j \in 1 .. K - 1 /\ j + 1 \in 0 .. K
      BY <1>0, <2>2
    <3>2. v[j + 1] = nd[v[j]].next /\ v[j] = c[j]
      BY <1>4, <1>5, <2>2, <3>1
    <3>3. nd[c[j]].next = c[j + 1]
      BY <1>0, <3>1
    <3> QED BY <3>1, <3>2, <3>3
  <2> QED BY <2>1, <2>2
<1>6. K \in T
  <2>1. 0 \in T /\ K \in 0 .. K
    BY <1>0
  <2>2. \A j \in 0 .. K - 1 : j \in T => j + 1 \in T
    BY <1>5
  <2> HIDE DEF T
  <2>3. \A j \in 0 .. K : j \in T
    BY ONLY <1>0, <2>1, <2>2, LoopInduction
  <2> QED BY <2>1, <2>3
<1> QED BY <1>0, <1>3, <1>6

\* The nodes that are linked are what a walk from each front finds.
LEMMA ChainsIs ==
    ASSUME NEW ch, NEW fr, NEW re, NEW sz \in [Priorities -> Nat], NEW nd,
           Linked(ch, fr, re, sz, nd),
           ch = [l \in Priorities |-> [k \in 1 .. sz[l] |-> ch[l][k]]]
    PROVE  Chains(fr, sz, nd) = ch
<1>1. ASSUME NEW l \in Priorities, NEW k \in 1 .. sz[l]
      PROVE  Walk(fr[l], nd, k) = ch[l][k]
  <2>1. sz[l] # 0 /\ k \in Nat \ {0} /\ sz[l] \in Nat
    OBVIOUS
  <2>2. ch[l][1] = fr[l]
    BY <2>1 DEF Linked
  <2>3. ASSUME NEW j \in 1 .. k - 1
        PROVE  nd[ch[l][j]].next = ch[l][j + 1]
    <3>1. j \in 1 .. sz[l] /\ j # sz[l]
      BY <2>1
    <3> QED BY <3>1 DEF Linked
  <2>4. Path(ch[l], fr[l], nd, k)
    BY <2>1, <2>2, <2>3 DEF Path
  <2> QED BY <2>4, Walks
<1>2. Chains(fr, sz, nd) = [l \in Priorities |-> [k \in 1 .. sz[l] |-> ch[l][k]]]
  BY <1>1 DEF Chains
<1> QED BY <1>2

-----------------------------------------------------------------------------
(* Putting in *)

\* What queue_enqueue does with a free node n.
Enters(l, p, n, fr, re, sz, nd, fr2, re2, sz2, nd2) ==
    LET node == [process |-> p, next |-> NULL]
    IN  /\ l \in Priorities /\ p \in Process /\ priority[p] = l /\ n \in Node /\ nd[n] = NULL
        /\ sz2 = [sz EXCEPT ![l] = sz[l] + 1] /\ re2 = [re EXCEPT ![l] = n]
        /\ IF re[l] = NULL
           THEN fr2 = [fr EXCEPT ![l] = n] /\ nd2 = [nd EXCEPT ![n] = node]
           ELSE fr2 = fr /\ nd2 = [nd EXCEPT ![n] = node, ![re[l]].next = n]

\* The nodes of the lists afterwards.
Longer(ch, l, n, sz) ==
    [m \in Priorities |->
        [k \in 1 .. (IF m = l THEN sz[m] + 1 ELSE sz[m]) |->
            IF m = l /\ k = sz[m] + 1 THEN n ELSE ch[m][k]]]

LEMMA EnterValues ==
    ASSUME NEW l, NEW p, NEW n, NEW fr, NEW re, NEW sz, NEW nd,
           NEW fr2, NEW re2, NEW sz2, NEW nd2, NEW ch,
           Lists(fr, re, sz, nd), ch = Chains(fr, sz, nd),
           Enters(l, p, n, fr, re, sz, nd, fr2, re2, sz2, nd2)
    PROVE  /\ l \in Priorities /\ n \in Node /\ nd[n] = NULL /\ p \in Process /\ sz[l] \in Nat
           /\ fr2 \in [Priorities -> Node \union {NULL}] /\ re2 \in [Priorities -> Node \union {NULL}]
           /\ sz2 \in [Priorities -> Nat] /\ nd2 \in [Node -> Nodes \union {NULL}]
           /\ sz2[l] = sz[l] + 1 /\ re2[l] = n
           /\ \A m \in Priorities \ {l} : sz2[m] = sz[m] /\ re2[m] = re[m] /\ fr2[m] = fr[m]
           /\ nd2[n] # NULL /\ nd2[n].process = p /\ nd2[n].next = NULL
           /\ fr2[l] = IF sz[l] = 0 THEN n ELSE fr[l]
           /\ \A m \in Node \ {n} : /\ (nd2[m] = NULL) <=> (nd[m] = NULL)
                                    /\ nd2[m].process = nd[m].process
           /\ \A m \in Node \ {n} : ~(sz[l] # 0 /\ m = ch[l][sz[l]]) => nd2[m] = nd[m]
           /\ sz[l] # 0 => nd2[ch[l][sz[l]]].next = n
<1> DEFINE node == [process |-> p, next |-> NULL]
<1>1. /\ l \in Priorities /\ n \in Node /\ nd[n] = NULL /\ p \in Process
      /\ sz2 = [sz EXCEPT ![l] = sz[l] + 1] /\ re2 = [re EXCEPT ![l] = n]
  BY DEF Enters
<1>2. /\ fr \in [Priorities -> Node \union {NULL}] /\ re \in [Priorities -> Node \union {NULL}]
      /\ sz \in [Priorities -> Nat] /\ nd \in [Node -> Nodes \union {NULL}]
      /\ Linked(ch, fr, re, sz, nd)
  BY DEF Lists, Listed
<1>3. node \in Nodes /\ node # NULL /\ node.process = p /\ node.next = NULL
  <2>1. node \in Nodes
    BY <1>1 DEF Nodes
  <2> QED BY <2>1, NodesNotNull
<1>4. /\ re2 \in [Priorities -> Node \union {NULL}] /\ sz2 \in [Priorities -> Nat]
      /\ sz2[l] = sz[l] + 1 /\ re2[l] = n /\ sz[l] \in Nat
      /\ \A m \in Priorities \ {l} : sz2[m] = sz[m] /\ re2[m] = re[m]
  BY <1>1, <1>2
<1>5. CASE sz[l] = 0
  <2>1. re[l] = NULL
    BY <1>1, <1>2, <1>5 DEF Linked
  <2>2. fr2 = [fr EXCEPT ![l] = n] /\ nd2 = [nd EXCEPT ![n] = node]
    BY <2>1 DEF Enters
  <2>3. /\ fr2 \in [Priorities -> Node \union {NULL}] /\ nd2 \in [Node -> Nodes \union {NULL}]
        /\ fr2[l] = n /\ \A m \in Priorities \ {l} : fr2[m] = fr[m]
        /\ nd2[n] = node /\ \A m \in Node \ {n} : nd2[m] = nd[m]
    <3> HIDE DEF node
    <3> QED BY <1>1, <1>2, <1>3, <2>2
  <2> HIDE DEF node
  <2> QED BY <1>1, <1>3, <1>4, <1>5, <2>3
<1>6. CASE sz[l] # 0
  <2> DEFINE r == ch[l][sz[l]]
             told == [process |-> nd[r].process, next |-> n]
  <2>1. r = re[l] /\ r \in Node /\ nd[r] # NULL
    <3>1. sz[l] \in 1 .. sz[l]
      BY <1>4, <1>6
    <3> QED BY <1>1, <1>2, <1>6, <3>1 DEF Linked
  <2>2. r # NULL /\ r # n
    BY <1>1, <2>1, DispatcherAssumption
  <2>3. nd[r] \in Nodes
    BY <1>2, <2>1
  <2>4. nd[r].process \in Process /\ told \in Nodes /\ [nd[r] EXCEPT !.next = n] = told
    BY <1>1, <2>3 DEF Nodes
  <2>5. told # NULL /\ told.process = nd[r].process /\ told.next = n
    BY <2>4, NodesNotNull
  <2>6. fr2 = fr /\ nd2 = [nd EXCEPT ![n] = node, ![r].next = n]
    BY <2>1, <2>2 DEF Enters
  <2>7. nd2 = [[nd EXCEPT ![n] = node] EXCEPT ![r] = [[nd EXCEPT ![n] = node][r] EXCEPT !.next = n]]
    BY <2>6
  <2>8. [nd EXCEPT ![n] = node][r] = nd[r]
    BY <1>2, <2>1, <2>2
  <2>9. nd2 = [[nd EXCEPT ![n] = node] EXCEPT ![r] = told]
    <3> HIDE DEF node, told, r
    <3> QED BY <2>4, <2>7, <2>8
  <2>10. /\ nd2 \in [Node -> Nodes \union {NULL}] /\ nd2[n] = node /\ nd2[r] = told
         /\ \A m \in Node \ {n, r} : nd2[m] = nd[m]
    <3> HIDE DEF node, told, r
    <3> QED BY <1>1, <1>2, <1>3, <2>1, <2>2, <2>4, <2>9
  <2> HIDE DEF node, told, r
  <2>11. \A m \in Node \ {n} : /\ (nd2[m] = NULL) <=> (nd[m] = NULL)
                               /\ nd2[m].process = nd[m].process
    BY <2>1, <2>5, <2>10
  <2> QED BY <1>1, <1>2, <1>3, <1>4, <1>6, <2>1, <2>5, <2>6, <2>10, <2>11 DEF r
<1> QED BY <1>4, <1>5, <1>6

LEMMA EnterLists ==
    ASSUME NEW l, NEW p, NEW n, NEW fr, NEW re, NEW sz, NEW nd,
           NEW fr2, NEW re2, NEW sz2, NEW nd2,
           Lists(fr, re, sz, nd),
           Enters(l, p, n, fr, re, sz, nd, fr2, re2, sz2, nd2)
    PROVE  /\ Lists(fr2, re2, sz2, nd2)
           /\ Chains(fr2, sz2, nd2) = Longer(Chains(fr, sz, nd), l, n, sz)
<1> DEFINE ch == Chains(fr, sz, nd)
           c2 == Longer(ch, l, n, sz)
           last == sz[l] + 1
<1>1. /\ sz \in [Priorities -> Nat] /\ NULL \notin Node
      /\ Linked(ch, fr, re, sz, nd) /\ Apart(ch, sz) /\ Covered(ch, sz, nd)
  BY DispatcherAssumption DEF Lists, Listed
<1>2. /\ l \in Priorities /\ n \in Node /\ nd[n] = NULL /\ p \in Process /\ sz[l] \in Nat
      /\ fr2 \in [Priorities -> Node \union {NULL}] /\ re2 \in [Priorities -> Node \union {NULL}]
      /\ sz2 \in [Priorities -> Nat] /\ nd2 \in [Node -> Nodes \union {NULL}]
      /\ sz2[l] = sz[l] + 1 /\ re2[l] = n
      /\ \A m \in Priorities \ {l} : sz2[m] = sz[m] /\ re2[m] = re[m] /\ fr2[m] = fr[m]
      /\ nd2[n] # NULL /\ nd2[n].process = p /\ nd2[n].next = NULL
      /\ fr2[l] = IF sz[l] = 0 THEN n ELSE fr[l]
      /\ \A m \in Node \ {n} : /\ (nd2[m] = NULL) <=> (nd[m] = NULL)
                               /\ nd2[m].process = nd[m].process
      /\ \A m \in Node \ {n} : ~(sz[l] # 0 /\ m = ch[l][sz[l]]) => nd2[m] = nd[m]
      /\ sz[l] # 0 => nd2[ch[l][sz[l]]].next = n
  <2> HIDE DEF ch
  <2> QED BY EnterValues DEF ch
<1>form. /\ c2 = [m \in Priorities |-> [k \in 1 .. sz2[m] |-> c2[m][k]]]
         /\ \A m \in Priorities : \A k \in 1 .. sz2[m] :
               c2[m][k] = IF m = l /\ k = sz[m] + 1 THEN n ELSE ch[m][k]
  <2> HIDE DEF ch
  <2>1. \A m \in Priorities : sz2[m] = IF m = l THEN sz[m] + 1 ELSE sz[m]
    BY <1>2
  <2>2. c2 = [m \in Priorities |->
                [k \in 1 .. sz2[m] |-> IF m = l /\ k = sz[m] + 1 THEN n ELSE ch[m][k]]]
    BY <2>1 DEF Longer
  <2>3. \A m \in Priorities : \A k \in 1 .. sz2[m] :
           c2[m][k] = IF m = l /\ k = sz[m] + 1 THEN n ELSE ch[m][k]
    BY <2>2
  <2> QED BY <2>2, <2>3
<1> HIDE DEF ch, c2
<1>3. /\ c2[l][last] = n /\ last \in 1 .. sz2[l]
      /\ \A m \in Priorities : \A k \in 1 .. sz[m] : c2[m][k] = ch[m][k] /\ k \in 1 .. sz2[m]
      /\ \A m \in Priorities : \A k \in 1 .. sz2[m] : k \in 1 .. sz[m] \/ (m = l /\ k = last)
  <2>1. last \in 1 .. sz2[l] /\ \A m \in Priorities : sz[m] \in Nat
    BY <1>1, <1>2
  <2>2. c2[l][last] = n
    BY <1>2, <1>form, <2>1
  <2>3. ASSUME NEW m \in Priorities, NEW k \in 1 .. sz[m]
        PROVE  c2[m][k] = ch[m][k] /\ k \in 1 .. sz2[m]
    <3>1. k \in 1 .. sz2[m] /\ k # sz[m] + 1
      BY <1>2, <2>1
    <3> QED BY <1>form, <3>1
  <2>4. ASSUME NEW m \in Priorities, NEW k \in 1 .. sz2[m]
        PROVE  k \in 1 .. sz[m] \/ (m = l /\ k = last)
    BY <1>2, <2>1
  <2> QED BY <2>1, <2>2, <2>3, <2>4
<1>4. \A m \in Priorities : \A k \in 1 .. sz[m] :
         ch[m][k] \in Node /\ nd[ch[m][k]] # NULL /\ ch[m][k] # n
  BY <1>1, <1>2 DEF Linked
<1> HIDE DEF last
<1>5. Linked(c2, fr2, re2, sz2, nd2)
  <2> SUFFICES ASSUME NEW m \in Priorities
               PROVE  /\ IF sz2[m] = 0 THEN fr2[m] = NULL /\ re2[m] = NULL
                                       ELSE fr2[m] = c2[m][1] /\ re2[m] = c2[m][sz2[m]]
                      /\ \A k \in 1 .. sz2[m] :
                            /\ c2[m][k] \in Node /\ nd2[c2[m][k]] # NULL
                            /\ nd2[c2[m][k]].next = IF k = sz2[m] THEN NULL ELSE c2[m][k + 1]
                            /\ priority[nd2[c2[m][k]].process] = m
    BY DEF Linked
  <2>1. IF sz2[m] = 0 THEN fr2[m] = NULL /\ re2[m] = NULL
                      ELSE fr2[m] = c2[m][1] /\ re2[m] = c2[m][sz2[m]]
    <3>1. /\ sz[m] \in Nat
          /\ IF sz[m] = 0 THEN fr[m] = NULL /\ re[m] = NULL
                          ELSE fr[m] = ch[m][1] /\ re[m] = ch[m][sz[m]]
      BY <1>1 DEF Linked
    <3>2. CASE m # l
      BY <1>2, <1>3, <3>1, <3>2
    <3>3. CASE m = l /\ sz[l] = 0
      BY <1>2, <1>3, <3>1, <3>3
    <3>4. CASE m = l /\ sz[l] # 0
      <4>1. 1 \in 1 .. sz[l] /\ sz2[l] = last /\ last # 0
        BY <1>2, <3>4 DEF last
      <4>2. fr2[m] = c2[m][1]
        BY <1>2, <1>3, <3>1, <3>4, <4>1
      <4>3. re2[m] = c2[m][sz2[m]]
        BY <1>2, <1>3, <3>4, <4>1
      <4> QED BY <3>4, <4>1, <4>2, <4>3
    <3> QED BY <3>2, <3>3, <3>4
  <2>2. ASSUME NEW k \in 1 .. sz2[m]
        PROVE  /\ c2[m][k] \in Node /\ nd2[c2[m][k]] # NULL
               /\ nd2[c2[m][k]].next = IF k = sz2[m] THEN NULL ELSE c2[m][k + 1]
               /\ priority[nd2[c2[m][k]].process] = m
    <3>1. CASE m = l /\ k = last
      <4>1. c2[m][k] = n /\ sz2[m] = k
        BY <1>2, <1>3, <3>1
      <4>2. priority[p] = l
        BY DEF Enters
      <4> QED BY <1>2, <3>1, <4>1, <4>2
    <3>2. CASE k \in 1 .. sz[m]
      <4> DEFINE a == ch[m][k]
      <4>1. /\ c2[m][k] = a /\ a \in Node /\ nd[a] # NULL /\ a # n
            /\ nd[a].next = IF k = sz[m] THEN NULL ELSE ch[m][k + 1]
            /\ priority[nd[a].process] = m
        BY <1>1, <1>3, <1>4, <3>2 DEF Linked
      <4>2. nd2[a] # NULL /\ nd2[a].process = nd[a].process
        BY <1>2, <4>1
      <4>3. nd2[a].next = IF k = sz2[m] THEN NULL ELSE c2[m][k + 1]
        <5>1. sz[m] \in Nat /\ sz[l] \in Nat
          BY <1>1, <1>2
        <5>2. CASE m = l /\ k = sz[l]
          BY <1>2, <1>3, <5>1, <5>2
        <5>3. CASE m # l \/ k # sz[l]
          <6>1. ~(sz[l] # 0 /\ a = ch[l][sz[l]])
            <7> SUFFICES ASSUME sz[l] # 0, a = ch[l][sz[l]] PROVE FALSE
              OBVIOUS
            <7>1. sz[l] \in 1 .. sz[l]
              BY <5>1
            <7> QED BY <1>1, <1>2, <3>2, <5>3, <7>1 DEF Apart
          <6>2. nd2[a] = nd[a]
            BY <1>2, <4>1, <6>1
          <6>3. CASE k = sz[m]
            <7>1. m # l /\ sz2[m] = sz[m]
              BY <1>2, <5>3, <6>3
            <7> QED BY <4>1, <6>2, <6>3, <7>1
          <6>4. CASE k # sz[m]
            <7>1. k + 1 \in 1 .. sz[m] /\ k # sz2[m]
              BY <1>2, <3>2, <5>1, <6>4
            <7>2. c2[m][k + 1] = ch[m][k + 1]
              BY <1>3, <7>1
            <7> QED BY <4>1, <6>2, <6>4, <7>1, <7>2
          <6> QED BY <6>3, <6>4
        <5> QED BY <5>2, <5>3
      <4> QED BY <4>1, <4>2, <4>3
    <3> QED BY <1>3, <3>1, <3>2
  <2> QED BY <2>1, <2>2
<1>6. Apart(c2, sz2)
  <2> SUFFICES ASSUME NEW m \in Priorities, NEW i \in Priorities,
                      NEW j \in 1 .. sz2[m], NEW k \in 1 .. sz2[i], c2[m][j] = c2[i][k]
               PROVE  m = i /\ j = k
    BY DEF Apart
  <2>1. CASE j \in 1 .. sz[m] /\ k \in 1 .. sz[i]
    BY <1>1, <1>3, <2>1 DEF Apart
  <2>2. CASE j \in 1 .. sz[m] /\ i = l /\ k = last
    BY <1>3, <1>4, <2>2
  <2>3. CASE m = l /\ j = last /\ k \in 1 .. sz[i]
    BY <1>3, <1>4, <2>3
  <2>4. CASE m = l /\ j = last /\ i = l /\ k = last
    BY <2>4
  <2> QED BY <1>3, <2>1, <2>2, <2>3, <2>4
<1>7. Covered(c2, sz2, nd2)
  <2> SUFFICES ASSUME NEW a \in Node, nd2[a] # NULL
               PROVE  \E m \in Priorities : \E k \in 1 .. sz2[m] : a = c2[m][k]
    BY DEF Covered
  <2>1. CASE a = n
    BY <1>2, <1>3, <2>1
  <2>2. CASE a # n
    <3>1. PICK m \in Priorities : \E k \in 1 .. sz[m] : a = ch[m][k]
      BY <1>1, <1>2, <2>2 DEF Covered
    <3> QED BY <1>3, <3>1
  <2> QED BY <2>1, <2>2
<1>8. Counted(sz2, nd2)
  <2>1. Allocated(nd2) = Allocated(nd) \union {n} /\ n \notin Allocated(nd)
    BY <1>2 DEF Allocated
  <2>2. /\ IsFiniteSet(Allocated(nd))
        /\ Cardinality(Allocated(nd)) = sz["high"] + sz["medium"] + sz["low"]
    BY DEF Lists, Counted
  <2>3. /\ IsFiniteSet(Allocated(nd2))
        /\ Cardinality(Allocated(nd2)) = Cardinality(Allocated(nd)) + 1
    BY <2>1, <2>2, FS_AddElement
  <2>4. sz2["high"] + sz2["medium"] + sz2["low"] = sz["high"] + sz["medium"] + sz["low"] + 1
    BY <1>1, <1>2 DEF Priorities
  <2> QED BY <2>2, <2>3, <2>4 DEF Counted
<1>9. Chains(fr2, sz2, nd2) = c2
  BY <1>2, <1>form, <1>5, ChainsIs
<1>10. Listed(Chains(fr2, sz2, nd2), fr2, re2, sz2, nd2)
  BY <1>5, <1>6, <1>7, <1>9 DEF Listed
<1> QED BY <1>2, <1>8, <1>9, <1>10 DEF Lists, ch, c2

-----------------------------------------------------------------------------
(* Taking out *)

\* What queue_dequeue does with a list that is not empty.
Leaves(l, fr, re, sz, nd, fr2, re2, sz2, nd2) ==
    LET n == fr[l]
    IN  /\ l \in Priorities /\ n # NULL
        /\ fr2 = [fr EXCEPT ![l] = nd[n].next]
        /\ re2 = IF nd[n].next = NULL THEN [re EXCEPT ![l] = NULL] ELSE re
        /\ sz2 = [sz EXCEPT ![l] = sz[l] - 1] /\ nd2 = [nd EXCEPT ![n] = NULL]

\* The nodes of the lists afterwards.
Shorter(ch, l, sz) ==
    [m \in Priorities |->
        [k \in 1 .. (IF m = l THEN sz[m] - 1 ELSE sz[m]) |-> IF m = l THEN ch[m][k + 1] ELSE ch[m][k]]]

LEMMA LeaveLists ==
    ASSUME NEW l, NEW fr, NEW re, NEW sz, NEW nd, NEW fr2, NEW re2, NEW sz2, NEW nd2,
           Lists(fr, re, sz, nd), Leaves(l, fr, re, sz, nd, fr2, re2, sz2, nd2)
    PROVE  /\ Lists(fr2, re2, sz2, nd2)
           /\ Chains(fr2, sz2, nd2) = Shorter(Chains(fr, sz, nd), l, sz)
           /\ sz[l] # 0 /\ fr[l] = Chains(fr, sz, nd)[l][1] /\ fr[l] \in Allocated(nd)
           /\ priority[nd[fr[l]].process] = l
           /\ Allocated(nd2) = Allocated(nd) \ {fr[l]}
           /\ \A m \in Node \ {fr[l]} : nd2[m] = nd[m]
<1> DEFINE ch == Chains(fr, sz, nd)
           c2 == Shorter(ch, l, sz)
           n == fr[l]
<1> HIDE DEF ch, c2, n
<1>1. /\ sz \in [Priorities -> Nat] /\ NULL \notin Node
      /\ Linked(ch, fr, re, sz, nd) /\ Apart(ch, sz) /\ Covered(ch, sz, nd)
  BY DispatcherAssumption DEF Lists, Listed, ch
<1>types. /\ fr \in [Priorities -> Node \union {NULL}] /\ re \in [Priorities -> Node \union {NULL}]
          /\ nd \in [Node -> Nodes \union {NULL}]
  BY DEF Lists
<1>2. /\ l \in Priorities /\ n # NULL
      /\ fr2 = [fr EXCEPT ![l] = nd[n].next]
      /\ re2 = IF nd[n].next = NULL THEN [re EXCEPT ![l] = NULL] ELSE re
      /\ sz2 = [sz EXCEPT ![l] = sz[l] - 1] /\ nd2 = [nd EXCEPT ![n] = NULL]
  BY DEF Leaves, n
<1>3. /\ sz[l] \in Nat \ {0} /\ n = ch[l][1] /\ 1 \in 1 .. sz[l]
  <2>1. sz[l] \in Nat
    BY <1>1, <1>2
  <2>2. IF sz[l] = 0 THEN n = NULL ELSE n = ch[l][1]
    BY <1>1, <1>2 DEF Linked, n
  <2> QED BY <1>2, <2>1, <2>2
<1>4. /\ n \in Node /\ nd[n] # NULL /\ priority[nd[n].process] = l
      /\ nd[n].next = IF sz[l] = 1 THEN NULL ELSE ch[l][2]
  <2>1. /\ ch[l][1] \in Node /\ nd[ch[l][1]] # NULL /\ priority[nd[ch[l][1]].process] = l
        /\ nd[ch[l][1]].next = IF 1 = sz[l] THEN NULL ELSE ch[l][1 + 1]
    BY <1>1, <1>2, <1>3 DEF Linked
  <2> QED BY <1>3, <2>1
<1>5. sz[l] # 1 => 2 \in 1 .. sz[l] /\ ch[l][2] \in Node /\ ch[l][2] # NULL
  <2> SUFFICES ASSUME sz[l] # 1 PROVE 2 \in 1 .. sz[l] /\ ch[l][2] \in Node /\ ch[l][2] # NULL
    OBVIOUS
  <2>1. 2 \in 1 .. sz[l]
    BY <1>3
  <2> QED BY <1>1, <1>2, <2>1 DEF Linked
<1>6. /\ fr2 \in [Priorities -> Node \union {NULL}] /\ re2 \in [Priorities -> Node \union {NULL}]
      /\ sz2 \in [Priorities -> Nat] /\ nd2 \in [Node -> Nodes \union {NULL}]
  <2>1. nd[n].next \in Node \union {NULL}
    BY <1>4, <1>5
  <2>2. sz[l] - 1 \in Nat
    BY <1>3
  <2> QED BY <1>1, <1>types, <1>2, <2>1, <2>2
<1>7. /\ fr2[l] = nd[n].next /\ sz2[l] = sz[l] - 1 /\ sz2[l] \in Nat
      /\ re2[l] = IF sz[l] = 1 THEN NULL ELSE re[l]
      /\ nd2[n] = NULL /\ \A m \in Node \ {n} : nd2[m] = nd[m]
      /\ \A m \in Priorities \ {l} : sz2[m] = sz[m] /\ re2[m] = re[m] /\ fr2[m] = fr[m]
  BY <1>1, <1>types, <1>2, <1>3, <1>4, <1>5, <1>6
<1>form. /\ c2 = [m \in Priorities |-> [k \in 1 .. sz2[m] |-> c2[m][k]]]
         /\ \A m \in Priorities : \A k \in 1 .. sz2[m] :
               c2[m][k] = IF m = l THEN ch[m][k + 1] ELSE ch[m][k]
  <2>1. \A m \in Priorities : sz2[m] = IF m = l THEN sz[m] - 1 ELSE sz[m]
    BY <1>7
  <2>2. c2 = [m \in Priorities |->
                [k \in 1 .. sz2[m] |-> IF m = l THEN ch[m][k + 1] ELSE ch[m][k]]]
    BY <2>1 DEF Shorter, c2
  <2>3. \A m \in Priorities : \A k \in 1 .. sz2[m] :
           c2[m][k] = IF m = l THEN ch[m][k + 1] ELSE ch[m][k]
    BY <2>2
  <2> QED BY <2>2, <2>3
\* Where the k-th node of the shorter list of m was.
<1> DEFINE was(m, k) == IF m = l THEN k + 1 ELSE k
<1>8. ASSUME NEW m \in Priorities, NEW k \in 1 .. sz2[m]
      PROVE  /\ was(m, k) \in 1 .. sz[m] /\ c2[m][k] = ch[m][was(m, k)]
             /\ (was(m, k) = sz[m]) <=> (k = sz2[m])
             /\ m = l => was(m, k) # 1
             /\ k # sz2[m] => k + 1 \in 1 .. sz2[m] /\ was(m, k + 1) = was(m, k) + 1
  <2>1. sz[m] \in Nat /\ sz[l] \in Nat
    BY <1>1, <1>3
  <2>2. c2[m][k] = ch[m][was(m, k)]
    BY <1>form
  <2>3. CASE m = l
    <3>1. sz2[m] = sz[m] - 1 /\ was(m, k) = k + 1 /\ was(m, k + 1) = (k + 1) + 1
      BY <1>7, <2>3
    <3> HIDE DEF was
    <3> QED BY ONLY <2>1, <2>2, <3>1, k \in 1 .. sz2[m]
  <2>4. CASE m # l
    <3>1. sz2[m] = sz[m] /\ was(m, k) = k /\ was(m, k + 1) = k + 1
      BY <1>7, <2>4
    <3> HIDE DEF was
    <3> QED BY ONLY <2>1, <2>2, <2>4, <3>1, k \in 1 .. sz2[m]
  <2> QED BY <2>3, <2>4
<1>9. ASSUME NEW m \in Priorities, NEW k \in 1 .. sz2[m]
      PROVE  /\ c2[m][k] \in Node \ {n} /\ nd[c2[m][k]] # NULL
             /\ nd[c2[m][k]].next = IF k = sz2[m] THEN NULL ELSE c2[m][k + 1]
             /\ priority[nd[c2[m][k]].process] = m
  <2> DEFINE w == was(m, k)
  <2>1. w \in 1 .. sz[m] /\ c2[m][k] = ch[m][w]
    BY <1>8
  <2>2. /\ ch[m][w] \in Node /\ nd[ch[m][w]] # NULL /\ priority[nd[ch[m][w]].process] = m
        /\ nd[ch[m][w]].next = IF w = sz[m] THEN NULL ELSE ch[m][w + 1]
    <3> HIDE DEF w
    <3> QED BY <1>1, <2>1 DEF Linked
  <2>3. ch[m][w] # n
    <3>1. m = l => w # 1
      BY <1>8
    <3> HIDE DEF w
    <3> QED BY <1>1, <1>2, <1>3, <2>1, <3>1 DEF Apart
  <2>4. CASE k = sz2[m]
    <3>1. w = sz[m]
      BY <1>8, <2>4
    <3> HIDE DEF w
    <3> QED BY <2>1, <2>2, <2>3, <2>4, <3>1
  <2>5. CASE k # sz2[m]
    <3>1. w # sz[m] /\ k + 1 \in 1 .. sz2[m] /\ was(m, k + 1) = w + 1
      BY <1>8, <2>5
    <3>2. c2[m][k + 1] = ch[m][w + 1]
      BY <1>8, <3>1
    <3> HIDE DEF w
    <3> QED BY <2>1, <2>2, <2>3, <2>5, <3>1, <3>2
  <2> QED BY <2>4, <2>5
<1>10. Linked(c2, fr2, re2, sz2, nd2)
  <2> SUFFICES ASSUME NEW m \in Priorities
               PROVE  /\ IF sz2[m] = 0 THEN fr2[m] = NULL /\ re2[m] = NULL
                                       ELSE fr2[m] = c2[m][1] /\ re2[m] = c2[m][sz2[m]]
                      /\ \A k \in 1 .. sz2[m] :
                            /\ c2[m][k] \in Node /\ nd2[c2[m][k]] # NULL
                            /\ nd2[c2[m][k]].next = IF k = sz2[m] THEN NULL ELSE c2[m][k + 1]
                            /\ priority[nd2[c2[m][k]].process] = m
    BY DEF Linked
  <2>1. \A k \in 1 .. sz2[m] :
           /\ c2[m][k] \in Node /\ nd2[c2[m][k]] # NULL
           /\ nd2[c2[m][k]].next = IF k = sz2[m] THEN NULL ELSE c2[m][k + 1]
           /\ priority[nd2[c2[m][k]].process] = m
    BY <1>7, <1>9
  <2>2. /\ sz[m] \in Nat
        /\ IF sz[m] = 0 THEN fr[m] = NULL /\ re[m] = NULL
                        ELSE fr[m] = ch[m][1] /\ re[m] = ch[m][sz[m]]
    BY <1>1 DEF Linked
  <2>3. CASE sz2[m] = 0
    <3>1. CASE m = l
      <4>1. sz[l] = 1
        BY <1>3, <1>7, <2>3, <3>1
      <4> QED BY <1>4, <1>7, <2>1, <2>3, <3>1, <4>1
    <3>2. CASE m # l
      BY <1>7, <2>1, <2>2, <2>3, <3>2
    <3> QED BY <3>1, <3>2
  <2>4. CASE sz2[m] # 0
    <3>1. sz2[m] \in Nat /\ 1 \in 1 .. sz2[m] /\ sz2[m] \in 1 .. sz2[m]
      BY <1>6, <2>4
    <3>2. c2[m][1] = ch[m][was(m, 1)] /\ c2[m][sz2[m]] = ch[m][sz[m]]
      BY <1>8, <3>1
    <3>3. CASE m = l
      <4>1. sz[l] # 1 /\ was(m, 1) = 2
        BY <1>7, <2>4, <3>3
      <4> QED BY <1>4, <1>7, <2>1, <2>2, <2>4, <3>2, <3>3, <4>1
    <3>4. CASE m # l
      <4>1. was(m, 1) = 1
        BY <3>4
      <4> QED BY <1>7, <2>1, <2>2, <2>4, <3>2, <3>4, <4>1
    <3> QED BY <3>3, <3>4
  <2> QED BY <2>3, <2>4
<1>11. Apart(c2, sz2)
  <2> SUFFICES ASSUME NEW m \in Priorities, NEW i \in Priorities,
                      NEW j \in 1 .. sz2[m], NEW k \in 1 .. sz2[i], c2[m][j] = c2[i][k]
               PROVE  m = i /\ j = k
    BY DEF Apart
  <2>1. /\ was(m, j) \in 1 .. sz[m] /\ was(i, k) \in 1 .. sz[i]
        /\ ch[m][was(m, j)] = ch[i][was(i, k)]
    BY <1>8
  <2>2. m = i /\ was(m, j) = was(i, k)
    <3> HIDE DEF was
    <3> QED BY <1>1, <2>1 DEF Apart
  <2> QED BY <2>2
<1>12. Covered(c2, sz2, nd2)
  <2> SUFFICES ASSUME NEW a \in Node, nd2[a] # NULL
               PROVE  \E m \in Priorities : \E k \in 1 .. sz2[m] : a = c2[m][k]
    BY DEF Covered
  <2>1. a # n /\ nd[a] # NULL
    BY <1>7
  <2>2. PICK m \in Priorities : \E k \in 1 .. sz[m] : a = ch[m][k]
    BY <1>1, <2>1 DEF Covered
  <2>3. PICK k \in 1 .. sz[m] : a = ch[m][k]
    BY <2>2
  <2>4. sz[m] \in Nat
    BY <1>1
  <2>5. CASE m # l
    BY <1>7, <1>form, <2>3, <2>5
  <2>6. CASE m = l
    <3>1. k # 1
      BY <1>3, <2>1, <2>3, <2>6
    <3>2. k - 1 \in 1 .. sz2[m] /\ (k - 1) + 1 = k
      BY <1>7, <2>4, <2>6, <3>1
    <3>3. c2[m][k - 1] = ch[m][k]
      BY <1>form, <2>6, <3>2
    <3> QED BY <2>3, <3>2, <3>3
  <2> QED BY <2>5, <2>6
<1>13. Allocated(nd2) = Allocated(nd) \ {n} /\ n \in Allocated(nd)
  BY <1>4, <1>7 DEF Allocated
<1>14. Counted(sz2, nd2)
  <2>1. /\ IsFiniteSet(Allocated(nd))
        /\ Cardinality(Allocated(nd)) = sz["high"] + sz["medium"] + sz["low"]
    BY DEF Lists, Counted
  <2>2. /\ IsFiniteSet(Allocated(nd2))
        /\ Cardinality(Allocated(nd2)) = Cardinality(Allocated(nd)) - 1
    BY <1>13, <2>1, FS_RemoveElement
  <2>3. sz2["high"] + sz2["medium"] + sz2["low"] = sz["high"] + sz["medium"] + sz["low"] - 1
    BY <1>1, <1>2, <1>7 DEF Priorities
  <2>4. sz["high"] \in Nat /\ sz["medium"] \in Nat /\ sz["low"] \in Nat
    BY <1>1 DEF Priorities
  <2> QED BY <2>1, <2>2, <2>3, <2>4 DEF Counted
<1>15. Chains(fr2, sz2, nd2) = c2
  BY <1>6, <1>form, <1>10, ChainsIs
<1>16. Listed(Chains(fr2, sz2, nd2), fr2, re2, sz2, nd2)
  BY <1>10, <1>11, <1>12, <1>15 DEF Listed
<1>17. Lists(fr2, re2, sz2, nd2)
  BY <1>6, <1>14, <1>16 DEF Lists
<1> QED BY <1>3, <1>4, <1>7, <1>13, <1>15, <1>17 DEF ch, c2, n

-----------------------------------------------------------------------------
(* What the lists hold *)

\* The processes of one list, from front to rear.
Line(fr, sz, nd, l) == [k \in 1 .. sz[l] |-> nd[Chains(fr, sz, nd)[l][k]].process]

LEMMA LineLaws ==
    ASSUME NEW fr, NEW re, NEW sz, NEW nd, Lists(fr, re, sz, nd), NEW l \in Priorities
    PROVE  /\ Line(fr, sz, nd, l) \in Seq(Process) /\ Len(Line(fr, sz, nd, l)) = sz[l]
           /\ sz[l] \in Nat
           /\ \A k \in 1 .. sz[l] :
                 /\ Chains(fr, sz, nd)[l][k] \in Allocated(nd)
                 /\ Line(fr, sz, nd, l)[k] = nd[Chains(fr, sz, nd)[l][k]].process
                 /\ Line(fr, sz, nd, l)[k] \in Process
                 /\ priority[Line(fr, sz, nd, l)[k]] = l
           /\ \A n \in Allocated(nd) :
                 /\ nd[n].process \in Process
                 /\ priority[nd[n].process] = l
                       => \E k \in 1 .. sz[l] : n = Chains(fr, sz, nd)[l][k]
<1> DEFINE ch == Chains(fr, sz, nd)
           line == Line(fr, sz, nd, l)
<1>1. /\ sz[l] \in Nat /\ nd \in [Node -> Nodes \union {NULL}]
      /\ Linked(ch, fr, re, sz, nd) /\ Covered(ch, sz, nd)
  BY DEF Lists, Listed
<1>2. \A n \in Allocated(nd) : n \in Node /\ nd[n] # NULL /\ nd[n].process \in Process
  <2> SUFFICES ASSUME NEW n \in Node, nd[n] # NULL PROVE nd[n].process \in Process
    BY DEF Allocated
  <2>1. nd[n] \in Nodes
    BY <1>1
  <2> QED BY <2>1 DEF Nodes
<1> HIDE DEF ch
<1>3. \A m \in Priorities : \A k \in 1 .. sz[m] :
         ch[m][k] \in Allocated(nd) /\ priority[nd[ch[m][k]].process] = m
  BY <1>1 DEF Linked, Allocated
<1>4. line = [k \in 1 .. sz[l] |-> nd[ch[l][k]].process]
  BY DEF Line, ch
<1>5. \A k \in 1 .. sz[l] : line[k] = nd[ch[l][k]].process /\ line[k] \in Process
  BY <1>2, <1>3, <1>4
<1>6. line \in [1 .. sz[l] -> Process]
  <2>1. \A k \in 1 .. sz[l] : nd[ch[l][k]].process \in Process
    BY <1>2, <1>3
  <2> QED BY <1>4, <2>1
<1> HIDE DEF line
<1>7. line \in Seq(Process) /\ Len(line) = sz[l]
  BY <1>1, <1>6
<1>8. \A n \in Allocated(nd) :
         priority[nd[n].process] = l => \E k \in 1 .. sz[l] : n = ch[l][k]
  <2> SUFFICES ASSUME NEW n \in Allocated(nd), priority[nd[n].process] = l
               PROVE  \E k \in 1 .. sz[l] : n = ch[l][k]
    OBVIOUS
  <2>1. PICK m \in Priorities : \E k \in 1 .. sz[m] : n = ch[m][k]
    BY <1>1, <1>2 DEF Covered
  <2>2. m = l
    BY <1>3, <2>1
  <2> QED BY <2>1, <2>2
<1> QED BY <1>1, <1>2, <1>3, <1>5, <1>7, <1>8 DEF ch, line

LEMMA EnterLine ==
    ASSUME NEW l, NEW p, NEW n, NEW fr, NEW re, NEW sz, NEW nd,
           NEW fr2, NEW re2, NEW sz2, NEW nd2,
           Lists(fr, re, sz, nd),
           Enters(l, p, n, fr, re, sz, nd, fr2, re2, sz2, nd2)
    PROVE  /\ Line(fr2, sz2, nd2, l) = Append(Line(fr, sz, nd, l), p)
           /\ \A m \in Priorities \ {l} : Line(fr2, sz2, nd2, m) = Line(fr, sz, nd, m)
<1> DEFINE ch == Chains(fr, sz, nd)
           c2 == Chains(fr2, sz2, nd2)
<1>1. /\ l \in Priorities /\ nd[n] = NULL /\ p \in Process /\ sz[l] \in Nat
      /\ sz2[l] = sz[l] + 1
      /\ \A m \in Priorities \ {l} : sz2[m] = sz[m]
      /\ nd2[n].process = p
      /\ \A m \in Node \ {n} : nd2[m].process = nd[m].process
  BY EnterValues
<1>2. c2 = Longer(ch, l, n, sz)
  BY EnterLists
<1>3. \A m \in Priorities : \A k \in 1 .. sz2[m] :
         c2[m][k] = IF m = l /\ k = sz[m] + 1 THEN n ELSE ch[m][k]
  <2>1. \A m \in Priorities : sz2[m] = IF m = l THEN sz[m] + 1 ELSE sz[m]
    BY <1>1
  <2> HIDE DEF ch, c2
  <2> QED BY <1>2, <2>1 DEF Longer
<1>4. \A m \in Priorities : \A k \in 1 .. sz[m] : ch[m][k] \in Node \ {n}
  <2> HIDE DEF ch
  <2>1. \A m \in Priorities : \A k \in 1 .. sz[m] : ch[m][k] \in Allocated(nd)
    BY LineLaws DEF ch
  <2> QED BY <1>1, <2>1 DEF Allocated
<1> HIDE DEF ch, c2
<1>5. ASSUME NEW m \in Priorities \ {l}
      PROVE  Line(fr2, sz2, nd2, m) = Line(fr, sz, nd, m)
  <2>1. \A k \in 1 .. sz[m] : nd2[c2[m][k]].process = nd[ch[m][k]].process
    BY <1>1, <1>3, <1>4
  <2> QED BY <1>1, <2>1 DEF Line, ch, c2
<1>6. Line(fr2, sz2, nd2, l) = Append(Line(fr, sz, nd, l), p)
  <2> DEFINE s == Line(fr, sz, nd, l)
             s2 == Line(fr2, sz2, nd2, l)
  <2>1. s \in Seq(Process) /\ Len(s) = sz[l]
    BY <1>1, LineLaws
  <2>2. /\ s = [k \in 1 .. sz[l] |-> nd[ch[l][k]].process]
        /\ s2 = [k \in 1 .. sz[l] + 1 |-> nd2[c2[l][k]].process]
    BY <1>1 DEF Line, ch, c2
  <2>3. ASSUME NEW k \in 1 .. sz[l] + 1
        PROVE  s2[k] = IF k = sz[l] + 1 THEN p ELSE s[k]
    <3> HIDE DEF s, s2
    <3>1. s2[k] = nd2[c2[l][k]].process
      BY <2>2
    <3>2. CASE k = sz[l] + 1
      BY <1>1, <1>3, <3>1, <3>2
    <3>3. CASE k # sz[l] + 1
      <4>1. k \in 1 .. sz[l] /\ k \in 1 .. sz2[l]
        BY <1>1, <3>3
      <4>2. c2[l][k] = ch[l][k] /\ ch[l][k] \in Node \ {n}
        BY <1>1, <1>3, <1>4, <3>3, <4>1
      <4>3. s[k] = nd[ch[l][k]].process
        BY <2>2, <4>1
      <4> QED BY <1>1, <3>1, <3>3, <4>2, <4>3
    <3> QED BY <3>2, <3>3
  <2>4. s2 \in Seq(Process) /\ Len(s2) = sz[l] + 1
    <3>1. Lists(fr2, re2, sz2, nd2)
      BY EnterLists
    <3> QED BY <1>1, <3>1, LineLaws
  <2> HIDE DEF s, s2
  <2>5. /\ Append(s, p) \in Seq(Process) /\ Len(Append(s, p)) = sz[l] + 1
        /\ \A k \in 1 .. sz[l] : Append(s, p)[k] = s[k]
        /\ Append(s, p)[sz[l] + 1] = p
    BY <1>1, <2>1, AppendProperties
  <2>6. \A k \in 1 .. Len(s2) : s2[k] = Append(s, p)[k]
    BY <1>1, <2>3, <2>4, <2>5
  <2>7. s2 = Append(s, p)
    BY <2>4, <2>5, <2>6, SeqEqual
  <2> QED BY <2>7 DEF s, s2
<1> QED BY <1>5, <1>6

LEMMA LeaveLine ==
    ASSUME NEW l, NEW fr, NEW re, NEW sz, NEW nd, NEW fr2, NEW re2, NEW sz2, NEW nd2,
           Lists(fr, re, sz, nd), Leaves(l, fr, re, sz, nd, fr2, re2, sz2, nd2)
    PROVE  /\ Line(fr, sz, nd, l) # <<>> /\ Line(fr2, sz2, nd2, l) = Tail(Line(fr, sz, nd, l))
           /\ \A m \in Priorities \ {l} : Line(fr2, sz2, nd2, m) = Line(fr, sz, nd, m)
<1> DEFINE ch == Chains(fr, sz, nd)
           c2 == Chains(fr2, sz2, nd2)
           n == fr[l]
<1>1. /\ l \in Priorities /\ sz[l] \in Nat \ {0} /\ sz2 = [sz EXCEPT ![l] = sz[l] - 1]
      /\ sz \in [Priorities -> Nat]
  <2>1. l \in Priorities /\ sz2 = [sz EXCEPT ![l] = sz[l] - 1]
    BY DEF Leaves
  <2>2. sz \in [Priorities -> Nat]
    BY DEF Lists
  <2>3. sz[l] # 0
    BY LeaveLists
  <2> QED BY <2>1, <2>2, <2>3
<1>2. sz2[l] = sz[l] - 1 /\ \A m \in Priorities \ {l} : sz2[m] = sz[m]
  BY <1>1
<1>3. c2 = Shorter(ch, l, sz)
  BY LeaveLists
<1>4. \A m \in Priorities : \A k \in 1 .. sz2[m] :
         c2[m][k] = IF m = l THEN ch[m][k + 1] ELSE ch[m][k]
  <2>1. \A m \in Priorities : sz2[m] = IF m = l THEN sz[m] - 1 ELSE sz[m]
    BY <1>2
  <2> HIDE DEF ch, c2
  <2> QED BY <1>3, <2>1 DEF Shorter
<1>5. \A m \in Priorities : \A k \in 1 .. sz2[m] :
         c2[m][k] \in Allocated(nd2) /\ c2[m][k] \in Node \ {n} /\ nd2[c2[m][k]] = nd[c2[m][k]]
  <2>1. Lists(fr2, re2, sz2, nd2) /\ Allocated(nd2) = Allocated(nd) \ {n}
        /\ \A m \in Node \ {n} : nd2[m] = nd[m]
    BY LeaveLists
  <2> HIDE DEF c2, n
  <2>2. \A m \in Priorities : \A k \in 1 .. sz2[m] : c2[m][k] \in Allocated(nd2)
    BY <2>1, LineLaws DEF c2
  <2> QED BY <2>1, <2>2 DEF Allocated
<1> HIDE DEF ch, c2, n
<1>6. ASSUME NEW m \in Priorities \ {l}
      PROVE  Line(fr2, sz2, nd2, m) = Line(fr, sz, nd, m)
  <2>1. \A k \in 1 .. sz[m] : nd2[c2[m][k]].process = nd[ch[m][k]].process
    BY <1>2, <1>4, <1>5
  <2> QED BY <1>2, <2>1 DEF Line, ch, c2
<1>7. Line(fr, sz, nd, l) # <<>> /\ Line(fr2, sz2, nd2, l) = Tail(Line(fr, sz, nd, l))
  <2> DEFINE s == Line(fr, sz, nd, l)
             s2 == Line(fr2, sz2, nd2, l)
  <2>1. s \in Seq(Process) /\ Len(s) = sz[l]
    BY <1>1, LineLaws
  <2>2. /\ s = [k \in 1 .. sz[l] |-> nd[ch[l][k]].process]
        /\ s2 = [k \in 1 .. sz[l] - 1 |-> nd2[c2[l][k]].process]
    BY <1>2 DEF Line, ch, c2
  <2>3. ASSUME NEW k \in 1 .. sz[l] - 1
        PROVE  s2[k] = s[k + 1]
    <3> HIDE DEF s, s2
    <3>1. k \in 1 .. sz2[l] /\ k + 1 \in 1 .. sz[l]
      BY <1>1, <1>2
    <3>2. s2[k] = nd2[c2[l][k]].process /\ s[k + 1] = nd[ch[l][k + 1]].process
      BY <2>2, <3>1
    <3>3. c2[l][k] = ch[l][k + 1] /\ nd2[c2[l][k]] = nd[c2[l][k]]
      BY <1>1, <1>4, <1>5, <3>1
    <3> QED BY <3>2, <3>3
  <2>4. s2 \in Seq(Process) /\ Len(s2) = sz[l] - 1
    <3>1. Lists(fr2, re2, sz2, nd2)
      BY LeaveLists
    <3>2. l \in Priorities
      BY <1>1
    <3>3. s2 \in Seq(Process) /\ Len(s2) = sz2[l]
      BY ONLY <3>1, <3>2, LineLaws
    <3> QED BY <1>2, <3>3
  <2> HIDE DEF s, s2
  <2>5. s # <<>>
    BY <1>1, <2>1
  <2>6. /\ Tail(s) \in Seq(Process) /\ Len(Tail(s)) = sz[l] - 1
        /\ \A k \in 1 .. Len(Tail(s)) : Tail(s)[k] = s[k + 1]
    BY <2>1, <2>5, HeadTailProperties
  <2>7. \A k \in 1 .. Len(s2) : s2[k] = Tail(s)[k]
    BY <2>3, <2>4, <2>6
  <2>8. s2 = Tail(s)
    BY <2>4, <2>6, <2>7, SeqEqual
  <2> QED BY <2>5, <2>8 DEF s, s2
<1> QED BY <1>6, <1>7

-----------------------------------------------------------------------------
(* The lists of a state *)

LEMMA ContentsAre ==
    ASSUME NEW l \in Priorities
    PROVE  Contents(l) = Line(front, size, nodes, l)
<1>1. \A k \in 1 .. size[l] : NodeAt(l, k) = Chains(front, size, nodes)[l][k]
  BY DEF NodeAt, Chains, Walk
<1> QED BY <1>1 DEF Contents, Line

\* queue_enqueue and queue_dequeue are the two changes of the lists above.
LEMMA EnqueueEnters ==
    ASSUME NEW l \in Priorities, NEW p \in Process, priority[p] = l, queue_enqueue(l, p)
    PROVE  \E n \in Node : Enters(l, p, n, front, rear, size, nodes, front', rear', size', nodes')
<1>1. PICK n \in Node :
        /\ nodes[n] = NULL
        /\ LET node == [process |-> p, next |-> NULL]
           IN  IF rear[l] = NULL
               THEN /\ nodes' = [nodes EXCEPT ![n] = node]
                    /\ front' = [front EXCEPT ![l] = n]
               ELSE /\ nodes' = [nodes EXCEPT ![n] = node, ![rear[l]].next = n]
                    /\ UNCHANGED front
        /\ rear' = [rear EXCEPT ![l] = n]
        /\ size' = [size EXCEPT ![l] = @ + 1]
  BY DEF queue_enqueue
<1> QED BY <1>1 DEF Enters

LEMMA DequeueLeaves ==
    ASSUME NEW l \in Priorities, front[l] # NULL, queue_dequeue(l)
    PROVE  Leaves(l, front, rear, size, nodes, front', rear', size', nodes')
BY DEF queue_dequeue, Leaves

\* What QueuedIn and the nodes say is the same.
LEMMA QueuedAre ==
    ASSUME Lists(front, rear, size, nodes)
    PROVE  \A p : IsQueued(p) <=> \E l \in Priorities : p \in QueuedIn(l)
<1>1. ASSUME NEW l \in Priorities
      PROVE  \A p : p \in QueuedIn(l) <=>
                      \E k \in 1 .. size[l] : p = Line(front, size, nodes, l)[k]
  <2>1. Contents(l) = Line(front, size, nodes, l)
    BY ContentsAre
  <2> QED BY <2>1 DEF QueuedIn
<1>2. ASSUME NEW p, IsQueued(p)
      PROVE  \E l \in Priorities : p \in QueuedIn(l)
  <2>1. PICK n \in Allocated(nodes) : nodes[n].process = p
    BY <1>2 DEF IsQueued
  <2>2. p \in Process
    <3>1. "high" \in Priorities
      BY DEF Priorities
    <3> QED BY <2>1, <3>1, LineLaws
  <2>3. priority[p] \in Priorities
    BY <2>2, DispatcherAssumption
  <2>4. PICK k \in 1 .. size[priority[p]] : n = Chains(front, size, nodes)[priority[p]][k]
    BY <2>1, <2>3, LineLaws
  <2>5. p = Line(front, size, nodes, priority[p])[k]
    BY <2>1, <2>3, <2>4, LineLaws
  <2> QED BY <1>1, <2>3, <2>5
<1>3. ASSUME NEW l \in Priorities, NEW p, p \in QueuedIn(l)
      PROVE  IsQueued(p)
  <2>1. PICK k \in 1 .. size[l] : p = Line(front, size, nodes, l)[k]
    BY <1>1, <1>3
  <2> QED BY <2>1, LineLaws DEF IsQueued
<1> QED BY <1>2, <1>3

LEMMA Ranks ==
    /\ AtRank(1) = "high" /\ AtRank(2) = "medium" /\ AtRank(3) = "low"
    /\ \A n \in 1 .. 3 : AtRank(n) \in Priorities /\ Rank(AtRank(n)) = n
    /\ \A l \in Priorities : Rank(l) \in 1 .. 3 /\ AtRank(Rank(l)) = l
<1>1. /\ Rank("high") = 1 /\ Rank("medium") = 2 /\ Rank("low") = 3
      /\ Priorities = {"high", "medium", "low"}
  BY DEF Rank, Priorities
<1>2. AtRank(1) = "high" /\ AtRank(2) = "medium" /\ AtRank(3) = "low"
  BY <1>1 DEF AtRank
<1> QED BY <1>1, <1>2

-----------------------------------------------------------------------------
(* Steps that leave the lists and the lock alone *)

\* Outside the lock nothing of what the lists, the lock and the cascade of the
\* others say changes.
LEMMA Elsewhere ==
    ASSUME IInv, NEW t \in Thread,
           UNCHANGED <<listVars, scheduler_lock, rank, found>>,
           \A u \in Thread \ {t} : pc'[u] = pc[u] /\ mine'[u] = mine[u],
           pc[t] \notin {"check", "take", "unlock"}, pc'[t] \notin {"check", "take", "unlock"}
    PROVE  /\ Lists(front, rear, size, nodes)'
           /\ LockHeld' /\ Cascade' /\ HighestFirst'
<1>1. /\ front' = front /\ rear' = rear /\ size' = size /\ nodes' = nodes
      /\ scheduler_lock' = scheduler_lock /\ rank' = rank /\ found' = found
  BY DEF listVars
<1>2. Lists(front, rear, size, nodes)'
  BY <1>1 DEF IInv
<1>3. LockHeld'
  BY <1>1 DEF IInv, LockHeld
<1>4. Cascade'
  BY <1>1 DEF IInv, Cascade, IsQueued
<1>5. HighestFirst'
  BY <1>1 DEF IInv, HighestFirst
<1> QED BY <1>2, <1>3, <1>4, <1>5

LEMMA SubmitKeeps ==
    ASSUME IInv, NEW t \in Thread, NEW p \in Process, Submit(t, p)
    PROVE  IInv'
<1>1. /\ pc[t] = "idle" /\ AtLarge(p) /\ mine' = [mine EXCEPT ![t] = p]
      /\ pc' = [pc EXCEPT ![t] = "ready"]
      /\ UNCHANGED <<listVars, state, scheduler_lock, rank, found>>
  BY DEF Submit, Go
<1>2. /\ pc \in [Thread -> Labels] /\ mine \in [Thread -> Process \union {NULL}] /\ TypeOK
      /\ Lists(front, rear, size, nodes) /\ Waiting(nodes) /\ InHand
  BY DEF IInv, TypeOK
<1>3. /\ pc'[t] = "ready" /\ mine'[t] = p
      /\ \A u \in Thread \ {t} : pc'[u] = pc[u] /\ mine'[u] = mine[u]
  BY <1>1, <1>2
<1>4. Lists(front, rear, size, nodes)' /\ LockHeld' /\ Cascade' /\ HighestFirst'
  BY <1>1, <1>3, Elsewhere
<1>5. TypeOK'
  BY <1>1, <1>2 DEF TypeOK, Labels, listVars
<1>6. nodes' = nodes /\ state' = state /\ ~IsQueued(p) /\ \A u \in Thread : mine[u] # p
  BY <1>1, <1>2, QueuedAre DEF listVars, AtLarge
<1>7. Waiting(nodes)'
  BY <1>2, <1>3, <1>6 DEF Waiting, IsQueued
<1>8. InHand'
  BY <1>2, <1>3, <1>6 DEF InHand
<1> QED BY <1>4, <1>5, <1>7, <1>8 DEF IInv

\* A process in hand changes state: no queue has it, and no other hand.
LEMMA StateKeeps ==
    ASSUME IInv, NEW t \in Thread,
           NEW value \in {"READY", "RUNNING"}, NEW label \in Labels,
           pc[t] \in {"ready", "switch", "running"},
           label \in {"ready", "push", "running"}, label = "push" => value = "READY",
           state' = [state EXCEPT ![mine[t]] = value], pc' = [pc EXCEPT ![t] = label],
           UNCHANGED <<listVars, scheduler_lock, mine, rank, found>>
    PROVE  IInv'
<1>2. /\ pc \in [Thread -> Labels] /\ mine \in [Thread -> Process \union {NULL}] /\ TypeOK
      /\ Lists(front, rear, size, nodes) /\ Waiting(nodes) /\ InHand
      /\ state \in [Process -> {"NEW", "READY", "RUNNING", "TERMINATED"}]
  BY DEF IInv, TypeOK
<1>3. /\ pc'[t] = label /\ mine' = mine /\ nodes' = nodes /\ mine[t] \in Process
      /\ \A u \in Thread \ {t} : pc'[u] = pc[u]
      /\ state'[mine[t]] = value /\ \A p \in Process \ {mine[t]} : state'[p] = state[p]
  BY <1>2 DEF InHand, listVars
<1>4. Lists(front, rear, size, nodes)' /\ LockHeld' /\ Cascade' /\ HighestFirst'
  BY <1>3, Elsewhere
<1>5. TypeOK'
  BY <1>2, <1>3 DEF TypeOK, listVars
<1>6. Waiting(nodes)'
  <2>1. \A n \in Allocated(nodes) : nodes[n].process \in Process
    <3>1. "high" \in Priorities
      BY DEF Priorities
    <3> QED BY <1>2, <3>1, LineLaws
  <2>2. \A n \in Allocated(nodes) : nodes[n].process \in Process \ {mine[t]}
    BY <1>2, <2>1 DEF Waiting
  <2> QED BY <1>2, <1>3, <2>2 DEF Waiting
<1>7. InHand'
  <2>1. ASSUME NEW u \in Thread, u # t, mine[u] # NULL
        PROVE  mine[u] \in Process \ {mine[t]}
    <3>1. mine[u] # mine[t]
      BY <1>2, <1>3, <2>1 DEF InHand
    <3> QED BY <1>2, <2>1, <3>1
  <2>2. \A u \in Thread :
          /\ pc'[u] \in {"ready", "push", "switch", "running"} => mine'[u] \in Process
          /\ pc'[u] \in {"idle", "lock", "check", "take"} => mine'[u] = NULL
    BY <1>2, <1>3 DEF InHand
  <2>3. ASSUME NEW u \in Thread, pc'[u] = "push"
        PROVE  state'[mine'[u]] = "READY"
    <3>1. CASE u = t
      BY <1>3, <2>3, <3>1
    <3>2. CASE u # t
      <4>1. pc[u] = "push" /\ state[mine[u]] = "READY" /\ mine[u] \in Process
        BY <1>2, <1>3, <2>3, <3>2 DEF InHand
      <4>2. mine[u] # NULL
        BY <4>1, DispatcherAssumption
      <4> QED BY <1>3, <2>1, <3>2, <4>1, <4>2
    <3> QED BY <3>1, <3>2
  <2>4. \A u, v \in Thread : mine'[u] = mine'[v] /\ mine'[u] # NULL => u = v
    BY <1>2, <1>3 DEF InHand
  <2> QED BY <2>2, <2>3, <2>4 DEF InHand
<1> QED BY <1>4, <1>5, <1>6, <1>7 DEF IInv

LEMMA SetReadyKeeps ==
    ASSUME IInv, NEW t \in Thread, SetReady(t)
    PROVE  IInv'
<1>1. "push" \in Labels /\ "READY" \in {"READY", "RUNNING"}
  BY DEF Labels
<1> QED BY <1>1, StateKeeps DEF SetReady, Go

LEMMA SwitchInKeeps ==
    ASSUME IInv, NEW t \in Thread, SwitchIn(t)
    PROVE  IInv'
<1>1. "running" \in Labels /\ "RUNNING" \in {"READY", "RUNNING"}
  BY DEF Labels
<1> QED BY <1>1, StateKeeps DEF SwitchIn, Go

LEMMA SwitchOutKeeps ==
    ASSUME IInv, NEW t \in Thread, SwitchOut(t)
    PROVE  IInv'
<1>1. "ready" \in Labels /\ "READY" \in {"READY", "RUNNING"}
  BY DEF Labels
<1> QED BY <1>1, StateKeeps DEF SwitchOut, Go

LEMMA GetNextKeeps ==
    ASSUME IInv, NEW t \in Thread, GetNext(t)
    PROVE  IInv'
<1>1. /\ pc[t] = "idle" /\ pc' = [pc EXCEPT ![t] = "lock"]
      /\ UNCHANGED <<listVars, state, scheduler_lock, mine, rank, found>>
  BY DEF GetNext, Go
<1>2. pc \in [Thread -> Labels] /\ TypeOK /\ Waiting(nodes) /\ InHand
  BY DEF IInv, TypeOK
<1>3. /\ pc'[t] = "lock" /\ mine' = mine /\ nodes' = nodes /\ state' = state
      /\ \A u \in Thread \ {t} : pc'[u] = pc[u]
  BY <1>1, <1>2 DEF listVars
<1>4. Lists(front, rear, size, nodes)' /\ LockHeld' /\ Cascade' /\ HighestFirst'
  BY <1>1, <1>3, Elsewhere
<1>5. TypeOK'
  BY <1>1, <1>2 DEF TypeOK, Labels, listVars
<1>6. Waiting(nodes)'
  BY <1>2, <1>3 DEF Waiting
<1>7. InHand'
  BY <1>1, <1>2, <1>3 DEF InHand
<1> QED BY <1>4, <1>5, <1>6, <1>7 DEF IInv

LEMMA FinishKeeps ==
    ASSUME IInv, NEW t \in Thread, Finish(t)
    PROVE  IInv'
<1>1. /\ pc[t] = "running" /\ pc' = [pc EXCEPT ![t] = "idle"]
      /\ state' = [state EXCEPT ![mine[t]] = "TERMINATED"] /\ mine' = [mine EXCEPT ![t] = NULL]
      /\ UNCHANGED <<listVars, scheduler_lock, rank, found>>
  BY DEF Finish, Go
<1>2. /\ pc \in [Thread -> Labels] /\ mine \in [Thread -> Process \union {NULL}] /\ TypeOK
      /\ Lists(front, rear, size, nodes) /\ Waiting(nodes) /\ InHand
      /\ state \in [Process -> {"NEW", "READY", "RUNNING", "TERMINATED"}]
      /\ NULL \notin Process
  BY DispatcherAssumption DEF IInv, TypeOK
<1>3. /\ pc'[t] = "idle" /\ mine'[t] = NULL /\ nodes' = nodes /\ mine[t] \in Process
      /\ \A u \in Thread \ {t} : pc'[u] = pc[u] /\ mine'[u] = mine[u]
      /\ \A p \in Process \ {mine[t]} : state'[p] = state[p]
  BY <1>1, <1>2 DEF InHand, listVars
<1>4. Lists(front, rear, size, nodes)' /\ LockHeld' /\ Cascade' /\ HighestFirst'
  BY <1>1, <1>3, Elsewhere
<1>5. TypeOK'
  <2>1. state' \in [Process -> {"NEW", "READY", "RUNNING", "TERMINATED"}]
    BY <1>1, <1>2, <1>3
  <2>2. mine' \in [Thread -> Process \union {NULL}] /\ pc' \in [Thread -> Labels]
    BY <1>1, <1>2 DEF Labels
  <2> QED BY <1>1, <1>2, <2>1, <2>2 DEF TypeOK, listVars
<1>6. Waiting(nodes)'
  <2>1. \A n \in Allocated(nodes) : nodes[n].process \in Process
    <3>1. "high" \in Priorities
      BY DEF Priorities
    <3> QED BY <1>2, <3>1, LineLaws
  <2>2. \A n \in Allocated(nodes) :
           nodes[n].process \in Process \ {mine[t]} /\ nodes[n].process # NULL
    BY <1>2, <2>1 DEF Waiting
  <2> QED BY <1>2, <1>3, <2>2 DEF Waiting
<1>7. InHand'
  <2>1. \A u \in Thread \ {t} : mine[u] \in Process => mine[u] # mine[t]
    BY <1>2, <1>3 DEF InHand
  <2> QED BY <1>2, <1>3, <2>1 DEF InHand
<1> QED BY <1>4, <1>5, <1>6, <1>7 DEF IInv

-----------------------------------------------------------------------------
(* The step that puts in *)

LEMMA PushKeeps ==
    ASSUME IInv, NEW t \in Thread, Push(t)
    PROVE  IInv'
<1> DEFINE p == mine[t]
           l == priority[p]
           ch == Chains(front, size, nodes)
<1>1. /\ pc[t] = "push" /\ queue_enqueue(l, p)
      /\ mine' = [mine EXCEPT ![t] = NULL] /\ pc' = [pc EXCEPT ![t] = "idle"]
      /\ UNCHANGED <<state, scheduler_lock, rank, found>>
  BY DEF Push, Go
<1>2. /\ pc \in [Thread -> Labels] /\ mine \in [Thread -> Process \union {NULL}] /\ TypeOK
      /\ Lists(front, rear, size, nodes) /\ Waiting(nodes) /\ InHand
      /\ LockHeld /\ Cascade /\ HighestFirst
      /\ NULL \notin Process /\ priority \in [Process -> Priorities]
  BY DispatcherAssumption DEF IInv, TypeOK
<1>3. /\ pc'[t] = "idle" /\ mine'[t] = NULL /\ p \in Process /\ l \in Priorities
      /\ state[p] = "READY"
      /\ \A u \in Thread \ {t} : pc'[u] = pc[u] /\ mine'[u] = mine[u] /\ mine[u] # p
  BY <1>1, <1>2 DEF InHand
<1>4. PICK n \in Node : Enters(l, p, n, front, rear, size, nodes, front', rear', size', nodes')
  <2> HIDE DEF p, l
  <2>1. priority[p] = l
    BY DEF l
  <2> QED BY <1>1, <1>3, <2>1, EnqueueEnters
<1> HIDE DEF p, l, ch
<1>5. Lists(front', rear', size', nodes')
  BY <1>2, <1>4, EnterLists
<1>6. /\ nodes[n] = NULL /\ size[l] \in Nat /\ nodes' \in [Node -> Nodes \union {NULL}]
      /\ front' \in [Priorities -> Node \union {NULL}] /\ rear' \in [Priorities -> Node \union {NULL}]
      /\ size' \in [Priorities -> Nat] /\ size'[l] = size[l] + 1
      /\ \A m \in Priorities \ {l} : size'[m] = size[m]
      /\ nodes'[n] # NULL /\ nodes'[n].process = p
      /\ \A m \in Node \ {n} : /\ (nodes'[m] = NULL) <=> (nodes[m] = NULL)
                               /\ nodes'[m].process = nodes[m].process
  <2>1. ch = Chains(front, size, nodes)
    BY DEF ch
  <2> QED BY ONLY <1>2, <1>4, <2>1, EnterValues
<1>7. /\ Allocated(nodes') = Allocated(nodes) \union {n} /\ n \notin Allocated(nodes)
      /\ \A m \in Allocated(nodes) : nodes'[m].process = nodes[m].process
  BY <1>6 DEF Allocated
<1>8. TypeOK'
  <2>1. mine' \in [Thread -> Process \union {NULL}] /\ pc' \in [Thread -> Labels]
    BY <1>1, <1>2 DEF Labels
  <2> QED BY <1>1, <1>2, <1>6, <2>1 DEF TypeOK
<1>9. Waiting(nodes)'
  <2>1. \A m \in Allocated(nodes) :
           /\ state[nodes[m].process] = "READY" /\ nodes[m].process # p
           /\ \A u \in Thread : mine[u] # nodes[m].process
    BY <1>2 DEF Waiting, p
  <2>2. \A m \in Allocated(nodes) : nodes[m].process \in Process
    BY <1>2, <1>3, LineLaws
  <2>3. \A m \in Allocated(nodes') :
           /\ state'[nodes'[m].process] = "READY"
           /\ \A u \in Thread : mine'[u] # nodes'[m].process
    BY <1>1, <1>2, <1>3, <1>6, <1>7, <2>1, <2>2
  <2>4. \A k, m \in Allocated(nodes') : nodes'[k].process = nodes'[m].process => k = m
    BY <1>2, <1>6, <1>7, <2>1 DEF Waiting
  <2> QED BY <2>3, <2>4 DEF Waiting
<1>10. InHand'
  BY <1>1, <1>2, <1>3 DEF InHand
<1>11. LockHeld'
  BY <1>1, <1>2, <1>3 DEF LockHeld
<1>12. Cascade'
  <2>1. \A q : IsQueued(q) => IsQueued(q)'
    BY <1>7 DEF IsQueued
  <2>2. \A m \in Priorities : size[m] \in Nat /\ (size[m] # 0 => size'[m] # 0)
    BY <1>2, <1>6 DEF TypeOK
  <2>3. \A u \in Thread : AtRank(rank[u]) \in Priorities
    BY <1>2, Ranks DEF TypeOK
  <2>4. ASSUME NEW u \in Thread, pc'[u] \in {"check", "take"}
        PROVE  \A q \in found'[u] : IsQueued(q)' /\ rank'[u] <= Rank(priority[q])
    BY <1>1, <1>2, <1>3, <2>1, <2>4 DEF Cascade
  <2>5. ASSUME NEW u \in Thread, pc'[u] = "take"
        PROVE  size'[AtRank(rank'[u])] # 0
    BY <1>1, <1>2, <1>3, <2>2, <2>3, <2>5 DEF Cascade
  <2> QED BY <2>4, <2>5 DEF Cascade
<1>13. HighestFirst'
  BY <1>1, <1>2, <1>3 DEF HighestFirst
<1> QED BY <1>5, <1>8, <1>9, <1>10, <1>11, <1>12, <1>13 DEF IInv

-----------------------------------------------------------------------------
(* The steps of the cascade *)

\* A step of the thread that takes or has the lock, which leaves the lists alone.
LEMMA ListsStay ==
    ASSUME IInv, NEW t \in Thread, NEW label \in Labels,
           pc' = [pc EXCEPT ![t] = label],
           label \in {"check", "take", "unlock", "idle", "switch"},
           label \in {"check", "take", "idle"} => mine[t] = NULL,
           label = "switch" => mine[t] # NULL,
           UNCHANGED <<listVars, state, mine>>
    PROVE  Lists(front, rear, size, nodes)' /\ Waiting(nodes)' /\ InHand'
<1>1. /\ front' = front /\ rear' = rear /\ size' = size /\ nodes' = nodes
      /\ state' = state /\ mine' = mine
  BY DEF listVars
<1>2. /\ pc \in [Thread -> Labels] /\ mine \in [Thread -> Process \union {NULL}]
      /\ Lists(front, rear, size, nodes) /\ Waiting(nodes) /\ InHand
  BY DEF IInv, TypeOK
<1>3. Lists(front, rear, size, nodes)' /\ Waiting(nodes)'
  BY <1>1, <1>2 DEF Waiting
<1>4. InHand'
  BY <1>1, <1>2 DEF InHand
<1> QED BY <1>3, <1>4

LEMMA LockKeeps ==
    ASSUME IInv, NEW t \in Thread, Lock(t)
    PROVE  IInv'
<1>1. /\ pc[t] = "lock" /\ scheduler_lock = NULL /\ scheduler_lock' = t
      /\ rank' = [rank EXCEPT ![t] = 1]
      /\ found' = [found EXCEPT ![t] = UNION {QueuedIn(l) : l \in Priorities}]
      /\ pc' = [pc EXCEPT ![t] = "check"]
      /\ UNCHANGED <<listVars, state, mine>>
  BY DEF Lock, Go
<1>2. /\ pc \in [Thread -> Labels] /\ TypeOK /\ Lists(front, rear, size, nodes)
      /\ rank \in [Thread -> 1 .. 3] /\ found \in [Thread -> SUBSET Process]
      /\ InHand /\ LockHeld /\ Cascade /\ HighestFirst /\ NULL \notin Thread
      /\ priority \in [Process -> Priorities]
  BY DispatcherAssumption DEF IInv, TypeOK
<1>3. /\ pc'[t] = "check" /\ rank'[t] = 1 /\ mine[t] = NULL /\ "check" \in Labels
      /\ \A u \in Thread \ {t} : pc'[u] = pc[u] /\ rank'[u] = rank[u] /\ found'[u] = found[u]
  BY <1>1, <1>2 DEF InHand, Labels
<1>4. Lists(front, rear, size, nodes)' /\ Waiting(nodes)' /\ InHand'
  BY <1>1, <1>3, ListsStay
<1>5. \A p \in found'[t] : IsQueued(p) /\ p \in Process
  <2>1. found'[t] = UNION {QueuedIn(l) : l \in Priorities}
    BY <1>1, <1>2
  <2>2. \A p \in found'[t] : IsQueued(p)
    BY <1>2, <2>1, QueuedAre
  <2>3. \A n \in Allocated(nodes) : nodes[n].process \in Process
    <3>1. "high" \in Priorities
      BY DEF Priorities
    <3> QED BY <1>2, <3>1, LineLaws
  <2> QED BY <2>2, <2>3 DEF IsQueued
<1>6. TypeOK'
  <2>1. found' \in [Thread -> SUBSET Process]
    BY <1>1, <1>2, <1>3, <1>5
  <2>2. rank' \in [Thread -> 1 .. 3] /\ pc' \in [Thread -> Labels]
    BY <1>1, <1>2, <1>3
  <2> QED BY <1>1, <1>2, <2>1, <2>2 DEF TypeOK, listVars
<1>7. LockHeld'
  BY <1>1, <1>2, <1>3 DEF LockHeld
<1>8. nodes' = nodes /\ size' = size /\ mine' = mine
  BY <1>1 DEF listVars
<1>9. Cascade'
  <2>1. \A p \in found'[t] : rank'[t] <= Rank(priority[p])
    BY <1>2, <1>3, <1>5, Ranks
  <2> QED BY <1>2, <1>3, <1>5, <1>8, <2>1 DEF Cascade, IsQueued
<1>10. HighestFirst'
  BY <1>2, <1>3, <1>8 DEF HighestFirst
<1> QED BY <1>4, <1>6, <1>7, <1>9, <1>10 DEF IInv

LEMMA UnlockKeeps ==
    ASSUME IInv, NEW t \in Thread, Unlock(t)
    PROVE  IInv'
<1> DEFINE label == IF mine[t] = NULL THEN "idle" ELSE "switch"
<1>1. /\ pc[t] = "unlock" /\ scheduler_lock' = NULL
      /\ found' = [found EXCEPT ![t] = {}] /\ pc' = [pc EXCEPT ![t] = label]
      /\ UNCHANGED <<listVars, state, mine, rank>>
  BY DEF Unlock, Go
<1>2. /\ pc \in [Thread -> Labels] /\ TypeOK
      /\ rank \in [Thread -> 1 .. 3] /\ found \in [Thread -> SUBSET Process]
      /\ InHand /\ LockHeld /\ Cascade /\ HighestFirst /\ NULL \notin Thread
  BY DispatcherAssumption DEF IInv, TypeOK
<1>3. /\ pc'[t] = label /\ label \in Labels /\ label \in {"idle", "switch"}
      /\ label = "idle" => mine[t] = NULL
      /\ label = "switch" => mine[t] # NULL
      /\ \A u \in Thread \ {t} : pc'[u] = pc[u] /\ found'[u] = found[u]
  BY <1>1, <1>2 DEF Labels
<1> HIDE DEF label
<1>4. Lists(front, rear, size, nodes)' /\ Waiting(nodes)' /\ InHand'
  BY <1>1, <1>3, ListsStay
<1>5. TypeOK'
  <2>1. found' \in [Thread -> SUBSET Process] /\ pc' \in [Thread -> Labels]
    BY <1>1, <1>2, <1>3
  <2> QED BY <1>1, <1>2, <2>1 DEF TypeOK, listVars
<1>6. scheduler_lock = t
  BY <1>1, <1>2 DEF LockHeld
<1>7. LockHeld'
  BY <1>1, <1>2, <1>3, <1>6 DEF LockHeld
<1>8. nodes' = nodes /\ size' = size /\ mine' = mine /\ rank' = rank
  BY <1>1 DEF listVars
<1>9. Cascade'
  BY <1>2, <1>3, <1>8 DEF Cascade, IsQueued
<1>10. HighestFirst'
  BY <1>2, <1>3, <1>8 DEF HighestFirst
<1> QED BY <1>4, <1>5, <1>7, <1>9, <1>10 DEF IInv

\* What the cascade has found is in the queues it has still to look at.
LEMMA FoundLater ==
    ASSUME IInv, NEW t \in Thread, pc[t] = "check", size[AtRank(rank[t])] = 0
    PROVE  \A p \in found[t] : rank[t] + 1 <= Rank(priority[p])
<1> DEFINE l == AtRank(rank[t])
<1>1. /\ Lists(front, rear, size, nodes) /\ rank[t] \in 1 .. 3 /\ Cascade
      /\ found[t] \in SUBSET Process /\ priority \in [Process -> Priorities]
  BY DispatcherAssumption DEF IInv, TypeOK
<1>2. l \in Priorities
  BY <1>1, Ranks
<1>3. ASSUME NEW p \in found[t]
      PROVE  rank[t] + 1 <= Rank(priority[p])
  <2>1. /\ IsQueued(p) /\ rank[t] <= Rank(priority[p])
        /\ priority[p] \in Priorities
    BY <1>1 DEF Cascade
  <2>2. Rank(priority[p]) \in 1 .. 3 /\ AtRank(Rank(priority[p])) = priority[p]
    BY <2>1, Ranks
  <2>3. CASE rank[t] = Rank(priority[p])
    <3>1. priority[p] = l
      BY <2>2, <2>3
    <3>2. PICK n \in Allocated(nodes) : nodes[n].process = p
      BY <2>1 DEF IsQueued
    <3>3. \E k \in 1 .. size[l] : n = Chains(front, size, nodes)[l][k]
      <4> HIDE DEF l
      <4> QED BY <1>1, <1>2, <3>1, <3>2, LineLaws
    <3>4. 1 .. size[l] = {}
      OBVIOUS
    <3> QED BY <3>3, <3>4
  <2> QED BY <1>1, <2>1, <2>2, <2>3
<1> QED BY <1>3

LEMMA CheckKeeps ==
    ASSUME IInv, NEW t \in Thread, Check(t)
    PROVE  IInv'
<1> DEFINE l == AtRank(rank[t])
<1>1. /\ pc[t] = "check"
      /\ IF size[l] # 0
         THEN pc' = [pc EXCEPT ![t] = "take"] /\ UNCHANGED rank
         ELSE IF rank[t] < 3
              THEN rank' = [rank EXCEPT ![t] = rank[t] + 1] /\ UNCHANGED pc
              ELSE pc' = [pc EXCEPT ![t] = "unlock"] /\ UNCHANGED rank
      /\ UNCHANGED <<listVars, state, scheduler_lock, mine, found>>
  BY DEF Check, Go
<1>2. /\ pc \in [Thread -> Labels] /\ TypeOK
      /\ rank \in [Thread -> 1 .. 3] /\ found \in [Thread -> SUBSET Process]
      /\ InHand /\ LockHeld /\ Cascade /\ HighestFirst
      /\ priority \in [Process -> Priorities]
  BY DispatcherAssumption DEF IInv, TypeOK
<1>3. /\ nodes' = nodes /\ size' = size /\ mine' = mine /\ found' = found
      /\ scheduler_lock' = scheduler_lock
      /\ mine[t] = NULL /\ scheduler_lock = t
      /\ "check" \in Labels /\ "take" \in Labels /\ "unlock" \in Labels
  BY <1>1, <1>2 DEF listVars, InHand, LockHeld, Labels
<1>4. \A u \in Thread \ {t} : pc[u] \notin {"check", "take", "unlock"}
  BY <1>2, <1>3 DEF LockHeld
<1>5. PICK label \in {"check", "take", "unlock"} :
         /\ pc' = [pc EXCEPT ![t] = label]
         /\ label = "take" => size[l] # 0 /\ rank' = rank
         /\ label = "check" => size[l] = 0 /\ rank[t] < 3 /\ rank' = [rank EXCEPT ![t] = rank[t] + 1]
         /\ label = "unlock" => size[l] = 0 /\ rank[t] = 3 /\ rank' = rank
  <2> HIDE DEF l
  <2>1. pc = [pc EXCEPT ![t] = "check"] /\ rank[t] \in 1 .. 3
    BY <1>1, <1>2
  <2> QED BY <1>1, <2>1
<1>6. /\ pc'[t] = label /\ \A u \in Thread \ {t} : pc'[u] = pc[u]
      /\ pc' \in [Thread -> Labels]
  BY <1>2, <1>3, <1>5
<1>7. rank' \in [Thread -> 1 .. 3] /\ \A u \in Thread \ {t} : rank'[u] = rank[u]
  BY <1>2, <1>5
<1>8. Lists(front, rear, size, nodes)' /\ Waiting(nodes)' /\ InHand'
  BY <1>1, <1>3, <1>5, ListsStay
<1>9. TypeOK'
  BY <1>1, <1>2, <1>6, <1>7 DEF TypeOK, listVars
<1>10. LockHeld'
  BY <1>1, <1>2, <1>3, <1>6 DEF LockHeld
<1>11. label # "take" => \A p \in found[t] : rank[t] + 1 <= Rank(priority[p])
  BY <1>1, <1>5, FoundLater
<1>12. Cascade'
  <2>1. ASSUME label \in {"check", "take"}
        PROVE  \A p \in found[t] : IsQueued(p) /\ rank'[t] <= Rank(priority[p])
    BY <1>1, <1>2, <1>5, <1>11, <2>1 DEF Cascade
  <2>2. label = "take" => size[AtRank(rank'[t])] # 0
    BY <1>5
  <2> QED BY <1>3, <1>4, <1>6, <2>1, <2>2 DEF Cascade, IsQueued
<1>13. HighestFirst'
  <2>1. ASSUME label = "unlock"
        PROVE  found[t] = {}
    <3>1. \A p \in found[t] : 4 <= Rank(priority[p]) /\ priority[p] \in Priorities
      BY <1>2, <1>5, <1>11, <2>1
    <3> QED BY <3>1, Ranks
  <2> QED BY <1>3, <1>4, <1>6, <2>1 DEF HighestFirst
<1> QED BY <1>8, <1>9, <1>10, <1>12, <1>13 DEF IInv

\* A queue seen non-empty has a process for the thread that holds the lock.
LEMMA TakeLeaves ==
    ASSUME IInv, NEW t \in Thread, Take(t)
    PROVE  /\ AtRank(rank[t]) \in Priorities /\ front[AtRank(rank[t])] # NULL
           /\ Leaves(AtRank(rank[t]), front, rear, size, nodes, front', rear', size', nodes')
<1> DEFINE l == AtRank(rank[t])
<1>1. /\ pc[t] = "take" /\ queue_dequeue(l)
  BY DEF Take
<1>2. /\ Lists(front, rear, size, nodes) /\ rank[t] \in 1 .. 3 /\ Cascade
      /\ NULL \notin Node
  BY DispatcherAssumption DEF IInv, TypeOK
<1>3. l \in Priorities /\ size[l] # 0
  BY <1>1, <1>2, Ranks DEF Cascade
<1> HIDE DEF l
<1>4. front[l] \in Node
  <2>1. Linked(Chains(front, size, nodes), front, rear, size, nodes) /\ size[l] \in Nat
    BY <1>2, <1>3 DEF Lists, Listed
  <2>2. 1 \in 1 .. size[l]
    BY <1>3, <2>1
  <2> QED BY <1>3, <2>1, <2>2 DEF Linked
<1>5. Leaves(l, front, rear, size, nodes, front', rear', size', nodes')
  BY <1>1, <1>2, <1>3, <1>4, DequeueLeaves
<1> QED BY <1>2, <1>3, <1>4, <1>5 DEF l

LEMMA TakeKeeps ==
    ASSUME IInv, NEW t \in Thread, Take(t)
    PROVE  IInv'
<1> DEFINE l == AtRank(rank[t])
           n == front[l]
           p == nodes[n].process
<1>1. /\ l \in Priorities /\ n # NULL
      /\ Leaves(l, front, rear, size, nodes, front', rear', size', nodes')
  BY TakeLeaves
<1>2. /\ pc[t] = "take" /\ mine' = [mine EXCEPT ![t] = p] /\ pc' = [pc EXCEPT ![t] = "unlock"]
      /\ UNCHANGED <<state, scheduler_lock, rank, found>>
  BY <1>1 DEF Take, Go, Dequeued
<1>3. /\ pc \in [Thread -> Labels] /\ mine \in [Thread -> Process \union {NULL}] /\ TypeOK
      /\ Lists(front, rear, size, nodes) /\ Waiting(nodes) /\ InHand /\ rank[t] \in 1 .. 3
      /\ LockHeld /\ Cascade /\ HighestFirst
      /\ NULL \notin Process /\ priority \in [Process -> Priorities]
  BY DispatcherAssumption DEF IInv, TypeOK
<1> HIDE DEF l
<1>4. /\ Lists(front', rear', size', nodes')
      /\ n \in Allocated(nodes) /\ priority[p] = l
      /\ Allocated(nodes') = Allocated(nodes) \ {n}
      /\ \A m \in Node \ {n} : nodes'[m] = nodes[m]
  BY ONLY <1>1, <1>3, LeaveLists
<1>5. p \in Process /\ state[p] = "READY" /\ \A u \in Thread : mine[u] # p
  BY <1>1, <1>3, <1>4, LineLaws DEF Waiting
<1>6. \A m \in Allocated(nodes') :
         m \in Allocated(nodes) /\ nodes'[m].process = nodes[m].process /\ nodes[m].process # p
  BY <1>3, <1>4 DEF Waiting, Allocated
<1> HIDE DEF p, n
<1>7. /\ pc'[t] = "unlock" /\ mine'[t] = p /\ scheduler_lock = t /\ found'[t] = found[t]
      /\ \A u \in Thread \ {t} : /\ pc'[u] = pc[u] /\ mine'[u] = mine[u]
                                 /\ pc[u] \notin {"check", "take", "unlock"}
  BY <1>2, <1>3 DEF LockHeld
<1>8. TypeOK'
  <2>1. mine' \in [Thread -> Process \union {NULL}] /\ pc' \in [Thread -> Labels]
    BY <1>2, <1>3, <1>5 DEF Labels
  <2>2. /\ front' \in [Priorities -> Node \union {NULL}] /\ rear' \in [Priorities -> Node \union {NULL}]
        /\ size' \in [Priorities -> Nat] /\ nodes' \in [Node -> Nodes \union {NULL}]
    BY <1>4 DEF Lists
  <2> QED BY <1>2, <1>3, <2>1, <2>2 DEF TypeOK
<1>9. Waiting(nodes)'
  <2>1. \A m \in Allocated(nodes') :
           /\ state'[nodes'[m].process] = "READY"
           /\ \A u \in Thread : mine'[u] # nodes'[m].process
    BY <1>2, <1>3, <1>6, <1>7 DEF Waiting
  <2>2. \A k, m \in Allocated(nodes') : nodes'[k].process = nodes'[m].process => k = m
    BY <1>3, <1>6 DEF Waiting
  <2> QED BY <2>1, <2>2 DEF Waiting
<1>10. InHand'
  BY <1>2, <1>3, <1>5, <1>7 DEF InHand
<1>11. LockHeld'
  BY <1>2, <1>3, <1>7 DEF LockHeld
<1>12. Cascade'
  BY <1>7 DEF Cascade
<1>13. HighestFirst'
  <2>1. Rank(priority[p]) = rank[t] /\ p # NULL
    BY <1>3, <1>4, <1>5, Ranks DEF l
  <2>2. \A q \in found[t] : rank[t] <= Rank(priority[q])
    BY <1>2, <1>3 DEF Cascade
  <2> QED BY <1>7, <2>1, <2>2 DEF HighestFirst
<1> QED BY <1>4, <1>8, <1>9, <1>10, <1>11, <1>12, <1>13 DEF IInv

-----------------------------------------------------------------------------
(* The theorems *)

LEMMA InitHolds == Init => IInv
<1> SUFFICES ASSUME Init PROVE IInv
  OBVIOUS
<1> USE DEF Init
<1>1. TypeOK
  BY DEF TypeOK, Labels
<1>2. Lists(front, rear, size, nodes)
  <2>1. Allocated(nodes) = {}
    BY DEF Allocated
  <2>2. /\ front \in [Priorities -> Node \union {NULL}] /\ rear \in [Priorities -> Node \union {NULL}]
        /\ size \in [Priorities -> Nat] /\ nodes \in [Node -> Nodes \union {NULL}]
    BY <1>1 DEF TypeOK
  <2>3. \A l \in Priorities : size[l] = 0 /\ 1 .. size[l] = {}
    OBVIOUS
  <2>4. Listed(Chains(front, size, nodes), front, rear, size, nodes)
    BY <2>3 DEF Listed, Linked, Apart, Covered
  <2>5. Counted(size, nodes)
    <3>1. size["high"] = 0 /\ size["medium"] = 0 /\ size["low"] = 0
      BY DEF Priorities
    <3> QED BY <2>1, <3>1, FS_EmptySet DEF Counted
  <2> QED BY <2>2, <2>4, <2>5 DEF Lists
<1>3. Waiting(nodes)
  BY DEF Waiting, Allocated
<1>4. InHand
  BY DEF InHand
<1>5. LockHeld
  BY DispatcherAssumption DEF LockHeld
<1>6. Cascade /\ HighestFirst
  BY DEF Cascade, HighestFirst
<1> QED BY <1>1, <1>2, <1>3, <1>4, <1>5, <1>6 DEF IInv

LEMMA StepKeeps == IInv /\ [Next]_vars => IInv'
<1> SUFFICES ASSUME IInv, [Next]_vars PROVE IInv'
  OBVIOUS
<1>1. CASE Next
  <2>1. PICK t \in Thread : CallStep(t) \/ ClientStep(t)
    BY <1>1 DEF Next
  <2>2. CASE SetReady(t)
    BY <2>2, SetReadyKeeps
  <2>3. CASE Push(t)
    BY <2>3, PushKeeps
  <2>4. CASE Lock(t)
    BY <2>4, LockKeeps
  <2>5. CASE Check(t)
    BY <2>5, CheckKeeps
  <2>6. CASE Take(t)
    BY <2>6, TakeKeeps
  <2>7. CASE Unlock(t)
    BY <2>7, UnlockKeeps
  <2>8. CASE SwitchIn(t)
    BY <2>8, SwitchInKeeps
  <2>9. ASSUME NEW p \in Process, Submit(t, p)
        PROVE  IInv'
    BY <2>9, SubmitKeeps
  <2>10. CASE GetNext(t)
    BY <2>10, GetNextKeeps
  <2>11. CASE SwitchOut(t)
    BY <2>11, SwitchOutKeeps
  <2>12. CASE Finish(t)
    BY <2>12, FinishKeeps
  <2> QED
    BY <2>1, <2>2, <2>3, <2>4, <2>5, <2>6, <2>7, <2>8, <2>9, <2>10, <2>11, <2>12
       DEF CallStep, ClientStep
<1>2. CASE UNCHANGED vars
  <2>1. /\ front' = front /\ rear' = rear /\ size' = size /\ nodes' = nodes /\ state' = state
        /\ scheduler_lock' = scheduler_lock /\ pc' = pc /\ mine' = mine /\ rank' = rank
        /\ found' = found
    BY <1>2 DEF vars, listVars, threadVars
  <2>2. TypeOK'
    BY <2>1 DEF IInv, TypeOK
  <2>3. Lists(front, rear, size, nodes)' /\ Waiting(nodes)' /\ InHand'
    BY <2>1 DEF IInv, Waiting, InHand
  <2>4. LockHeld' /\ Cascade' /\ HighestFirst'
    BY <2>1 DEF IInv, LockHeld, Cascade, IsQueued, HighestFirst
  <2> QED BY <2>2, <2>3, <2>4 DEF IInv
<1> QED BY <1>1, <1>2

\* Whatever the threads do, the lists are well formed, what is in them is READY
\* and in no thread's hands, and one thread at a time runs the cascade.
THEOREM Invariance == Spec => []IInv
<1> QED BY InitHolds, StepKeeps, PTL DEF Spec

LEMMA ListsIntact == IInv => ChainsIntact
<1> SUFFICES ASSUME IInv PROVE ChainsIntact
  OBVIOUS
<1> DEFINE ch == Chains(front, size, nodes)
<1>1. /\ TypeOK /\ Linked(ch, front, rear, size, nodes) /\ Counted(size, nodes)
      /\ size \in [Priorities -> Nat] /\ NULL \notin Node
  BY DispatcherAssumption DEF IInv, Lists, Listed
<1>2. ASSUME NEW l \in Priorities, size[l] > 0
      PROVE  NodeAt(l, size[l]) = ch[l][size[l]]
  <2>1. size[l] \in 1 .. size[l]
    BY <1>1, <1>2
  <2> QED BY <2>1 DEF NodeAt, Chains, Walk
<1> HIDE DEF ch
<1>3. ASSUME NEW l \in Priorities
      PROVE  /\ (front[l] = NULL) <=> (size[l] = 0)
             /\ (rear[l] = NULL) <=> (size[l] = 0)
             /\ size[l] > 0 => /\ ch[l][size[l]] = rear[l]
                               /\ nodes[rear[l]] # NULL
                               /\ nodes[rear[l]].next = NULL
  <2>1. CASE size[l] = 0
    BY <1>1, <2>1 DEF Linked
  <2>2. CASE size[l] # 0
    <3>1. size[l] \in Nat /\ 1 \in 1 .. size[l] /\ size[l] \in 1 .. size[l]
      BY <1>1, <2>2
    <3>2. front[l] = ch[l][1] /\ rear[l] = ch[l][size[l]]
      BY <1>1, <2>2 DEF Linked
    <3>3. /\ ch[l][1] \in Node /\ ch[l][size[l]] \in Node
          /\ nodes[ch[l][size[l]]] # NULL /\ nodes[ch[l][size[l]]].next = NULL
      BY <1>1, <3>1 DEF Linked
    <3> QED BY <1>1, <2>2, <3>2, <3>3
  <2> QED BY <2>1, <2>2
<1> QED BY <1>1, <1>2, <1>3 DEF ChainsIntact, Counted, Allocated

\* No sequence of queue_enqueue and queue_dequeue, by however many threads and
\* with any reuse of addresses, breaks a list or loses a node.
THEOREM ListsStayIntact == Spec => []ChainsIntact
<1> QED BY Invariance, ListsIntact, PTL

LEMMA WaitingOnce == IInv => QueuedOnceAndReady
<1> SUFFICES ASSUME IInv PROVE QueuedOnceAndReady
  OBVIOUS
<1> DEFINE ch == Chains(front, size, nodes)
<1>1. /\ Lists(front, rear, size, nodes) /\ Waiting(nodes) /\ Apart(ch, size)
  BY DEF IInv, Lists, Listed
<1>2. ASSUME NEW l \in Priorities, NEW j \in 1 .. size[l]
      PROVE  /\ ch[l][j] \in Allocated(nodes) /\ Contents(l)[j] = nodes[ch[l][j]].process
             /\ priority[Contents(l)[j]] = l
  <2>1. Contents(l) = Line(front, size, nodes, l)
    BY ContentsAre
  <2> QED BY <1>1, <2>1, LineLaws
<1> HIDE DEF ch
<1>3. ASSUME NEW l \in Priorities, NEW j \in 1 .. size[l], NEW k \in 1 .. size[l]
      PROVE  /\ state[Contents(l)[j]] = "READY" /\ priority[Contents(l)[j]] = l
             /\ Contents(l)[j] = Contents(l)[k] => j = k
             /\ \A t \in Thread : mine[t] # Contents(l)[j]
  <2>1. /\ ch[l][j] \in Allocated(nodes) /\ Contents(l)[j] = nodes[ch[l][j]].process
        /\ ch[l][k] \in Allocated(nodes) /\ Contents(l)[k] = nodes[ch[l][k]].process
        /\ priority[Contents(l)[j]] = l
    BY <1>2
  <2>2. ch[l][j] = ch[l][k] => j = k
    BY <1>1 DEF Apart
  <2> QED BY <1>1, <2>1, <2>2 DEF Waiting
<1> QED BY <1>3 DEF QueuedOnceAndReady

\* What get_next_process may hand out is READY, of that queue's priority, in no
\* other place of the queues and in the hands of no thread.
THEOREM QueuesHoldTheReady == Spec => []QueuedOnceAndReady
<1> QED BY Invariance, WaitingOnce, PTL

\* get_next_process returns the highest priority there was when it took the
\* lock, and nothing only if there was nothing, though others enqueue meanwhile.
THEOREM HighestIsTaken == Spec => []HighestFirst
<1>1. IInv => HighestFirst
  BY DEF IInv
<1> QED BY <1>1, Invariance, PTL

LEMMA FifoInit == Init => Fifo!Init
<1> SUFFICES ASSUME Init, NEW l \in Priorities PROVE Contents(l) = <<>>
  BY DEF Fifo!Init
<1>1. size[l] = 0
  BY DEF Init
<1> QED BY <1>1 DEF Contents

LEMMA FifoStep == IInv /\ [Next]_vars => [Fifo!Next]_[l \in Priorities |-> Contents(l)]
<1> SUFFICES ASSUME IInv, [Next]_vars
             PROVE  Fifo!Next \/ UNCHANGED [l \in Priorities |-> Contents(l)]
  OBVIOUS
<1>1. [l \in Priorities |-> Contents(l)]
        = [l \in Priorities |-> Line(front, size, nodes, l)]
  BY ContentsAre
<1>2. [l \in Priorities |-> Contents(l)]'
        = [l \in Priorities |-> Line(front', size', nodes', l)]
  <2>1. ASSUME NEW l \in Priorities
        PROVE  Contents(l)' = Line(front', size', nodes', l)
    BY DEF Contents, NodeAt, Line, Chains, Walk
  <2> QED BY <2>1
<1>3. ASSUME UNCHANGED listVars
      PROVE  UNCHANGED [l \in Priorities |-> Contents(l)]
  BY <1>1, <1>2, <1>3 DEF listVars
<1>4. Lists(front, rear, size, nodes) /\ TypeOK /\ InHand /\ priority \in [Process -> Priorities]
  BY DispatcherAssumption DEF IInv
<1>5. ASSUME NEW t \in Thread, Push(t)
      PROVE  Fifo!Next
  <2> DEFINE p == mine[t]
             l == priority[p]
  <2>1. /\ p \in Process /\ l \in Priorities /\ queue_enqueue(l, p)
    BY <1>4, <1>5 DEF Push, InHand
  <2>2. l = priority[p]
    OBVIOUS
  <2> HIDE DEF p, l
  <2>3. PICK n \in Node : Enters(l, p, n, front, rear, size, nodes, front', rear', size', nodes')
    BY <2>1, <2>2, EnqueueEnters
  <2>4. /\ Line(front', size', nodes', l) = Append(Line(front, size, nodes, l), p)
        /\ \A m \in Priorities \ {l} : Line(front', size', nodes', m) = Line(front, size, nodes, m)
    BY ONLY <1>4, <2>3, EnterLine
  <2>5. Fifo!Enter(p)
    <3> DEFINE old == [m \in Priorities |-> Line(front, size, nodes, m)]
               new == [m \in Priorities |-> Line(front', size', nodes', m)]
    <3>1. old[l] = Line(front, size, nodes, l)
      BY <2>1
    <3>2. new = [old EXCEPT ![l] = Append(old[l], p)]
      BY <2>1, <2>4, <3>1
    <3> HIDE DEF old, new
    <3>3. [m \in Priorities |-> Contents(m)] = old
      BY <1>1 DEF old
    <3>4. [m \in Priorities |-> Contents(m)]' = new
      BY <1>2 DEF new
    <3> QED BY <2>2, <3>2, <3>3, <3>4 DEF Fifo!Enter
  <2> QED BY <2>1, <2>5 DEF Fifo!Next
<1>6. ASSUME NEW t \in Thread, Take(t)
      PROVE  Fifo!Next
  <2> DEFINE l == AtRank(rank[t])
  <2>1. /\ l \in Priorities
        /\ Leaves(l, front, rear, size, nodes, front', rear', size', nodes')
    BY <1>6, TakeLeaves
  <2> HIDE DEF l
  <2>2. /\ Line(front, size, nodes, l) # <<>>
        /\ Line(front', size', nodes', l) = Tail(Line(front, size, nodes, l))
        /\ \A m \in Priorities \ {l} : Line(front', size', nodes', m) = Line(front, size, nodes, m)
    BY ONLY <1>4, <2>1, LeaveLine
  <2>3. Fifo!Leave(l)
    <3> DEFINE old == [m \in Priorities |-> Line(front, size, nodes, m)]
               new == [m \in Priorities |-> Line(front', size', nodes', m)]
    <3>1. old[l] = Line(front, size, nodes, l)
      BY <2>1
    <3>2. new = [old EXCEPT ![l] = Tail(old[l])] /\ old[l] # <<>>
      BY <2>1, <2>2, <3>1
    <3> HIDE DEF old, new
    <3>3. [m \in Priorities |-> Contents(m)] = old
      BY <1>1 DEF old
    <3>4. [m \in Priorities |-> Contents(m)]' = new
      BY <1>2 DEF new
    <3> QED BY <3>2, <3>3, <3>4 DEF Fifo!Leave
  <2> QED BY <2>1, <2>3 DEF Fifo!Next
<1>7. CASE Next
  <2>1. PICK t \in Thread : CallStep(t) \/ ClientStep(t)
    BY <1>7 DEF Next
  <2>2. CASE Push(t) \/ Take(t)
    BY <1>5, <1>6, <2>2
  <2>3. CASE SetReady(t) \/ Lock(t) \/ Check(t) \/ Unlock(t) \/ SwitchIn(t)
    <3>1. UNCHANGED listVars
      BY <2>3 DEF SetReady, Lock, Check, Unlock, SwitchIn
    <3> QED BY <1>3, <3>1
  <2>4. CASE ClientStep(t)
    <3>1. UNCHANGED listVars
      BY <2>4 DEF ClientStep, Submit, GetNext, SwitchOut, Finish
    <3> QED BY <1>3, <3>1
  <2> QED BY <2>1, <2>2, <2>3, <2>4 DEF CallStep
<1>8. CASE UNCHANGED vars
  BY <1>3, <1>8 DEF vars
<1> QED BY <1>7, <1>8

\* The linked lists are the abstract FIFO queues: what is put in at the rear
\* comes out at the front, each in one step, and nothing else changes them.
THEOREM QueuesAreFifo == Spec => FifoQueues
<1>1. Init => Fifo!Init
  BY FifoInit
<1>2. IInv /\ [Next]_vars => [Fifo!Next]_[l \in Priorities |-> Contents(l)]
  BY FifoStep
<1> QED BY <1>1, <1>2, Invariance, PTL DEF Spec, FifoQueues, Fifo!Spec
=============================================================================
