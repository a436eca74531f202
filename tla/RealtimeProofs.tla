--------------------------- MODULE RealtimeProofs ---------------------------
(* What TLAPS proves of the live progress of a scan, for any publishers,    *)
(* connections, pages, events, failures and lengths of the replay.          *)
EXTENDS ScanRealtime, FiniteSetTheorems, SequenceTheorems, WellFoundedInduction, TLAPS

-----------------------------------------------------------------------------
(* What the parts hold.                                                     *)

Ways      == {"authorizing", "subscribing", "loading"}
PubStates == {Idle} \cup [at : {"numbered", "appended"}, seq : Nat]
Commands  == [kind : {"subscribe"}, conn : Conns] \cup [kind : {"unsubscribe"}]
Messages  == [kind : {"event"}, seq : Nat] \cup [kind : {"subscribed"}, conn : Conns]
Subs      == [last : Nat, buffering : BOOLEAN, buffer : SUBSET Nat, live : BOOLEAN]
Tasks     == {Idle} \cup [at : Ways, existing : BOOLEAN, from : Nat]
               \cup [at : {"loaded"}, existing : BOOLEAN, events : SUBSET Nat]

Types ==
  /\ counter \in Nat /\ pubs \in [Publishers -> PubStates] /\ timeline \in Seq(Nat)
  /\ channel \in BOOLEAN /\ requests \in Seq(Commands) /\ inbox \in Seq(Messages)
  /\ refCount \in Nat /\ clients \subseteq Conns /\ scanClients \subseteq Conns
  /\ sub \in [Conns -> Subs] /\ task \in [Conns -> Tasks]
  /\ socket \in [Conns -> {"unused", "open", "broken", "closed"}]
  /\ seen \in [Users -> Seq(Nat)] /\ last \in [Users -> Nat]
  /\ disturbed \in BOOLEAN

Stored == ToSet(timeline)

(* Numbers are taken from the counter, and what is sent is in the list.     *)
Known ==
  /\ Stored \subseteq 1 .. counter
  /\ \A p \in Publishers :
       /\ pubs[p].at = "numbered" => pubs[p].seq \in 1 .. counter
       /\ pubs[p].at = "appended" => pubs[p].seq \in Stored
  /\ \A i \in DOMAIN inbox : inbox[i].kind = "event" => inbox[i].seq \in Stored
  /\ \A c \in Conns : sub[c].buffer \subseteq Stored
  /\ \A c \in Conns : task[c].at = "loaded" => task[c].events \subseteq Stored

(* A subscription whose Redis command is under way waits for it, alone.     *)
Asked(c, i)    == requests[i].kind = "subscribe" /\ requests[i].conn = c
Answered(c, i) == inbox[i].kind = "subscribed" /\ inbox[i].conn = c

Waiting ==
  \A c \in Conns :
    /\ \A i \in DOMAIN requests : Asked(c, i) => task[c].at = "subscribing"
    /\ \A i \in DOMAIN inbox : Answered(c, i) => task[c].at = "subscribing"
    /\ \A i, j \in DOMAIN requests : Asked(c, i) /\ Asked(c, j) => i = j
    /\ \A i, j \in DOMAIN inbox : Answered(c, i) /\ Answered(c, j) => i = j
    /\ \A i \in DOMAIN requests, j \in DOMAIN inbox : ~(Asked(c, i) /\ Answered(c, j))

(* What a page that is connected gave the gateway is what it has.           *)
ConnFits(c) ==
  /\ socket[c] = "unused" => c \notin clients /\ sub[c] = NoSub /\ task[c] = Idle
  /\ socket[c] \in {"open", "broken"} => c \in clients
  /\ c \in scanClients <=> sub[c].live
  /\ task[c].at = "subscribing" => ~task[c].existing
  /\ task[c].at \in {"authorizing", "subscribing"} /\ ~task[c].existing => ~sub[c].live
  /\ task[c].at = "authorizing" /\ task[c].existing /\ c \in clients => sub[c].live
  /\ task[c].at \in {"loading", "loaded"} /\ sub[c].live => sub[c].buffering
  /\ socket[c] = "open" =>
       /\ sub[c].live => sub[c].last = last[Owner[c]]
       /\ task[c].at \in {"authorizing", "subscribing"} /\ ~sub[c].live => task[c].from = last[Owner[c]]
       /\ task[c].at = "loading" => sub[c].live /\ task[c].from = sub[c].last

OneOpen ==
  \A c, d \in Conns : Owner[c] = Owner[d] /\ socket[c] = "open" /\ socket[d] = "open" => c = d

Sorted(s) == \A i, j \in DOMAIN s : i < j => s[i] < s[j]
PageFits(u) == Sorted(seen[u]) /\ last[u] = LastOf(seen[u]) /\ ToSet(seen[u]) \subseteq Stored

PagesInv ==
  /\ Types /\ Known /\ Waiting /\ OneOpen
  /\ \A c \in Conns : ConnFits(c)
  /\ \A u \in Users : PageFits(u)

-----------------------------------------------------------------------------
(* Without disturbance.                                                     *)

OneAtATime ==
  /\ \A p, q \in Publishers : pubs[p] # Idle /\ pubs[q] # Idle => p = q
  /\ \A i \in DOMAIN timeline : timeline[i] = i
  /\ \A p \in Publishers : pubs[p].at = "numbered" => pubs[p].seq = counter
  /\ \A p \in Publishers : pubs[p].at = "appended" => pubs[p].seq = counter
  /\ counter = IF \E p \in Publishers : pubs[p].at = "numbered" THEN Len(timeline) + 1 ELSE Len(timeline)

(* The last number that was published, and the next the gateway will hear.  *)
Told == IF \E p \in Publishers : pubs[p].at = "appended" THEN counter - 1 ELSE Len(timeline)
NextHeard == Told - Len(inbox) + 1

Counted ==
  {c \in Conns : sub[c].live /\ (c \in clients \/ (task[c].at = "loading" /\ ~task[c].existing))}

(* Whoever has the channel has it without an interruption.                  *)
OneChannel ==
  /\ Cardinality(Counted) <= refCount
  /\ \A c, d \in Conns : task[c].at = "subscribing" /\ task[d].at = "subscribing" => c = d
  /\ \A c \in Conns : task[c].at = "subscribing" => refCount = 0
  /\ refCount > 0 => channel /\ requests = <<>>
  /\ \A i \in DOMAIN requests : requests[i].kind = "subscribe" => i = Len(requests)
  /\ \A i \in DOMAIN inbox : inbox[i].kind = "subscribed" => channel /\ requests = <<>>

InTurn ==
  \A i \in DOMAIN inbox :
    (refCount > 0 \/ \E j \in 1 .. (i - 1) : inbox[j].kind = "subscribed")
      => inbox[i].kind = "event" /\ inbox[i].seq = NextHeard + i - 1

(* What the replay lacks is in the buffer, or will be heard.                *)
ReplayFits(c) ==
  \E len \in 0 .. Len(timeline) :
    /\ \A e \in 1 .. len : sub[c].last < e /\ len < e + ReplayMax => e \in task[c].events
    /\ \A e \in task[c].events : e <= len
    /\ \A e \in Stored : len < e /\ sub[c].last < e /\ e < NextHeard => e \in sub[c].buffer

StreamFits(c) ==
  c \in clients /\ sub[c].live /\ socket[c] = "open" =>
    /\ ~sub[c].buffering => NextHeard <= sub[c].last + 1
    /\ \A e \in sub[c].buffer : e < NextHeard
    /\ task[c].at = "loaded" => ReplayFits(c)

StreamInv ==
  ~disturbed => OneAtATime /\ OneChannel /\ InTurn /\ NoGap /\ \A c \in Conns : StreamFits(c)

-----------------------------------------------------------------------------
(* Sets in the order of their numbers.                                      *)

LEMMA LeastOf ==
  ASSUME NEW S \in SUBSET Nat, S # {}
  PROVE  \E x \in S : \A y \in S : x <= y
<1>1. PICK R : R = OpToRel(<, Nat)
  OBVIOUS
<1>2. R = {p \in Nat \X Nat : p[1] < p[2]}
  BY <1>1, Zenon DEF OpToRel
<1>3. IsWellFoundedOn(R, Nat)
  BY <1>1, NatLessThanWellFounded
<1>4. PICK x \in S : \A y \in S : ~(<<y, x>> \in R)
  BY <1>3, WFMin
<1>5. ASSUME NEW y \in S PROVE x <= y
  <2>1. x \in Nat /\ y \in Nat /\ <<y, x>> \notin R
    BY <1>4
  <2>2. ~(y < x)
    BY <1>2, <2>1
  <2> QED BY <2>1, <2>2
<1> QED BY <1>5

(* A bounded set of numbers can be put in their order.                      *)
Ordered(S) == {s \in [1 .. Cardinality(S) -> S] : \A i, j \in DOMAIN s : i < j => s[i] < s[j]}

LEMMA OrderedWithMax ==
  ASSUME NEW n \in Nat, NEW S \in SUBSET (1 .. n), n \in S,
         IsFiniteSet(S), Ordered(S \ {n}) # {}
  PROVE  Ordered(S) # {}
<1> DEFINE k == Cardinality(S \ {n})
<1>1. k \in Nat /\ Cardinality(S) = k + 1
  <2>1. IsFiniteSet(S \ {n}) /\ k = Cardinality(S) - 1
    BY FS_RemoveElement
  <2> QED BY <2>1, FS_CardinalityType
<1>2. PICK s \in [1 .. k -> S \ {n}] : \A i, j \in 1 .. k : i < j => s[i] < s[j]
  BY DEF Ordered
<1> HIDE DEF k
<1> DEFINE t == [i \in 1 .. (k + 1) |-> IF i <= k THEN s[i] ELSE n]
<1>3. t \in [1 .. (k + 1) -> S]
  BY <1>1, <1>2
<1>4. ASSUME NEW i \in 1 .. (k + 1), NEW j \in 1 .. (k + 1), i < j
      PROVE  t[i] < t[j]
  <2>1. i \in 1 .. k /\ t[i] = s[i] /\ s[i] \in S \ {n}
    BY <1>1, <1>2, <1>4
  <2>2. CASE j <= k
    BY <1>1, <1>2, <1>4, <2>1, <2>2
  <2>3. CASE ~(j <= k)
    <3>1. t[j] = n
      BY <1>1, <2>3
    <3>2. s[i] \in 1 .. n /\ s[i] # n
      BY <2>1
    <3> HIDE DEF t
    <3> QED BY <2>1, <3>1, <3>2
  <2> QED BY <2>2, <2>3
<1>5. t \in Ordered(S)
  <2> HIDE DEF t
  <2> QED BY <1>1, <1>3, <1>4 DEF Ordered
<1> QED BY <1>5

LEMMA CanBeOrdered ==
  ASSUME NEW n \in Nat, NEW S \in SUBSET (1 .. n)
  PROVE  Ordered(S) # {}
<1> DEFINE Bad == {m \in Nat : \E T \in SUBSET (1 .. m) : Ordered(T) = {}}
<1>1. SUFFICES Bad = {}
  OBVIOUS
<1>2. ASSUME Bad # {} PROVE FALSE
  <2>1. PICK m \in Bad : \A y \in Bad : m <= y
    <3>1. Bad \in SUBSET Nat
      OBVIOUS
    <3> HIDE DEF Bad
    <3> QED BY <1>2, <3>1, LeastOf
  <2>2. PICK T \in SUBSET (1 .. m) : Ordered(T) = {}
    BY <2>1
  <2>f. IsFiniteSet(T)
    <3>1. m \in Int /\ IsFiniteSet(1 .. m)
      BY <2>1, FS_Interval
    <3> QED BY <2>2, <3>1, FS_Subset
  <2>3. CASE m = 0
    <3>1. T = {}
      BY <2>3
    <3>3. Cardinality(T) = 0
      BY <3>1, FS_EmptySet
    <3>2. [i \in 1 .. 0 |-> i] \in [1 .. Cardinality(T) -> T]
      BY <3>1, <3>3
    <3> QED BY <2>2, <3>1, <3>2, <3>3 DEF Ordered
  <2>4. CASE m # 0
    <3>1. m \in Nat /\ m - 1 \in Nat /\ m - 1 \notin Bad
      BY <2>1, <2>4
    <3>2. \A U \in SUBSET (1 .. (m - 1)) : Ordered(U) # {}
      BY <3>1
    <3> HIDE DEF Bad
    <3>3. T \ {m} \in SUBSET (1 .. (m - 1))
      BY <3>1
    <3>4. CASE m \in T
      BY <2>2, <2>f, <3>1, <3>2, <3>3, <3>4, OrderedWithMax
    <3>5. CASE m \notin T
      <4>1. T \ {m} = T
        BY <3>5
      <4> QED BY <2>2, <3>2, <3>3, <4>1
    <3> QED BY <3>4, <3>5
  <2> QED BY <2>3, <2>4
<1> QED BY <1>2

(* Ascending gives the elements of the set, each once, in order.            *)
LEMMA AscendingIs ==
  ASSUME NEW n \in Nat, NEW S \in SUBSET (1 .. n)
  PROVE  /\ Ascending(S) \in Seq(Nat) /\ Sorted(Ascending(S)) /\ ToSet(Ascending(S)) = S
         /\ Ascending(S) = <<>> <=> S = {}
<1> DEFINE s == Ascending(S)
           k == Cardinality(S)
<1>n. \A x \in S : x \in Nat
  OBVIOUS
<1>1. IsFiniteSet(S) /\ k \in Nat
  <2>1. IsFiniteSet(1 .. n)
    BY FS_Interval
  <2>2. IsFiniteSet(S)
    BY <2>1, FS_Subset
  <2> QED BY <2>2, FS_CardinalityType
<1>2. s \in Ordered(S)
  BY CanBeOrdered DEF Ascending, Ordered
<1>3. s \in [1 .. k -> S] /\ DOMAIN s = 1 .. k /\ Sorted(s)
  BY <1>2 DEF Ordered, Sorted
<1> HIDE DEF s, k
<1>4. s \in Injection(1 .. k, S)
  <2>1. ASSUME NEW i \in 1 .. k, NEW j \in 1 .. k, s[i] = s[j] PROVE i = j
    <3>1. \A a, b \in 1 .. k : a < b => s[a] < s[b]
      BY <1>3 DEF Sorted
    <3>2. s[i] \in Nat /\ s[j] \in Nat
      BY <1>3, <1>n
    <3>3. ~(i < j) /\ ~(j < i)
      BY <2>1, <3>1, <3>2
    <3> QED BY <1>1, <3>3
  <2> QED BY <1>3, <2>1 DEF Injection, IsInjective
<1>5. Cardinality(1 .. k) = k /\ IsFiniteSet(1 .. k)
  BY <1>1, FS_Interval
<1>6. s \in Surjection(1 .. k, S)
  BY <1>1, <1>4, <1>5, FS_Injection DEF k
<1>7. ToSet(s) = S
  BY <1>3, <1>6 DEF Surjection, ToSet
<1>8. s \in Seq(Nat) /\ Len(s) = k
  <2>1. s = [i \in 1 .. k |-> s[i]] /\ \A i \in 1 .. k : s[i] \in Nat
    BY <1>3, <1>n
  <2> QED BY <1>1, <2>1
<1>9. s = <<>> <=> S = {}
  BY <1>3, <1>7, <1>8 DEF ToSet
<1> QED BY <1>3, <1>7, <1>8, <1>9 DEF s

LEMMA LastIsMax ==
  ASSUME NEW s \in Seq(Nat), Sorted(s), s # <<>>
  PROVE  LastOf(s) \in ToSet(s) /\ \A e \in ToSet(s) : e <= LastOf(s)
<1>1. Len(s) \in Nat \ {0} /\ DOMAIN s = 1 .. Len(s) /\ s \in [1 .. Len(s) -> Nat]
  BY EmptySeq, LenProperties
<1>2. LastOf(s) = s[Len(s)] /\ Len(s) \in DOMAIN s
  BY <1>1 DEF LastOf
<1>3. ASSUME NEW i \in DOMAIN s PROVE s[i] <= s[Len(s)]
  BY <1>1, <1>2 DEF Sorted
<1> QED BY <1>2, <1>3 DEF ToSet

LEMMA PrefixOfSorted ==
  ASSUME NEW s \in Seq(Nat), Sorted(s), NEW k \in 0 .. Len(s)
  PROVE  /\ SubSeq(s, 1, k) \in Seq(Nat) /\ Sorted(SubSeq(s, 1, k))
         /\ SubSeq(s, 1, k) = <<>> <=> k = 0
         /\ ToSet(SubSeq(s, 1, k)) \subseteq ToSet(s)
         /\ k # 0 => /\ LastOf(SubSeq(s, 1, k)) = s[k] /\ s[k] \in ToSet(s)
                     /\ \A e \in ToSet(s) : e <= s[k] => e \in ToSet(SubSeq(s, 1, k))
         /\ k = Len(s) => ToSet(SubSeq(s, 1, k)) = ToSet(s)
<1> DEFINE t == SubSeq(s, 1, k)
<1>1. Len(s) \in Nat /\ DOMAIN s = 1 .. Len(s) /\ k \in Nat /\ k <= Len(s) /\ \A i \in 1 .. Len(s) : s[i] \in Nat
  BY LenProperties
<1>2. t \in Seq(Nat) /\ Len(t) = k /\ \A i \in 1 .. k : t[i] = s[i]
  BY <1>1, SubSeqProperties
<1>3. DOMAIN t = 1 .. k
  BY <1>2, LenProperties
<1> HIDE DEF t
<1>4. Sorted(t)
  BY <1>1, <1>2, <1>3 DEF Sorted
<1>5. t = <<>> <=> k = 0
  BY <1>1, <1>2, EmptySeq
<1>6. ToSet(t) = {s[i] : i \in 1 .. k}
  BY <1>2, <1>3 DEF ToSet
<1>7. ASSUME k # 0
      PROVE  /\ LastOf(t) = s[k] /\ s[k] \in ToSet(s)
             /\ \A e \in ToSet(s) : e <= s[k] => e \in ToSet(t)
  <2>1. LastOf(t) = s[k]
    BY <1>1, <1>2, <1>5, <1>7 DEF LastOf
  <2>2. k \in DOMAIN s
    BY <1>1, <1>7
  <2>3. ASSUME NEW i \in DOMAIN s, s[i] <= s[k] PROVE i \in 1 .. k
    <3>1. i \in Nat /\ s[i] \in Nat /\ s[k] \in Nat /\ ~(k < i)
      BY <1>1, <2>2, <2>3 DEF Sorted
    <3> QED BY <1>1, <3>1
  <2> QED BY <1>6, <2>1, <2>2, <2>3 DEF ToSet
<1>8. ToSet(t) \subseteq ToSet(s) /\ (k = Len(s) => ToSet(t) = ToSet(s))
  <2>1. \A i \in 1 .. k : i \in DOMAIN s
    BY <1>1
  <2>2. k = Len(s) => 1 .. k = DOMAIN s
    BY <1>1
  <2> QED BY <1>6, <2>1, <2>2 DEF ToSet
<1> QED BY <1>2, <1>4, <1>5, <1>7, <1>8 DEF t

-----------------------------------------------------------------------------
(* What a page makes of what it is sent.                                    *)

LEMMA ShownIs ==
  ASSUME NEW c \in Conns, Types, Known, PageFits(Owner[c]),
         NEW s \in Seq(Nat), s # <<>>, Sorted(s), ToSet(s) \subseteq Stored,
         \A e \in ToSet(s) : last[Owner[c]] < e
  PROVE  /\ Shown(c, s).shown \in Seq(Nat) /\ Sorted(Shown(c, s).shown)
         /\ ToSet(Shown(c, s).shown) = ToSet(seen[Owner[c]]) \cup ToSet(s)
         /\ IsPrefix(seen[Owner[c]], Shown(c, s).shown)
         /\ Shown(c, s).ref = LastOf(s) /\ LastOf(Shown(c, s).shown) = LastOf(s)
<1> DEFINE old == seen[Owner[c]]
           new == Ascending(ToSet(s) \ ToSet(old))
           all == old \o new
<1>1. /\ old \in Seq(Nat) /\ Sorted(old) /\ last[Owner[c]] = LastOf(old)
      /\ counter \in Nat /\ Stored \subseteq 1 .. counter
  BY RealtimeAssumption DEF Types, PageFits, Known
<1>2. Shown(c, s).shown = all /\ Shown(c, s).ref = LastOf(s)
  BY DEF Shown
<1>3. LastOf(s) \in ToSet(s) /\ \A e \in ToSet(s) : e \in Nat /\ e <= LastOf(s) /\ LastOf(old) < e
  <2>1. LastOf(s) \in ToSet(s) /\ \A e \in ToSet(s) : e <= LastOf(s)
    BY LastIsMax
  <2>2. ASSUME NEW e \in ToSet(s) PROVE e \in Nat /\ last[Owner[c]] < e
    <3>1. e \in 1 .. counter
      BY <1>1
    <3> QED BY <1>1, <3>1
  <2> HIDE DEF old
  <2> QED BY <1>1, <2>1, <2>2
<1>4. \A e \in ToSet(old) : e \in Nat /\ e <= LastOf(old) /\ LastOf(old) \in Nat
  <2>1. CASE old = <<>>
    BY <2>1 DEF ToSet
  <2>2. CASE old # <<>>
    <3>1. ToSet(old) \subseteq Nat
      BY <1>1, LenProperties DEF ToSet
    <3> QED BY <1>1, <2>2, <3>1, LastIsMax
  <2> QED BY <2>1, <2>2
<1>5. ToSet(s) \ ToSet(old) = ToSet(s)
  BY <1>3, <1>4
<1>6. new \in Seq(Nat) /\ Sorted(new) /\ ToSet(new) = ToSet(s) /\ new # <<>>
  <2>1. ToSet(s) \in SUBSET (1 .. counter) /\ ToSet(s) # {}
    BY <1>1, <1>3
  <2> QED BY <1>1, <1>5, <2>1, AscendingIs
<1>7. LastOf(new) = LastOf(s)
  <2>1. LastOf(new) \in ToSet(s) /\ \A e \in ToSet(s) : e <= LastOf(new)
    BY <1>6, LastIsMax
  <2>2. LastOf(new) \in Nat /\ LastOf(s) \in Nat /\ LastOf(new) <= LastOf(s) /\ LastOf(s) <= LastOf(new)
    BY <1>3, <2>1
  <2> HIDE DEF new
  <2> QED BY <2>2
<1> HIDE DEF new, old
<1>8. /\ all \in Seq(Nat) /\ Len(all) = Len(old) + Len(new)
      /\ \A i \in 1 .. Len(old) + Len(new) : all[i] = IF i <= Len(old) THEN old[i] ELSE new[i - Len(old)]
      /\ Len(old) \in Nat /\ Len(new) \in Nat \ {0}
      /\ DOMAIN old = 1 .. Len(old) /\ DOMAIN new = 1 .. Len(new) /\ DOMAIN all = 1 .. Len(all)
  BY <1>1, <1>6, ConcatProperties, LenProperties, EmptySeq
<1> HIDE DEF all
<1>9. ASSUME NEW i \in DOMAIN all, NEW j \in DOMAIN all, i < j PROVE all[i] < all[j]
  <2>1. CASE j <= Len(old)
    BY <1>1, <1>8, <1>9, <2>1 DEF Sorted
  <2>2. CASE Len(old) < i
    <3>0. i \in 1 .. Len(old) + Len(new) /\ j \in 1 .. Len(old) + Len(new)
      BY <1>8
    <3>1. i - Len(old) \in DOMAIN new /\ j - Len(old) \in DOMAIN new /\ i - Len(old) < j - Len(old)
      <4>1. i \in Int /\ j \in Int /\ Len(old) \in Int /\ Len(new) \in Int
        BY <1>8, <3>0
      <4>2. /\ i - Len(old) \in 1 .. Len(new) /\ j - Len(old) \in 1 .. Len(new)
            /\ i - Len(old) < j - Len(old)
        BY <1>9, <2>2, <3>0, <4>1
      <4> QED BY <1>8, <4>2
    <3>2. all[i] = new[i - Len(old)] /\ all[j] = new[j - Len(old)]
      <4>1. i \in Int /\ j \in Int /\ Len(old) \in Int /\ ~(i <= Len(old)) /\ ~(j <= Len(old))
        BY <1>8, <1>9, <2>2, <3>0
      <4> QED BY <1>8, <3>0, <4>1
    <3> QED BY <1>6, <3>1, <3>2 DEF Sorted
  <2>3. CASE i <= Len(old) /\ Len(old) < j
    <3>1. all[i] = old[i] /\ i \in DOMAIN old
      BY <1>8, <2>3
    <3>2. all[j] = new[j - Len(old)] /\ j - Len(old) \in DOMAIN new
      BY <1>8, <2>3
    <3>3. all[i] \in ToSet(old) /\ all[j] \in ToSet(s)
      BY <1>6, <3>1, <3>2 DEF ToSet
    <3> QED BY <1>3, <1>4, <3>3
  <2> QED BY <1>8, <2>1, <2>2, <2>3
<1>10. ToSet(all) = ToSet(old) \cup ToSet(s)
  <2>1. ASSUME NEW i \in DOMAIN all PROVE all[i] \in ToSet(old) \cup ToSet(new)
    <3>1. CASE i <= Len(old)
      BY <1>8, <3>1 DEF ToSet
    <3>2. CASE Len(old) < i
      <4>1. i - Len(old) \in DOMAIN new /\ all[i] = new[i - Len(old)]
        BY <1>8, <3>2
      <4> QED BY <4>1 DEF ToSet
    <3> QED BY <1>8, <3>1, <3>2
  <2>2. ASSUME NEW i \in DOMAIN old PROVE old[i] \in ToSet(all)
    <3>1. i \in DOMAIN all /\ all[i] = old[i]
      BY <1>8
    <3> QED BY <3>1 DEF ToSet
  <2>3. ASSUME NEW i \in DOMAIN new PROVE new[i] \in ToSet(all)
    <3>1. /\ i + Len(old) \in 1 .. Len(old) + Len(new) /\ ~(i + Len(old) <= Len(old))
          /\ i + Len(old) - Len(old) = i
      BY <1>8
    <3>2. i + Len(old) \in DOMAIN all /\ all[i + Len(old)] = new[i]
      BY <1>8, <3>1
    <3> QED BY <3>2 DEF ToSet
  <2> QED BY <1>6, <2>1, <2>2, <2>3 DEF ToSet
<1>11. IsPrefix(old, all)
  <2>1. Len(old) <= Len(all)
    BY <1>8
  <2>2. SubSeq(old, 1, Len(old)) = SubSeq(all, 1, Len(old))
    <3>1. \A i \in 1 .. Len(old) : old[i] \in Nat /\ all[i] = old[i]
      BY <1>1, <1>8, LenProperties
    <3>2. /\ SubSeq(old, 1, Len(old)) \in Seq(Nat) /\ SubSeq(all, 1, Len(old)) \in Seq(Nat)
          /\ Len(SubSeq(old, 1, Len(old))) = Len(old) /\ Len(SubSeq(all, 1, Len(old))) = Len(old)
          /\ \A i \in 1 .. Len(old) : SubSeq(old, 1, Len(old))[i] = old[i] /\ SubSeq(all, 1, Len(old))[i] = all[i]
      BY <1>8, <3>1, SubSeqProperties
    <3> QED BY <3>1, <3>2, SeqEqual
  <2> QED BY <2>1, <2>2 DEF IsPrefix
<1>12. LastOf(all) = LastOf(s)
  <2>0. /\ Len(all) \in 1 .. Len(old) + Len(new) /\ ~(Len(all) <= Len(old)) /\ Len(all) # 0
        /\ Len(all) - Len(old) = Len(new)
    BY <1>8
  <2>1. all # <<>> /\ all[Len(all)] = new[Len(new)]
    BY <1>8, <2>0, EmptySeq
  <2> QED BY <1>6, <1>7, <2>1 DEF LastOf
<1> QED BY <1>2, <1>8, <1>9, <1>10, <1>11, <1>12 DEF Sorted, old

(* What is sent to a page that is connected is new to it.                   *)
Sends(s) ==
  /\ s \in [Conns -> Seq(Nat)]
  /\ \A c \in Conns : socket[c] = "open" /\ s[c] # <<>> =>
       Sorted(s[c]) /\ ToSet(s[c]) \subseteq Stored /\ \A e \in ToSet(s[c]) : last[Owner[c]] < e

LEMMA ShowIs ==
  ASSUME Types, Known, OneOpen, \A u \in Users : PageFits(u), NEW s, Sends(s), Show(s)
  PROVE  /\ seen' \in [Users -> Seq(Nat)] /\ last' \in [Users -> Nat]
         /\ \A u \in Users : /\ Sorted(seen'[u]) /\ last'[u] = LastOf(seen'[u])
                             /\ ToSet(seen'[u]) \subseteq Stored /\ IsPrefix(seen[u], seen'[u])
         /\ \A c \in Conns : socket[c] = "open" /\ s[c] # <<>> =>
              /\ ToSet(seen'[Owner[c]]) = ToSet(seen[Owner[c]]) \cup ToSet(s[c])
              /\ last'[Owner[c]] = LastOf(s[c])
         /\ \A u \in Users : (\A c \in Conns : Owner[c] = u /\ socket[c] = "open" => s[c] = <<>>) =>
              seen'[u] = seen[u] /\ last'[u] = last[u]
<1> DEFINE got(u) == {c \in Conns : Owner[c] = u /\ socket[c] = "open" /\ s[c] # <<>>}
           of(u) == LET c == CHOOSE x \in got(u) : TRUE IN Shown(c, s[c])
<1>1. /\ seen' = [u \in Users |-> IF got(u) = {} THEN seen[u] ELSE of(u).shown]
      /\ last' = [u \in Users |-> IF got(u) = {} THEN last[u] ELSE of(u).ref]
  BY DEF Show
<1>2. ASSUME NEW u \in Users, got(u) = {}
      PROVE  /\ seen'[u] = seen[u] /\ last'[u] = last[u] /\ seen[u] \in Seq(Nat) /\ last[u] \in Nat
             /\ Sorted(seen[u]) /\ last[u] = LastOf(seen[u])
             /\ ToSet(seen[u]) \subseteq Stored /\ IsPrefix(seen[u], seen[u])
  <2>1. seen'[u] = seen[u] /\ last'[u] = last[u]
    BY <1>1, <1>2
  <2>2. seen[u] \in Seq(Nat) /\ last[u] \in Nat /\ Len(seen[u]) \in Nat
    BY LenProperties DEF Types
  <2> QED BY <2>1, <2>2 DEF PageFits, IsPrefix
<1>3. ASSUME NEW c \in Conns, socket[c] = "open", s[c] # <<>>
      PROVE  /\ seen'[Owner[c]] = Shown(c, s[c]).shown /\ last'[Owner[c]] = Shown(c, s[c]).ref
             /\ Owner[c] \in Users
  <2>1. Owner[c] \in Users
    BY RealtimeAssumption
  <2>2. c \in got(Owner[c]) /\ \A d \in got(Owner[c]) : d = c
    BY <1>3 DEF OneOpen
  <2>3. of(Owner[c]) = Shown(c, s[c])
    BY <2>2
  <2> HIDE DEF of, got
  <2> QED BY <1>1, <2>1, <2>2, <2>3
<1>4. ASSUME NEW c \in Conns, socket[c] = "open", s[c] # <<>>
      PROVE  /\ seen'[Owner[c]] \in Seq(Nat) /\ last'[Owner[c]] \in Nat
             /\ Sorted(seen'[Owner[c]]) /\ last'[Owner[c]] = LastOf(seen'[Owner[c]])
             /\ ToSet(seen'[Owner[c]]) = ToSet(seen[Owner[c]]) \cup ToSet(s[c])
             /\ ToSet(seen'[Owner[c]]) \subseteq Stored /\ IsPrefix(seen[Owner[c]], seen'[Owner[c]])
             /\ last'[Owner[c]] = LastOf(s[c])
  <2>1. /\ s[c] \in Seq(Nat) /\ Sorted(s[c]) /\ ToSet(s[c]) \subseteq Stored
        /\ \A e \in ToSet(s[c]) : last[Owner[c]] < e
    BY <1>4 DEF Sends
  <2>2. PageFits(Owner[c])
    BY <1>3, <1>4
  <2>3. /\ Shown(c, s[c]).shown \in Seq(Nat) /\ Sorted(Shown(c, s[c]).shown)
        /\ ToSet(Shown(c, s[c]).shown) = ToSet(seen[Owner[c]]) \cup ToSet(s[c])
        /\ IsPrefix(seen[Owner[c]], Shown(c, s[c]).shown)
        /\ Shown(c, s[c]).ref = LastOf(s[c]) /\ LastOf(Shown(c, s[c]).shown) = LastOf(s[c])
    BY <1>4, <2>1, <2>2, ShownIs
  <2>4. LastOf(s[c]) \in Nat
    <3>1. LastOf(s[c]) \in ToSet(s[c])
      BY <1>4, <2>1, LastIsMax
    <3>2. Stored \subseteq Nat
      BY DEF Known, Types
    <3> QED BY <2>1, <3>1, <3>2
  <2> QED BY <1>3, <1>4, <2>1, <2>2, <2>3, <2>4 DEF PageFits
<1>5. ASSUME NEW u \in Users
      PROVE  /\ seen'[u] \in Seq(Nat) /\ last'[u] \in Nat
             /\ Sorted(seen'[u]) /\ last'[u] = LastOf(seen'[u])
             /\ ToSet(seen'[u]) \subseteq Stored /\ IsPrefix(seen[u], seen'[u])
  <2>1. CASE got(u) = {}
    BY <1>2, <2>1
  <2>2. CASE got(u) # {}
    <3>1. PICK c \in got(u) : TRUE
      BY <2>2
    <3> QED BY <1>4, <3>1
  <2> QED BY <2>1, <2>2
<1>6. seen' \in [Users -> Seq(Nat)] /\ last' \in [Users -> Nat]
  <2>1. seen' = [u \in Users |-> seen'[u]] /\ last' = [u \in Users |-> last'[u]]
    BY <1>1
  <2> QED BY <1>5, <2>1
<1>7. ASSUME NEW u \in Users, \A c \in Conns : Owner[c] = u /\ socket[c] = "open" => s[c] = <<>>
      PROVE  seen'[u] = seen[u] /\ last'[u] = last[u]
  <2>1. got(u) = {}
    BY <1>7
  <2> QED BY <1>2, <2>1
<1> QED BY <1>4, <1>5, <1>6, <1>7

-----------------------------------------------------------------------------
(* What a step of one part leaves to the others.                            *)

LEMMA ConnSame ==
  ASSUME NEW c \in Conns, ConnFits(c), socket'[c] = socket[c], c \in clients' <=> c \in clients,
         sub'[c] = sub[c], task'[c] = task[c], c \in scanClients' <=> c \in scanClients,
         socket[c] = "open" => last'[Owner[c]] = last[Owner[c]]
  PROVE  ConnFits(c)'
BY DEF ConnFits

LEMMA PagesSame ==
  ASSUME \A u \in Users : PageFits(u), UNCHANGED <<seen, last>>, Stored \subseteq Stored'
  PROVE  \A u \in Users : PageFits(u)'
BY DEF PageFits

LEMMA WaitingSame ==
  ASSUME Waiting, UNCHANGED <<requests, inbox>>,
         \A c \in Conns : task[c].at = "subscribing" => task'[c].at = "subscribing"
  PROVE  Waiting'
BY DEF Waiting, Asked, Answered

LEMMA AppendIs ==
  ASSUME NEW S, NEW s \in Seq(S), NEW e \in S
  PROVE  /\ Append(s, e) \in Seq(S) /\ DOMAIN Append(s, e) = 1 .. Len(s) + 1 /\ DOMAIN s = 1 .. Len(s)
         /\ Len(s) \in Nat /\ Len(Append(s, e)) = Len(s) + 1
         /\ \A i \in DOMAIN s : i \in DOMAIN Append(s, e) /\ Append(s, e)[i] = s[i]
         /\ \A i \in DOMAIN Append(s, e) : i \in DOMAIN s \/ (i = Len(s) + 1 /\ Append(s, e)[i] = e)
         /\ Append(s, e)[Len(s) + 1] = e
<1>1. /\ Append(s, e) \in Seq(S) /\ Len(Append(s, e)) = Len(s) + 1 /\ Append(s, e)[Len(s) + 1] = e
      /\ \A i \in 1 .. Len(s) : Append(s, e)[i] = s[i]
  BY AppendProperties
<1>2. Len(s) \in Nat /\ DOMAIN s = 1 .. Len(s)
  BY LenProperties
<1>3. DOMAIN Append(s, e) = 1 .. Len(s) + 1
  BY <1>1, LenProperties
<1> QED BY <1>1, <1>2, <1>3

LEMMA TailIs ==
  ASSUME NEW S, NEW s \in Seq(S), s # <<>>
  PROVE  /\ Tail(s) \in Seq(S) /\ Len(s) \in Nat \ {0} /\ Len(Tail(s)) = Len(s) - 1
         /\ DOMAIN s = 1 .. Len(s) /\ s[1] \in S
         /\ \A i \in DOMAIN Tail(s) : i \in Nat /\ i + 1 \in DOMAIN s /\ Tail(s)[i] = s[i + 1]
<1>1. Tail(s) \in Seq(S) /\ Len(Tail(s)) = Len(s) - 1 /\ \A i \in 1 .. Len(Tail(s)) : Tail(s)[i] = s[i + 1]
  BY HeadTailProperties
<1>2. Len(s) \in Nat \ {0} /\ DOMAIN s = 1 .. Len(s) /\ DOMAIN Tail(s) = 1 .. Len(Tail(s))
  BY <1>1, EmptySeq, LenProperties
<1>3. s[1] \in S
  BY <1>2, ElementOfSeq
<1>4. \A i \in DOMAIN Tail(s) : i \in Nat /\ i + 1 \in DOMAIN s
  BY <1>1, <1>2
<1> QED BY <1>1, <1>2, <1>3, <1>4

(* A command that unsubscribes waits for nobody.                            *)
LEMMA WaitingUnsubscribe ==
  ASSUME Types, Waiting, requests' = Append(requests, [kind |-> "unsubscribe"]), UNCHANGED inbox,
         \A c \in Conns : task[c].at = "subscribing" => task'[c].at = "subscribing"
  PROVE  Waiting' /\ requests' \in Seq(Commands)
<1> DEFINE m == [kind |-> "unsubscribe"]
<1>1. requests \in Seq(Commands) /\ m \in Commands /\ m.kind = "unsubscribe"
  BY DEF Types, Commands
<1> HIDE DEF m
<1>2. /\ requests' = Append(requests, m) /\ requests' \in Seq(Commands)
      /\ \A i \in DOMAIN requests' : (i \in DOMAIN requests /\ requests'[i] = requests[i]) \/ requests'[i] = m
  BY <1>1, AppendIs DEF m
<1>3. \A c \in Conns : \A i \in DOMAIN requests' : Asked(c, i)' => i \in DOMAIN requests /\ Asked(c, i)
  BY <1>1, <1>2 DEF Asked
<1> QED BY <1>2, <1>3 DEF Waiting, Answered

-----------------------------------------------------------------------------
(* Publishers.                                                              *)

LEMMA PublisherKeeps ==
  ASSUME PagesInv, UNCHANGED <<gateway, browser, channel, requests>>,
         Types', Known', Waiting', Stored \subseteq Stored'
  PROVE  PagesInv'
<1>1. \A c \in Conns : ConnFits(c)'
  BY ConnSame DEF PagesInv, gateway, browser
<1>2. \A u \in Users : PageFits(u)'
  BY PagesSame DEF PagesInv, browser
<1>3. OneOpen'
  BY DEF PagesInv, OneOpen, browser
<1> QED BY <1>1, <1>2, <1>3 DEF PagesInv

LEMMA PublisherStep ==
  ASSUME PagesInv, NEW p \in Publishers,
         TakeNumber(p) \/ AppendTimeline(p) \/ Publish(p) \/ PublisherDies(p)
  PROVE  PagesInv' /\ UNCHANGED <<seen, last>>
<1>0. Types /\ Known /\ Waiting /\ pubs[p] \in PubStates /\ counter \in Nat /\ pubs \in [Publishers -> PubStates]
  BY DEF PagesInv, Types
<1>1. CASE TakeNumber(p)
  <2>1. /\ counter' = counter + 1 /\ pubs' = [pubs EXCEPT ![p] = [at |-> "numbered", seq |-> counter + 1]]
        /\ UNCHANGED <<timeline, channel, requests, inbox, gateway, browser>> /\ disturbed' \in BOOLEAN
    BY <1>1, <1>0 DEF TakeNumber, link, Types
  <2>2. [at |-> "numbered", seq |-> counter + 1] \in PubStates
    BY <1>0 DEF PubStates
  <2>3. Types'
    BY <1>0, <2>1, <2>2 DEF Types, gateway, browser
  <2>4. /\ pubs'[p].at = "numbered" /\ pubs'[p].seq = counter + 1
        /\ \A q \in Publishers \ {p} : pubs'[q] = pubs[q]
    BY <1>0, <2>1
  <2>5. Known'
    BY <1>0, <2>1, <2>4 DEF Known, Stored, gateway
  <2>6. Waiting'
    BY <1>0, <2>1, WaitingSame DEF gateway
  <2> QED BY <2>1, <2>3, <2>5, <2>6, PublisherKeeps DEF Stored, browser
<1>2. CASE AppendTimeline(p)
  <2>1. /\ timeline' = Append(timeline, pubs[p].seq) /\ pubs' = [pubs EXCEPT ![p].at = "appended"]
        /\ UNCHANGED <<counter, channel, requests, inbox, gateway, browser, disturbed>>
        /\ pubs[p].at = "numbered"
    BY <1>2 DEF AppendTimeline, link
  <2>2. /\ pubs[p].seq \in Nat /\ pubs'[p] = [at |-> "appended", seq |-> pubs[p].seq]
        /\ pubs'[p] \in PubStates /\ \A q \in Publishers \ {p} : pubs'[q] = pubs[q]
    BY <1>0, <2>1 DEF PubStates, Idle
  <2>3. /\ timeline' \in Seq(Nat) /\ DOMAIN timeline' = 1 .. Len(timeline) + 1
        /\ Len(timeline) \in Nat /\ timeline'[Len(timeline) + 1] = pubs[p].seq
        /\ \A i \in DOMAIN timeline : i \in DOMAIN timeline' /\ timeline'[i] = timeline[i]
        /\ \A i \in DOMAIN timeline' : i \in DOMAIN timeline \/ timeline'[i] = pubs[p].seq
    BY <1>0, <2>1, <2>2, AppendIs DEF Types
  <2>4. Stored' = Stored \cup {pubs[p].seq}
    <3>1. Len(timeline) + 1 \in DOMAIN timeline'
      BY <2>3
    <3> QED BY <2>3, <3>1 DEF Stored, ToSet
  <2>5. Types'
    <3>1. pubs' \in [Publishers -> PubStates]
      BY <1>0, <2>1, <2>2
    <3> QED BY <1>0, <2>1, <2>3, <3>1 DEF Types, gateway, browser
  <2>6. pubs'[p].at = "appended" /\ pubs'[p].seq \in Stored' /\ pubs[p].seq \in 1 .. counter
    BY <1>0, <2>1, <2>2, <2>4 DEF Known
  <2>7. Known'
    BY <1>0, <2>1, <2>2, <2>4, <2>6 DEF Known, gateway
  <2>8. Waiting'
    BY <1>0, <2>1, WaitingSame DEF gateway
  <2> QED BY <2>1, <2>4, <2>5, <2>7, <2>8, PublisherKeeps DEF browser
<1>3. CASE Publish(p)
  <2> DEFINE m == [kind |-> "event", seq |-> pubs[p].seq]
  <2>1. /\ inbox' = IF channel THEN Append(inbox, m) ELSE inbox
        /\ pubs' = [pubs EXCEPT ![p] = Idle] /\ pubs[p].at = "appended"
        /\ UNCHANGED <<counter, timeline, channel, requests, gateway, browser, disturbed>>
    BY <1>3 DEF Publish
  <2>2. m \in Messages /\ m.kind = "event" /\ m.seq \in Stored /\ Idle \in PubStates
    BY <1>0, <2>1 DEF PubStates, Idle, Messages, Known
  <2> HIDE DEF m
  <2>3. /\ inbox' \in Seq(Messages)
        /\ \A i \in DOMAIN inbox' : (i \in DOMAIN inbox /\ inbox'[i] = inbox[i]) \/ inbox'[i] = m
    <3>1. inbox \in Seq(Messages)
      BY <1>0 DEF Types
    <3> QED BY <2>1, <2>2, <3>1, AppendIs
  <2>4. Types'
    <3>1. pubs' \in [Publishers -> PubStates]
      BY <1>0, <2>1, <2>2
    <3> QED BY <1>0, <2>1, <2>3, <3>1 DEF Types, gateway, browser
  <2>5. Known'
    <3>1. pubs'[p].at = "idle" /\ \A q \in Publishers \ {p} : pubs'[q] = pubs[q]
      BY <1>0, <2>1 DEF Idle
    <3> QED BY <1>0, <2>1, <2>2, <2>3, <3>1 DEF Known, Stored, gateway
  <2>6. Waiting'
    <3>1. \A c \in Conns : \A i \in DOMAIN inbox' : Answered(c, i)' => i \in DOMAIN inbox /\ Answered(c, i)
      BY <2>2, <2>3 DEF Answered
    <3> QED BY <1>0, <2>1, <3>1 DEF Waiting, Asked, gateway
  <2> QED BY <2>1, <2>4, <2>5, <2>6, PublisherKeeps DEF Stored, browser
<1>4. CASE PublisherDies(p)
  <2>1. /\ pubs' = [pubs EXCEPT ![p] = Idle] /\ disturbed' = TRUE
        /\ UNCHANGED <<counter, timeline, channel, requests, inbox, gateway, browser>>
    BY <1>4 DEF PublisherDies, redis, link
  <2>2. Idle \in PubStates
    BY DEF PubStates
  <2>3. Types'
    BY <1>0, <2>1, <2>2 DEF Types, gateway, browser
  <2>4. pubs'[p].at = "idle" /\ \A q \in Publishers \ {p} : pubs'[q] = pubs[q]
    BY <1>0, <2>1 DEF Idle
  <2>5. Known'
    BY <1>0, <2>1, <2>4 DEF Known, Stored, gateway
  <2>6. Waiting'
    BY <1>0, <2>1, WaitingSame DEF gateway
  <2> QED BY <2>1, <2>3, <2>5, <2>6, PublisherKeeps DEF Stored, browser
<1> QED BY <1>1, <1>2, <1>3, <1>4

-----------------------------------------------------------------------------
(* Redis and the gateway's subscriber.                                      *)

LEMMA RedisKeeps ==
  ASSUME PagesInv, UNCHANGED <<gateway, browser, timeline>>, Types', Known', Waiting'
  PROVE  PagesInv' /\ UNCHANGED <<seen, last>>
<1>1. \A c \in Conns : ConnFits(c)'
  BY ConnSame DEF PagesInv, gateway, browser
<1>2. \A u \in Users : PageFits(u)'
  BY PagesSame DEF PagesInv, browser, Stored
<1>3. OneOpen'
  BY DEF PagesInv, OneOpen, browser
<1> QED BY <1>1, <1>2, <1>3 DEF PagesInv, browser

LEMMA RedisStep ==
  ASSUME PagesInv, RedisExecutes
  PROVE  PagesInv' /\ UNCHANGED <<seen, last>>
<1>0. /\ Types /\ Known /\ Waiting /\ requests \in Seq(Commands) /\ inbox \in Seq(Messages)
      /\ requests # <<>> /\ requests' = Tail(requests)
      /\ channel' = (requests[1].kind = "subscribe")
      /\ inbox' = IF requests[1].kind = "subscribe"
                  THEN Append(inbox, [kind |-> "subscribed", conn |-> requests[1].conn]) ELSE inbox
      /\ UNCHANGED <<counter, pubs, timeline, gateway, browser, disturbed>>
  BY DEF PagesInv, Types, RedisExecutes, redis
<1>1. /\ Tail(requests) \in Seq(Commands) /\ requests[1] \in Commands /\ 1 \in DOMAIN requests
      /\ \A i \in DOMAIN requests' : i \in Nat /\ i + 1 \in DOMAIN requests /\ i + 1 # 1 /\ requests'[i] = requests[i + 1]
      /\ \A i, j \in DOMAIN requests' : i + 1 = j + 1 => i = j
  BY <1>0, TailIs
<1> DEFINE m == [kind |-> "subscribed", conn |-> requests[1].conn]
<1>2. CASE requests[1].kind # "subscribe"
  <2>1. Types'
    BY <1>0, <1>1, <1>2 DEF Types, gateway, browser
  <2>2. Known'
    BY <1>0, <1>2 DEF Known, Stored, gateway
  <2>3. \A c \in Conns : \A i \in DOMAIN requests' : Asked(c, i)' => Asked(c, i + 1)
    BY <1>1 DEF Asked
  <2>4. \A c \in Conns : \A i \in DOMAIN inbox' : i \in DOMAIN inbox /\ (Answered(c, i)' => Answered(c, i))
    BY <1>0, <1>2 DEF Answered
  <2>5. Waiting'
    BY <1>0, <1>1, <1>2, <2>3, <2>4 DEF Waiting, gateway
  <2> QED BY <1>0, <2>1, <2>2, <2>5, RedisKeeps
<1>3. CASE requests[1].kind = "subscribe"
  <2>1. m \in Messages /\ m.kind = "subscribed" /\ m.conn = requests[1].conn /\ m.conn \in Conns
    BY <1>1, <1>3 DEF Commands, Messages
  <2> HIDE DEF m
  <2>2. /\ inbox' = Append(inbox, m) /\ inbox' \in Seq(Messages)
        /\ \A i \in DOMAIN inbox' : \/ i \in DOMAIN inbox /\ inbox'[i] = inbox[i]
                                    \/ i = Len(inbox) + 1 /\ inbox'[i] = m
    BY <1>0, <1>3, <2>1, AppendIs DEF m
  <2>3. Types'
    BY <1>0, <1>1, <1>3, <2>2 DEF Types, gateway, browser
  <2>4. Known'
    BY <1>0, <2>1, <2>2 DEF Known, Stored, gateway
  <2>5. \A c \in Conns : \A i \in DOMAIN requests' : Asked(c, i)' => Asked(c, i + 1)
    BY <1>1 DEF Asked
  <2>6. \A c \in Conns : \A i \in DOMAIN inbox' : Answered(c, i)' =>
          (i \in DOMAIN inbox /\ Answered(c, i)) \/ (i = Len(inbox) + 1 /\ Asked(c, 1))
    BY <1>3, <2>1, <2>2 DEF Answered, Asked
  <2>7. ASSUME NEW c \in Conns
        PROVE  /\ \A i \in DOMAIN requests' : Asked(c, i)' => task'[c].at = "subscribing"
               /\ \A i \in DOMAIN inbox' : Answered(c, i)' => task'[c].at = "subscribing"
               /\ \A i, j \in DOMAIN requests' : Asked(c, i)' /\ Asked(c, j)' => i = j
               /\ \A i, j \in DOMAIN inbox' : Answered(c, i)' /\ Answered(c, j)' => i = j
               /\ \A i \in DOMAIN requests', j \in DOMAIN inbox' : ~(Asked(c, i)' /\ Answered(c, j)')
    <3>1. /\ \A i \in DOMAIN requests : Asked(c, i) => task[c].at = "subscribing"
          /\ \A i \in DOMAIN inbox : Answered(c, i) => task[c].at = "subscribing"
          /\ \A i, j \in DOMAIN requests : Asked(c, i) /\ Asked(c, j) => i = j
          /\ \A i, j \in DOMAIN inbox : Answered(c, i) /\ Answered(c, j) => i = j
          /\ \A i \in DOMAIN requests, j \in DOMAIN inbox : ~(Asked(c, i) /\ Answered(c, j))
      BY <1>0 DEF Waiting
    <3> QED BY <1>0, <1>1, <2>5, <2>6, <3>1 DEF gateway
  <2>8. Waiting'
    BY <2>7 DEF Waiting
  <2> QED BY <1>0, <2>3, <2>4, <2>8, RedisKeeps
<1> QED BY <1>2, <1>3

(* What a step of Broadcast does: those it reaches have the event.          *)
Reached(e, slow) ==
  {c \in Conns : Accepts(c, e) /\ ~sub[c].buffering /\ socket[c] # "closed"} \ slow

Hears(e, slow) ==
  /\ e \in Stored /\ e \in Nat /\ inbox # <<>> /\ inbox[1].kind = "event" /\ inbox[1].seq = e /\ inbox' = Tail(inbox)
  /\ UNCHANGED <<redis, channel, requests, refCount, clients, scanClients, task, disturbed>>
  /\ sub' \in [Conns -> Subs] /\ socket' \in [Conns -> {"unused", "open", "broken", "closed"}]
  /\ \A c \in Conns :
       /\ sub'[c].live = sub[c].live /\ sub'[c].buffering = sub[c].buffering
       /\ sub'[c].last = IF c \in Reached(e, slow) THEN e ELSE sub[c].last
       /\ sub'[c].buffer = IF Accepts(c, e) /\ sub[c].buffering THEN sub[c].buffer \cup {e} ELSE sub[c].buffer
       /\ socket'[c] = IF c \in slow THEN "closed" ELSE socket[c]
       /\ c \in slow => Accepts(c, e) /\ socket[c] # "closed"
       /\ ~Accepts(c, e) => sub'[c] = sub[c]
  /\ seen' \in [Users -> Seq(Nat)] /\ last' \in [Users -> Nat]
  /\ \A u \in Users : PageFits(u)' /\ IsPrefix(seen[u], seen'[u])
  /\ \A c \in Conns : socket[c] = "open" =>
       IF c \in Reached(e, slow)
       THEN ToSet(seen'[Owner[c]]) = ToSet(seen[Owner[c]]) \cup {e} /\ last'[Owner[c]] = e
       ELSE seen'[Owner[c]] = seen[Owner[c]] /\ last'[Owner[c]] = last[Owner[c]]
  /\ \A u \in Users : \/ seen'[u] = seen[u] /\ last'[u] = last[u]
                      \/ \E c \in Reached(e, slow) : socket[c] = "open" /\ Owner[c] = u

LEMMA One ==
  ASSUME NEW e \in Nat
  PROVE  <<e>> \in Seq(Nat) /\ Sorted(<<e>>) /\ ToSet(<<e>>) = {e} /\ LastOf(<<e>>) = e /\ <<e>> # <<>>
<1>1. <<e>> \in Seq(Nat) /\ Len(<<e>>) = 1 /\ DOMAIN <<e>> = {1} /\ <<e>>[1] = e
  OBVIOUS
<1>2. <<e>> # <<>>
  OBVIOUS
<1>3. Sorted(<<e>>)
  BY <1>1 DEF Sorted
<1>4. ToSet(<<e>>) = {e}
  BY <1>1 DEF ToSet
<1> QED BY <1>1, <1>2, <1>3, <1>4 DEF LastOf

LEMMA BroadcastIs ==
  ASSUME PagesInv, NEW slow \in SUBSET Conns, Broadcast(slow)
  PROVE  Hears(inbox[1].seq, slow)
<1> DEFINE e == inbox[1].seq
           direct == {c \in Conns : Accepts(c, e) /\ ~sub[c].buffering /\ socket[c] # "closed"}
           s == [c \in Conns |-> IF c \in direct \ slow THEN <<e>> ELSE <<>>]
<1>0. /\ Types /\ Known /\ OneOpen /\ (\A c \in Conns : ConnFits(c)) /\ (\A u \in Users : PageFits(u))
      /\ sub \in [Conns -> Subs] /\ inbox \in Seq(Messages)
      /\ inbox # <<>> /\ inbox[1].kind = "event" /\ inbox' = Tail(inbox)
      /\ UNCHANGED <<redis, channel, requests, refCount, clients, scanClients, task, disturbed>>
      /\ slow \subseteq direct
      /\ sub' = [c \in Conns |->
           IF c \in direct \ slow THEN [sub[c] EXCEPT !.last = e]
           ELSE IF Accepts(c, e) /\ sub[c].buffering
           THEN [sub[c] EXCEPT !.buffer = sub[c].buffer \cup {e}]
           ELSE sub[c]]
      /\ Show(s)
      /\ socket' = [c \in Conns |-> IF c \in slow THEN "closed" ELSE socket[c]]
  BY DEF PagesInv, Types, Broadcast
<1>1. e \in Stored /\ e \in Nat
  <2>1. 1 \in DOMAIN inbox
    BY <1>0, TailIs
  <2>2. inbox[1].seq \in Stored
    BY <1>0, <2>1 DEF Known
  <2> QED BY <1>0, <2>2 DEF Known, Types
<1>r. Reached(e, slow) = direct \ slow
  BY DEF Reached
<1> HIDE DEF e
<1>2. /\ <<e>> \in Seq(Nat) /\ Sorted(<<e>>) /\ ToSet(<<e>>) = {e} /\ LastOf(<<e>>) = e /\ <<e>> # <<>>
      /\ <<>> \in Seq(Nat)
  BY <1>1, One
<1>3. \A c \in Conns : s[c] = IF c \in direct \ slow THEN <<e>> ELSE <<>>
  OBVIOUS
<1>4. \A c \in Conns : c \in direct => Accepts(c, e)
  OBVIOUS
<1>5. s \in [Conns -> Seq(Nat)]
  BY <1>2
<1>6. ASSUME NEW c \in Conns
      PROVE  /\ sub'[c] \in Subs
             /\ sub'[c].live = sub[c].live /\ sub'[c].buffering = sub[c].buffering
             /\ sub'[c].last = IF c \in direct \ slow THEN e ELSE sub[c].last
             /\ sub'[c].buffer = IF Accepts(c, e) /\ sub[c].buffering THEN sub[c].buffer \cup {e} ELSE sub[c].buffer
             /\ ~Accepts(c, e) => sub'[c] = sub[c]
  <2>1. sub[c] \in Subs
    BY <1>0
  <2>2. CASE c \in direct \ slow
    <3>1. sub'[c] = [sub[c] EXCEPT !.last = e] /\ ~sub[c].buffering /\ Accepts(c, e)
      BY <1>0, <2>2
    <3>2. sub'[c] = [last |-> e, buffering |-> sub[c].buffering, buffer |-> sub[c].buffer, live |-> sub[c].live]
      BY <2>1, <3>1 DEF Subs
    <3> QED BY <1>1, <2>1, <2>2, <3>1, <3>2 DEF Subs
  <2>3. CASE c \notin direct \ slow /\ Accepts(c, e) /\ sub[c].buffering
    <3>1. sub'[c] = [sub[c] EXCEPT !.buffer = sub[c].buffer \cup {e}]
      BY <1>0, <2>3
    <3>2. sub'[c] = [last |-> sub[c].last, buffering |-> sub[c].buffering,
                     buffer |-> sub[c].buffer \cup {e}, live |-> sub[c].live]
      BY <2>1, <3>1 DEF Subs
    <3> QED BY <1>1, <2>1, <2>3, <3>2 DEF Subs
  <2>4. CASE c \notin direct \ slow /\ ~(Accepts(c, e) /\ sub[c].buffering)
    BY <1>0, <2>1, <2>4
  <2> QED BY <2>2, <2>3, <2>4
<1>7. sub' \in [Conns -> Subs]
  <2>1. sub' = [c \in Conns |-> sub'[c]]
    BY <1>0
  <2> QED BY <1>6, <2>1
<1>8. socket' \in [Conns -> {"unused", "open", "broken", "closed"}]
  BY <1>0 DEF Types
<1>9. Sends(s)
  <2>1. ASSUME NEW c \in Conns, socket[c] = "open", s[c] # <<>>
        PROVE  Sorted(s[c]) /\ ToSet(s[c]) \subseteq Stored /\ \A x \in ToSet(s[c]) : last[Owner[c]] < x
    <3>1. s[c] = <<e>> /\ Accepts(c, e)
      BY <1>3, <1>4, <2>1
    <3>2. sub[c].live /\ sub[c].last < e /\ sub[c].last = last[Owner[c]]
      BY <1>0, <2>1, <3>1 DEF Accepts, ConnFits
    <3> QED BY <1>1, <1>2, <3>1, <3>2
  <2> HIDE DEF s
  <2> QED BY <1>5, <2>1 DEF Sends
<1>10. /\ seen' \in [Users -> Seq(Nat)] /\ last' \in [Users -> Nat]
       /\ \A u \in Users : /\ Sorted(seen'[u]) /\ last'[u] = LastOf(seen'[u])
                           /\ ToSet(seen'[u]) \subseteq Stored /\ IsPrefix(seen[u], seen'[u])
       /\ \A c \in Conns : socket[c] = "open" /\ s[c] # <<>> =>
            /\ ToSet(seen'[Owner[c]]) = ToSet(seen[Owner[c]]) \cup ToSet(s[c])
            /\ last'[Owner[c]] = LastOf(s[c])
       /\ \A u \in Users : (\A c \in Conns : Owner[c] = u /\ socket[c] = "open" => s[c] = <<>>) =>
            seen'[u] = seen[u] /\ last'[u] = last[u]
  <2> HIDE DEF s
  <2> QED BY <1>0, <1>9, ShowIs
<1>11. \A u \in Users : PageFits(u)' /\ IsPrefix(seen[u], seen'[u])
  BY <1>0, <1>10 DEF PageFits, Stored, redis
<1>12. ASSUME NEW c \in Conns, socket[c] = "open"
       PROVE  IF c \in direct \ slow
              THEN ToSet(seen'[Owner[c]]) = ToSet(seen[Owner[c]]) \cup {e} /\ last'[Owner[c]] = e
              ELSE seen'[Owner[c]] = seen[Owner[c]] /\ last'[Owner[c]] = last[Owner[c]]
  <2>1. CASE c \in direct \ slow
    <3>1. s[c] = <<e>>
      BY <1>3, <2>1
    <3> HIDE DEF s, direct
    <3> QED BY <1>2, <1>10, <1>12, <2>1, <3>1
  <2>2. CASE c \notin direct \ slow
    <3>1. \A d \in Conns : Owner[d] = Owner[c] /\ socket[d] = "open" => s[d] = <<>>
      BY <1>0, <1>3, <1>12, <2>2 DEF OneOpen
    <3>2. Owner[c] \in Users
      BY RealtimeAssumption
    <3> HIDE DEF s, direct
    <3> QED BY <1>10, <2>2, <3>1, <3>2
  <2> QED BY <2>1, <2>2
<1>13. ASSUME NEW u \in Users
       PROVE  \/ seen'[u] = seen[u] /\ last'[u] = last[u]
              \/ \E c \in direct \ slow : socket[c] = "open" /\ Owner[c] = u
  <2>1. CASE \E c \in direct \ slow : socket[c] = "open" /\ Owner[c] = u
    BY <2>1
  <2>2. CASE ~\E c \in direct \ slow : socket[c] = "open" /\ Owner[c] = u
    <3>1. \A d \in Conns : Owner[d] = u /\ socket[d] = "open" => s[d] = <<>>
      BY <1>3, <2>2
    <3> HIDE DEF s, direct
    <3> QED BY <1>10, <3>1
  <2> QED BY <2>1, <2>2
<1>14. \A c \in Conns : /\ socket'[c] = IF c \in slow THEN "closed" ELSE socket[c]
                        /\ c \in slow => Accepts(c, e) /\ socket[c] # "closed"
  BY <1>0
<1> HIDE DEF direct, s
<1>e. inbox[1].seq = e
  BY DEF e
<1>15. /\ \A c \in Conns : sub'[c].last = IF c \in Reached(e, slow) THEN e ELSE sub[c].last
       /\ \A c \in Conns : socket[c] = "open" =>
            IF c \in Reached(e, slow)
            THEN ToSet(seen'[Owner[c]]) = ToSet(seen[Owner[c]]) \cup {e} /\ last'[Owner[c]] = e
            ELSE seen'[Owner[c]] = seen[Owner[c]] /\ last'[Owner[c]] = last[Owner[c]]
       /\ \A u \in Users : \/ seen'[u] = seen[u] /\ last'[u] = last[u]
                           \/ \E c \in Reached(e, slow) : socket[c] = "open" /\ Owner[c] = u
  BY <1>r, <1>6, <1>12, <1>13
<1>16. Hears(e, slow)
  BY <1>0, <1>1, <1>e, <1>6, <1>7, <1>8, <1>10, <1>11, <1>14, <1>15 DEF Hears
<1> QED BY <1>16 DEF e

LEMMA HeardKeeps ==
  ASSUME PagesInv, NEW slow \in SUBSET Conns, NEW e, Hears(e, slow)
  PROVE  PagesInv' /\ \A u \in Users : IsPrefix(seen[u], seen'[u])
<1>0. /\ Types /\ Known /\ Waiting /\ OneOpen /\ \A c \in Conns : ConnFits(c)
      /\ inbox \in Seq(Messages) /\ inbox # <<>> /\ inbox' = Tail(inbox)
      /\ UNCHANGED <<redis, channel, requests, refCount, clients, scanClients, task, disturbed>>
      /\ sub' \in [Conns -> Subs] /\ socket' \in [Conns -> {"unused", "open", "broken", "closed"}]
      /\ seen' \in [Users -> Seq(Nat)] /\ last' \in [Users -> Nat]
      /\ e \in Stored /\ e \in Nat
  BY DEF PagesInv, Types, Hears
<1>h. \A d \in Conns :
       /\ sub'[d].live = sub[d].live /\ sub'[d].buffering = sub[d].buffering
       /\ sub'[d].last = IF d \in Reached(e, slow) THEN e ELSE sub[d].last
       /\ sub'[d].buffer = IF Accepts(d, e) /\ sub[d].buffering THEN sub[d].buffer \cup {e} ELSE sub[d].buffer
       /\ socket'[d] = IF d \in slow THEN "closed" ELSE socket[d]
       /\ d \in slow => Accepts(d, e) /\ socket[d] # "closed"
       /\ ~Accepts(d, e) => sub'[d] = sub[d]
  BY Zenon DEF Hears
<1>o. \A d \in Conns : socket[d] = "open" =>
       IF d \in Reached(e, slow)
       THEN ToSet(seen'[Owner[d]]) = ToSet(seen[Owner[d]]) \cup {e} /\ last'[Owner[d]] = e
       ELSE seen'[Owner[d]] = seen[Owner[d]] /\ last'[Owner[d]] = last[Owner[d]]
  BY Zenon DEF Hears
<1>1. /\ Tail(inbox) \in Seq(Messages)
      /\ \A i \in DOMAIN inbox' : i \in Nat /\ i + 1 \in DOMAIN inbox /\ inbox'[i] = inbox[i + 1]
      /\ \A i, j \in DOMAIN inbox' : i + 1 = j + 1 => i = j
  BY <1>0, TailIs
<1>2. Types'
  BY <1>0, <1>1 DEF Types, redis
<1>3. Known'
  <2>1. \A c \in Conns : sub'[c].buffer \subseteq sub[c].buffer \cup {e}
    BY <1>h
  <2> QED BY <1>0, <1>1, <2>1 DEF Known, Stored, redis
<1>4. Waiting'
  <2>1. \A c \in Conns : \A i \in DOMAIN inbox' : Answered(c, i)' => i + 1 \in DOMAIN inbox /\ Answered(c, i + 1)
    BY <1>1 DEF Answered
  <2> QED BY <1>0, <1>1, <2>1 DEF Waiting, Asked
<1>5. OneOpen'
  <2>1. \A c \in Conns : socket'[c] = "open" => socket[c] = "open"
    BY <1>h
  <2> QED BY <1>0, <2>1 DEF OneOpen
<1>6. ASSUME NEW c \in Conns PROVE ConnFits(c)'
  <2>1. /\ sub'[c].live = sub[c].live /\ sub'[c].buffering = sub[c].buffering
        /\ sub'[c].last = IF c \in Reached(e, slow) THEN e ELSE sub[c].last
        /\ socket'[c] = IF c \in slow THEN "closed" ELSE socket[c]
        /\ c \in slow => Accepts(c, e) /\ socket[c] # "closed"
        /\ ~Accepts(c, e) => sub'[c] = sub[c]
    BY <1>h
  <2>4. socket[c] = "open" => last'[Owner[c]] = IF c \in Reached(e, slow) THEN e ELSE last[Owner[c]]
    BY <1>o
  <2>2. c \in Reached(e, slow) => c \in clients /\ sub[c].live /\ ~sub[c].buffering
    BY DEF Reached, Accepts
  <2>3. ConnFits(c) /\ (Accepts(c, e) => c \in clients)
    BY <1>0 DEF Accepts
  <2> QED BY <1>0, <2>1, <2>2, <2>3, <2>4 DEF ConnFits
<1> QED BY <1>2, <1>3, <1>4, <1>5, <1>6 DEF PagesInv, Hears

LEMMA TaskFacts ==
  ASSUME Types, NEW c \in Conns
  PROVE  /\ task[c].at \in Ways => task[c].existing \in BOOLEAN /\ task[c].from \in Nat
         /\ task[c].at = "loaded" => task[c].existing \in BOOLEAN /\ task[c].events \in SUBSET Nat
         /\ task[c].at = "idle" <=> task[c] = Idle
         /\ task[c].at \in Ways \cup {"idle", "loaded"}
BY DEF Types, Tasks, Ways, Idle

(* A subscription is installed with what its page has.                      *)
LEMMA InstallKeeps ==
  ASSUME PagesInv, NEW c \in Conns, NEW from \in Nat, Install(c, from),
         task[c].at \in {"authorizing", "subscribing"},
         socket[c] = "open" => from = last[Owner[c]],
         UNCHANGED <<redis, clients, browser>>, Waiting',
         channel' \in BOOLEAN, requests' \in Seq(Commands), inbox' \in Seq(Messages), refCount' \in Nat,
         disturbed' \in BOOLEAN,
         \A i \in DOMAIN inbox' : inbox'[i].kind = "event" => inbox'[i].seq \in Stored
  PROVE  PagesInv' /\ UNCHANGED <<seen, last>>
<1>0. /\ Types /\ Known /\ OneOpen /\ (\A d \in Conns : ConnFits(d)) /\ (\A u \in Users : PageFits(u))
      /\ sub \in [Conns -> Subs] /\ task \in [Conns -> Tasks]
  BY DEF PagesInv, Types
<1>1. task[c].existing \in BOOLEAN
  BY <1>0, TaskFacts DEF Ways
<1>2. /\ sub' = [sub EXCEPT ![c] = [last |-> from, buffering |-> TRUE, buffer |-> {}, live |-> TRUE]]
      /\ scanClients' = scanClients \cup {c}
      /\ task' = [task EXCEPT ![c] = [at |-> "loading", existing |-> task[c].existing, from |-> from]]
  BY DEF Install
<1>3. /\ [last |-> from, buffering |-> TRUE, buffer |-> {}, live |-> TRUE] \in Subs
      /\ [at |-> "loading", existing |-> task[c].existing, from |-> from] \in Tasks
  BY <1>1 DEF Subs, Tasks, Ways
<1>4. Types'
  BY <1>0, <1>2, <1>3 DEF Types, redis, browser
<1>5. /\ sub'[c] = [last |-> from, buffering |-> TRUE, buffer |-> {}, live |-> TRUE]
      /\ task'[c] = [at |-> "loading", existing |-> task[c].existing, from |-> from]
      /\ \A d \in Conns \ {c} : sub'[d] = sub[d] /\ task'[d] = task[d]
  BY <1>0, <1>2
<1>6. Known'
  BY <1>0, <1>5 DEF Known, Stored, redis
<1>7. ASSUME NEW d \in Conns PROVE ConnFits(d)'
  <2>1. CASE d = c
    <3>1. ConnFits(c) /\ task[c] # Idle
      BY <1>0 DEF Idle
    <3> QED BY <1>2, <1>5, <2>1, <3>1 DEF ConnFits, browser
  <2>2. CASE d # c
    BY <1>0, <1>2, <1>5, <2>2, ConnSame DEF browser
  <2> QED BY <2>1, <2>2
<1>8. (\A u \in Users : PageFits(u)') /\ OneOpen'
  BY <1>0, PagesSame DEF OneOpen, browser, redis, Stored
<1> QED BY <1>4, <1>6, <1>7, <1>8 DEF PagesInv, browser

LEMMA SubscribedKeeps ==
  ASSUME PagesInv, Subscribed
  PROVE  PagesInv' /\ UNCHANGED <<seen, last>>
<1> DEFINE c == inbox[1].conn
<1>0. /\ Types /\ Known /\ Waiting /\ (\A d \in Conns : ConnFits(d))
      /\ inbox \in Seq(Messages) /\ inbox # <<>> /\ inbox[1].kind = "subscribed" /\ inbox' = Tail(inbox)
      /\ refCount' = 1 /\ Install(c, task[c].from)
      /\ UNCHANGED <<redis, channel, requests, clients, browser, disturbed>>
  BY DEF PagesInv, Types, Subscribed
<1>1. /\ Tail(inbox) \in Seq(Messages) /\ inbox[1] \in Messages /\ 1 \in DOMAIN inbox
      /\ \A i \in DOMAIN inbox' : i \in Nat /\ i + 1 \in DOMAIN inbox /\ i + 1 # 1 /\ inbox'[i] = inbox[i + 1]
      /\ \A i, j \in DOMAIN inbox' : i + 1 = j + 1 => i = j
  BY <1>0, TailIs
<1>2. c \in Conns /\ Answered(c, 1)
  BY <1>0, <1>1 DEF Messages, Answered
<1> HIDE DEF c
<1>3. task[c].at = "subscribing" /\ task[c].from \in Nat
  BY <1>0, <1>1, <1>2, TaskFacts DEF Waiting, Ways
<1>4. socket[c] = "open" => task[c].from = last[Owner[c]]
  BY <1>0, <1>2, <1>3 DEF ConnFits
<1>5. \A d \in Conns \ {c} : task'[d] = task[d]
  BY <1>0 DEF Install, Types
<1>6. ASSUME NEW d \in Conns
      PROVE  /\ \A i \in DOMAIN requests' : Asked(d, i)' => task'[d].at = "subscribing"
             /\ \A i \in DOMAIN inbox' : Answered(d, i)' => task'[d].at = "subscribing"
             /\ \A i, j \in DOMAIN requests' : Asked(d, i)' /\ Asked(d, j)' => i = j
             /\ \A i, j \in DOMAIN inbox' : Answered(d, i)' /\ Answered(d, j)' => i = j
             /\ \A i \in DOMAIN requests', j \in DOMAIN inbox' : ~(Asked(d, i)' /\ Answered(d, j)')
  <2>1. \A i \in DOMAIN inbox' : Answered(d, i)' => i + 1 \in DOMAIN inbox /\ Answered(d, i + 1)
    BY <1>1 DEF Answered
  <2>2. \A i \in DOMAIN requests' : i \in DOMAIN requests /\ (Asked(d, i)' <=> Asked(d, i))
    BY <1>0 DEF Asked
  <2>3. CASE d = c
    <3>1. \A i \in DOMAIN requests' : ~Asked(d, i)'
      BY <1>0, <1>1, <1>2, <2>2, <2>3 DEF Waiting
    <3>2. \A i \in DOMAIN inbox' : ~Answered(d, i)'
      BY <1>0, <1>1, <1>2, <2>1, <2>3 DEF Waiting
    <3> QED BY <3>1, <3>2
  <2>4. CASE d # c
    <3>1. /\ \A i \in DOMAIN requests : Asked(d, i) => task[d].at = "subscribing"
          /\ \A i \in DOMAIN inbox : Answered(d, i) => task[d].at = "subscribing"
          /\ \A i, j \in DOMAIN requests : Asked(d, i) /\ Asked(d, j) => i = j
          /\ \A i, j \in DOMAIN inbox : Answered(d, i) /\ Answered(d, j) => i = j
          /\ \A i \in DOMAIN requests, j \in DOMAIN inbox : ~(Asked(d, i) /\ Answered(d, j))
      BY <1>0 DEF Waiting
    <3>2. task'[d] = task[d]
      BY <1>5, <2>4
    <3> QED BY <1>1, <2>1, <2>2, <3>1, <3>2
  <2> QED BY <2>3, <2>4
<1>7. Waiting'
  BY <1>6 DEF Waiting
<1>8. \A i \in DOMAIN inbox' : inbox'[i].kind = "event" => inbox'[i].seq \in Stored
  BY <1>0, <1>1 DEF Known
<1>9. requests' \in Seq(Commands) /\ channel' \in BOOLEAN /\ disturbed' \in BOOLEAN /\ refCount' \in Nat
      /\ inbox' \in Seq(Messages)
  BY <1>0, <1>1 DEF Types
<1> QED BY <1>0, <1>2, <1>3, <1>4, <1>7, <1>8, <1>9, InstallKeeps

-----------------------------------------------------------------------------
(* The steps of one connection.                                             *)

LEMMA QuietKeeps ==
  ASSUME PagesInv, NEW c \in Conns, UNCHANGED <<redis, browser>>, Types', Known', Waiting', ConnFits(c)',
         \A d \in Conns \ {c} : /\ sub'[d] = sub[d] /\ task'[d] = task[d]
                                /\ d \in clients' <=> d \in clients
                                /\ d \in scanClients' <=> d \in scanClients
  PROVE  PagesInv' /\ UNCHANGED <<seen, last>>
<1>1. ASSUME NEW d \in Conns PROVE ConnFits(d)'
  <2>1. CASE d = c
    BY <2>1
  <2>2. CASE d # c
    BY <2>2, ConnSame DEF PagesInv, browser
  <2> QED BY <2>1, <2>2
<1>2. \A u \in Users : PageFits(u)'
  BY PagesSame DEF PagesInv, browser, redis, Stored
<1>3. OneOpen'
  BY DEF PagesInv, OneOpen, browser
<1> QED BY <1>1, <1>2, <1>3 DEF PagesInv, browser

LEMMA SubscribeKeeps ==
  ASSUME PagesInv, NEW c \in Conns, Subscribe(c)
  PROVE  PagesInv' /\ UNCHANGED <<seen, last>>
<1> DEFINE from == IF sub[c].live THEN sub[c].last ELSE last[Owner[c]]
           t == [at |-> "authorizing", existing |-> sub[c].live, from |-> from]
<1>0. /\ Types /\ Known /\ Waiting /\ ConnFits(c) /\ sub[c] \in Subs /\ Owner[c] \in Users
      /\ task \in [Conns -> Tasks] /\ last \in [Users -> Nat]
      /\ socket[c] = "open" /\ c \in clients /\ task[c] = Idle /\ task' = [task EXCEPT ![c] = t]
      /\ UNCHANGED <<redis, link, refCount, clients, scanClients, sub, browser, disturbed>>
  BY RealtimeAssumption DEF PagesInv, Types, Subscribe
<1>1. t \in Tasks /\ from \in Nat
  BY <1>0 DEF Tasks, Ways, Subs
<1>2. task'[c] = t /\ \A d \in Conns \ {c} : task'[d] = task[d]
  BY <1>0
<1>3. Types'
  BY <1>0, <1>1 DEF Types, redis, link, browser
<1>4. /\ task'[c].at = "authorizing" /\ task'[c].existing = sub[c].live
      /\ task'[c].from = IF sub[c].live THEN sub[c].last ELSE last[Owner[c]]
  BY <1>2
<1>5. Known'
  BY <1>0, <1>2, <1>4 DEF Known, Stored, redis, link
<1>6. task[c].at = "idle"
  BY <1>0 DEF Idle
<1>7. Waiting'
  BY <1>0, <1>2, <1>6, WaitingSame DEF link
<1>8. ConnFits(c)'
  BY <1>0, <1>4 DEF ConnFits, browser
<1> QED BY <1>0, <1>2, <1>3, <1>5, <1>7, <1>8, QuietKeeps

LEMMA RefusedKeeps ==
  ASSUME PagesInv, NEW c \in Conns, Refused(c)
  PROVE  PagesInv' /\ UNCHANGED <<seen, last>>
<1>0. /\ Types /\ Known /\ Waiting /\ ConnFits(c) /\ task \in [Conns -> Tasks]
      /\ task[c].at = "authorizing" /\ task' = [task EXCEPT ![c] = Idle]
      /\ UNCHANGED <<redis, link, refCount, clients, scanClients, sub, browser, disturbed>>
  BY DEF PagesInv, Types, Refused
<1>1. Idle \in Tasks /\ Idle.at = "idle"
  BY DEF Tasks, Idle
<1>2. task'[c] = Idle /\ \A d \in Conns \ {c} : task'[d] = task[d]
  BY <1>0
<1>3. Types'
  BY <1>0, <1>1 DEF Types, redis, link, browser
<1>4. Known'
  BY <1>0, <1>1, <1>2 DEF Known, Stored, redis, link
<1>5. Waiting'
  BY <1>0, <1>2, WaitingSame DEF link
<1>6. ConnFits(c)'
  BY <1>0, <1>1, <1>2 DEF ConnFits, browser
<1> QED BY <1>0, <1>2, <1>3, <1>4, <1>5, <1>6, QuietKeeps

LEMMA AuthorizedKeeps ==
  ASSUME PagesInv, NEW c \in Conns, Authorized(c)
  PROVE  PagesInv' /\ UNCHANGED <<seen, last>>
<1>0. /\ Types /\ Known /\ Waiting /\ ConnFits(c) /\ sub[c] \in Subs /\ task \in [Conns -> Tasks]
      /\ requests \in Seq(Commands) /\ inbox \in Seq(Messages) /\ refCount \in Nat
      /\ channel \in BOOLEAN /\ disturbed \in BOOLEAN
      /\ task[c].at = "authorizing"
      /\ UNCHANGED <<redis, channel, inbox, clients, browser>>
  BY DEF PagesInv, Types, Authorized
<1>1. task[c].existing \in BOOLEAN /\ task[c].from \in Nat
  BY <1>0, TaskFacts DEF Ways
<1>2. \A i \in DOMAIN inbox' : inbox'[i].kind = "event" => inbox'[i].seq \in Stored
  BY <1>0 DEF Known
<1>i. ASSUME NEW from \in Nat, Install(c, from), UNCHANGED requests PROVE Waiting'
  <2>1. \A d \in Conns : task[d].at = "subscribing" => task'[d].at = "subscribing"
    BY <1>0, <1>i DEF Install
  <2> QED BY <1>0, <1>i, <2>1, WaitingSame
<1>3. CASE /\ task[c].existing
           /\ Install(c, IF sub[c].live THEN sub[c].last ELSE task[c].from)
           /\ UNCHANGED <<refCount, requests, disturbed>>
  <2> DEFINE from == IF sub[c].live THEN sub[c].last ELSE task[c].from
  <2>1. from \in Nat
    BY <1>0, <1>1 DEF Subs
  <2>2. socket[c] = "open" => from = last[Owner[c]]
    BY <1>0, <1>3 DEF ConnFits
  <2>3. Install(c, from)
    BY <1>3
  <2> HIDE DEF from
  <2> QED BY <1>0, <1>2, <1>i, <1>3, <2>1, <2>2, <2>3, InstallKeeps
<1>4. CASE /\ ~task[c].existing /\ refCount > 0
           /\ refCount' = refCount + 1
           /\ Install(c, task[c].from)
           /\ UNCHANGED <<requests, disturbed>>
  <2>1. socket[c] = "open" => task[c].from = last[Owner[c]]
    BY <1>0, <1>4 DEF ConnFits
  <2>2. refCount' \in Nat
    BY <1>0, <1>4
  <2> QED BY <1>0, <1>1, <1>2, <1>i, <1>4, <2>1, <2>2, InstallKeeps
<1>5. CASE /\ ~task[c].existing /\ refCount = 0
           /\ requests' = Append(requests, [kind |-> "subscribe", conn |-> c])
           /\ task' = [task EXCEPT ![c].at = "subscribing"]
           /\ disturbed' = (disturbed \/ \E d \in Conns : task[d].at = "subscribing")
           /\ UNCHANGED <<refCount, sub, scanClients>>
  <2> DEFINE m == [kind |-> "subscribe", conn |-> c]
  <2>1. /\ task'[c] = [at |-> "subscribing", existing |-> FALSE, from |-> task[c].from]
        /\ task'[c] \in Tasks /\ \A d \in Conns \ {c} : task'[d] = task[d]
    <3>1. task[c] \in [at : Ways, existing : BOOLEAN, from : Nat]
      BY <1>0 DEF Tasks, Idle
    <3>2. task[c] = [at |-> "authorizing", existing |-> FALSE, from |-> task[c].from]
      BY <1>0, <1>5, <3>1
    <3>4. task'[c] = [task[c] EXCEPT !.at = "subscribing"]
      BY <1>0, <1>5
    <3>3. task'[c] = [at |-> "subscribing", existing |-> FALSE, from |-> task[c].from]
      <4>1. task'[c] = [at |-> "subscribing", existing |-> task[c].existing, from |-> task[c].from]
        BY <3>1, <3>4
      <4>2. task[c].existing = FALSE
        BY <3>2
      <4> QED BY <4>1, <4>2
    <3> QED BY <1>0, <1>1, <1>5, <3>3 DEF Tasks, Ways
  <2>2. task' \in [Conns -> Tasks]
    BY <1>0, <1>5, <2>1
  <2>3. m \in Commands /\ m.kind = "subscribe" /\ m.conn = c
    BY DEF Commands
  <2>4. /\ requests' \in Seq(Commands)
        /\ \A i \in DOMAIN requests' : \/ i \in DOMAIN requests /\ requests'[i] = requests[i]
                                       \/ i = Len(requests) + 1 /\ requests'[i] = m
    <3> HIDE DEF m
    <3>1. requests' = Append(requests, m)
      BY <1>5 DEF m
    <3> QED BY <1>0, <2>3, <3>1, AppendIs
  <2> HIDE DEF m
  <2>5. Types'
    BY <1>0, <1>5, <2>2, <2>4 DEF Types, redis, browser
  <2>6. Known'
    BY <1>0, <1>5, <2>1 DEF Known, Stored, redis
  <2>7. \A d \in Conns : \A i \in DOMAIN requests' : Asked(d, i)' =>
          (i \in DOMAIN requests /\ Asked(d, i)) \/ (i = Len(requests) + 1 /\ d = c)
    BY <2>3, <2>4 DEF Asked
  <2>8. \A d \in Conns : \A i \in DOMAIN inbox' : i \in DOMAIN inbox /\ (Answered(d, i)' => Answered(d, i))
    BY <1>0 DEF Answered
  <2>9. (\A i \in DOMAIN requests : ~Asked(c, i)) /\ (\A i \in DOMAIN inbox : ~Answered(c, i))
    BY <1>0 DEF Waiting
  <2>10. Waiting'
    <3>1. ASSUME NEW d \in Conns
          PROVE  /\ \A i \in DOMAIN requests' : Asked(d, i)' => task'[d].at = "subscribing"
                 /\ \A i \in DOMAIN inbox' : Answered(d, i)' => task'[d].at = "subscribing"
                 /\ \A i, j \in DOMAIN requests' : Asked(d, i)' /\ Asked(d, j)' => i = j
                 /\ \A i, j \in DOMAIN inbox' : Answered(d, i)' /\ Answered(d, j)' => i = j
                 /\ \A i \in DOMAIN requests', j \in DOMAIN inbox' : ~(Asked(d, i)' /\ Answered(d, j)')
      <4>1. /\ \A i \in DOMAIN requests : Asked(d, i) => task[d].at = "subscribing"
            /\ \A i \in DOMAIN inbox : Answered(d, i) => task[d].at = "subscribing"
            /\ \A i, j \in DOMAIN requests : Asked(d, i) /\ Asked(d, j) => i = j
            /\ \A i, j \in DOMAIN inbox : Answered(d, i) /\ Answered(d, j) => i = j
            /\ \A i \in DOMAIN requests, j \in DOMAIN inbox : ~(Asked(d, i) /\ Answered(d, j))
        BY <1>0 DEF Waiting
      <4>2. task'[d].at = IF d = c THEN "subscribing" ELSE task[d].at
        BY <2>1
      <4> QED BY <2>7, <2>8, <2>9, <4>1, <4>2
    <3> QED BY <3>1 DEF Waiting
  <2>11. ConnFits(c)'
    BY <1>0, <1>5, <2>1 DEF ConnFits, browser, Idle
  <2> QED BY <1>0, <1>5, <2>1, <2>5, <2>6, <2>10, <2>11, QuietKeeps
<1> QED BY <1>3, <1>4, <1>5 DEF Authorized

(* What the list holds in the window that is replayed.                      *)
Recent ==
  IF Len(timeline) <= ReplayMax THEN timeline
  ELSE SubSeq(timeline, Len(timeline) - ReplayMax + 1, Len(timeline))

LEMMA RecentIs ==
  ASSUME Types
  PROVE  /\ ToSet(Recent) \subseteq Stored
         /\ \A i \in DOMAIN timeline : Len(timeline) < i + ReplayMax => timeline[i] \in ToSet(Recent)
         /\ Len(timeline) \in Nat /\ DOMAIN timeline = 1 .. Len(timeline)
<1> DEFINE n == Len(timeline)
           w == SubSeq(timeline, n - ReplayMax + 1, n)
<1>1. n \in Nat /\ DOMAIN timeline = 1 .. n /\ timeline \in Seq(Nat) /\ ReplayMax \in Nat \ {0}
  BY LenProperties, RealtimeAssumption DEF Types
<1>2. CASE n <= ReplayMax
  BY <1>1, <1>2 DEF Recent, ToSet, Stored
<1>3. CASE ~(n <= ReplayMax)
  <2>1. n - ReplayMax + 1 \in 1 .. n + 1 /\ n \in n - ReplayMax .. n /\ \A i \in 1 .. n : timeline[i] \in Nat
    BY <1>1, <1>3, LenProperties
  <2>2. /\ DOMAIN w = 1 .. ReplayMax
        /\ \A i \in 1 .. ReplayMax : w[i] = timeline[n - ReplayMax + 1 + i - 1]
    <3>1. /\ w \in Seq(Nat) /\ Len(w) = n - (n - ReplayMax + 1) + 1
          /\ \A i \in 1 .. n - (n - ReplayMax + 1) + 1 : w[i] = timeline[n - ReplayMax + 1 + i - 1]
      <4>1. n - ReplayMax + 1 \in 1 .. n + 1 /\ n \in (n - ReplayMax + 1) - 1 .. n
        BY <1>1, <1>3
      <4> HIDE DEF n
      <4> QED BY <1>1, <2>1, <4>1, SubSeqProperties DEF n
    <3>2. n - (n - ReplayMax + 1) + 1 = ReplayMax
      BY <1>1
    <3> QED BY <3>1, <3>2, LenProperties
  <2>3. Recent = w
    BY <1>3 DEF Recent
  <2> HIDE DEF w, n
  <2>4. ASSUME NEW i \in DOMAIN w PROVE w[i] \in Stored
    <3>1. n - ReplayMax + 1 + i - 1 \in 1 .. n
      BY <1>1, <1>3, <2>2
    <3> QED BY <1>1, <2>2, <3>1 DEF Stored, ToSet
  <2>5. ASSUME NEW i \in 1 .. n, n < i + ReplayMax PROVE timeline[i] \in ToSet(w)
    <3>1. i - (n - ReplayMax) \in 1 .. ReplayMax /\ n - ReplayMax + 1 + (i - (n - ReplayMax)) - 1 = i
      BY <1>1, <1>3, <2>5
    <3>2. w[i - (n - ReplayMax)] = timeline[i]
      BY <2>2, <3>1
    <3> QED BY <2>2, <3>1, <3>2 DEF ToSet
  <2>6. ToSet(Recent) \subseteq Stored
    BY <2>3, <2>4 DEF ToSet
  <2> QED BY <1>1, <2>3, <2>5, <2>6 DEF n
<1> QED BY <1>2, <1>3

LEMMA ReadTimelineKeeps ==
  ASSUME PagesInv, NEW c \in Conns, ReadTimeline(c)
  PROVE  PagesInv' /\ UNCHANGED <<seen, last>>
<1> DEFINE got == {e \in ToSet(Recent) : e > task[c].from}
           t == [at |-> "loaded", existing |-> task[c].existing, events |-> got]
<1>0. /\ Types /\ Known /\ Waiting /\ ConnFits(c) /\ task \in [Conns -> Tasks]
      /\ task[c].at = "loading" /\ task' = [task EXCEPT ![c] = t]
      /\ UNCHANGED <<redis, link, refCount, clients, scanClients, sub, browser, disturbed>>
  BY DEF PagesInv, Types, ReadTimeline, Recent
<1>1. got \subseteq Stored /\ Stored \subseteq Nat
  BY <1>0, RecentIs DEF Known, Types
<1> HIDE DEF got
<1>2. t \in Tasks
  BY <1>0, <1>1, TaskFacts DEF Tasks, Ways
<1>3. task'[c] = t /\ \A d \in Conns \ {c} : task'[d] = task[d]
  BY <1>0
<1>4. Types'
  BY <1>0, <1>2 DEF Types, redis, link, browser
<1>5. task'[c].at = "loaded" /\ task'[c].events = got /\ task[c] # Idle
  BY <1>0, <1>3 DEF Idle
<1>6. Known'
  BY <1>0, <1>1, <1>3, <1>5 DEF Known, Stored, redis, link
<1>7. Waiting'
  BY <1>0, <1>3, WaitingSame DEF link
<1>8. ConnFits(c)'
  BY <1>0, <1>5 DEF ConnFits, browser
<1> QED BY <1>0, <1>3, <1>4, <1>6, <1>7, <1>8, QuietKeeps

(* A subscription that is dropped leaves a command behind, or less clients. *)
LEMMA ForgetIs ==
  ASSUME PagesInv, NEW c \in Conns, Forget(c), UNCHANGED <<inbox, channel>>,
         \A d \in Conns : task[d].at = "subscribing" => task'[d].at = "subscribing"
  PROVE  /\ Waiting' /\ requests' \in Seq(Commands) /\ refCount' \in Nat
         /\ sub' \in [Conns -> Subs] /\ sub'[c] = NoSub /\ scanClients' = scanClients \ {c}
         /\ \A d \in Conns \ {c} : sub'[d] = sub[d]
<1>0. /\ Types /\ Waiting /\ refCount \in Nat /\ requests \in Seq(Commands) /\ sub \in [Conns -> Subs]
      /\ sub' = [sub EXCEPT ![c] = NoSub] /\ scanClients' = scanClients \ {c}
  BY DEF PagesInv, Types, Forget
<1>1. NoSub \in Subs
  BY DEF NoSub, Subs
<1>2. CASE UNCHANGED <<refCount, requests>>
  BY <1>0, <1>1, <1>2, WaitingSame
<1>3. CASE refCount' = 0 /\ requests' = Append(requests, [kind |-> "unsubscribe"])
  BY <1>0, <1>1, <1>3, WaitingUnsubscribe
<1>4. CASE ~(refCount <= 1) /\ refCount' = refCount - 1 /\ UNCHANGED requests
  BY <1>0, <1>1, <1>4, WaitingSame
<1> QED BY <1>2, <1>3, <1>4 DEF Forget, BusUnsubscribe

LEMMA LoadFailsKeeps ==
  ASSUME PagesInv, NEW c \in Conns, LoadFails(c)
  PROVE  PagesInv' /\ UNCHANGED <<seen, last>>
<1>0. /\ Types /\ Known /\ Waiting /\ ConnFits(c) /\ task \in [Conns -> Tasks] /\ sub \in [Conns -> Subs]
      /\ task[c].at = "loading" /\ task' = [task EXCEPT ![c] = Idle]
      /\ UNCHANGED <<redis, channel, inbox, clients, browser, disturbed>>
  BY DEF PagesInv, Types, LoadFails
<1>1. Idle \in Tasks /\ Idle.at = "idle"
  BY DEF Tasks, Idle
<1>2. task'[c] = Idle /\ \A d \in Conns \ {c} : task'[d] = task[d]
  BY <1>0
<1>3. \A d \in Conns : task[d].at = "subscribing" => task'[d].at = "subscribing"
  BY <1>0, <1>2
<1>4. CASE (task[c].existing \/ ~sub[c].live) /\ UNCHANGED <<sub, scanClients, refCount, requests>>
  <2>1. Types'
    BY <1>0, <1>1, <1>4 DEF Types, redis, browser
  <2>2. Known'
    BY <1>0, <1>1, <1>2, <1>4 DEF Known, Stored, redis
  <2>3. Waiting'
    BY <1>0, <1>3, <1>4, WaitingSame
  <2>4. ConnFits(c)'
    BY <1>0, <1>1, <1>2, <1>4 DEF ConnFits, browser
  <2> QED BY <1>0, <1>2, <1>4, <2>1, <2>2, <2>3, <2>4, QuietKeeps
<1>5. CASE Forget(c)
  <2>0. /\ Waiting' /\ requests' \in Seq(Commands) /\ refCount' \in Nat
        /\ sub' \in [Conns -> Subs] /\ sub'[c] = NoSub /\ scanClients' = scanClients \ {c}
        /\ \A d \in Conns \ {c} : sub'[d] = sub[d]
    BY <1>0, <1>3, <1>5, ForgetIs
  <2>1. Types'
    BY <1>0, <1>1, <2>0 DEF Types, redis, browser
  <2>2. Known'
    BY <1>0, <1>1, <1>2, <2>0 DEF Known, Stored, redis, NoSub
  <2>3. ConnFits(c)'
    BY <1>0, <1>1, <1>2, <2>0 DEF ConnFits, browser, NoSub
  <2> QED BY <1>0, <1>2, <2>0, <2>1, <2>2, <2>3, QuietKeeps
<1> QED BY <1>4, <1>5 DEF LoadFails

LEMMA UnsubscribeKeeps ==
  ASSUME PagesInv, NEW c \in Conns, Unsubscribe(c)
  PROVE  PagesInv' /\ UNCHANGED <<seen, last>>
<1>0. /\ Types /\ Known /\ ConnFits(c) /\ socket[c] = "open" /\ task[c] = Idle /\ Forget(c)
      /\ UNCHANGED <<redis, channel, inbox, clients, task, browser, disturbed>>
  BY DEF PagesInv, Unsubscribe
<1>1. /\ Waiting' /\ requests' \in Seq(Commands) /\ refCount' \in Nat
      /\ sub' \in [Conns -> Subs] /\ sub'[c] = NoSub /\ scanClients' = scanClients \ {c}
      /\ \A d \in Conns \ {c} : sub'[d] = sub[d]
  BY <1>0, ForgetIs
<1>2. Types'
  BY <1>0, <1>1 DEF Types, redis, browser
<1>3. Known'
  BY <1>0, <1>1 DEF Known, Stored, redis, NoSub
<1>4. ConnFits(c)'
  BY <1>0, <1>1 DEF ConnFits, browser, NoSub, Idle
<1> QED BY <1>0, <1>1, <1>2, <1>3, <1>4, QuietKeeps

LEMMA RemoveClientKeeps ==
  ASSUME PagesInv, NEW c \in Conns, RemoveClient(c)
  PROVE  PagesInv' /\ UNCHANGED <<seen, last>>
<1>0. /\ Types /\ Known /\ Waiting /\ ConnFits(c) /\ socket[c] = "closed" /\ clients' = clients \ {c}
      /\ IF sub[c].live THEN Forget(c) ELSE UNCHANGED <<sub, scanClients, refCount, requests>>
      /\ UNCHANGED <<redis, channel, inbox, task, browser, disturbed>>
  BY DEF PagesInv, RemoveClient
<1>1. CASE sub[c].live
  <2>0. /\ Waiting' /\ requests' \in Seq(Commands) /\ refCount' \in Nat
        /\ sub' \in [Conns -> Subs] /\ sub'[c] = NoSub /\ scanClients' = scanClients \ {c}
        /\ \A d \in Conns \ {c} : sub'[d] = sub[d]
    BY <1>0, <1>1, ForgetIs
  <2>1. Types'
    BY <1>0, <2>0 DEF Types, redis, browser
  <2>2. Known'
    BY <1>0, <2>0 DEF Known, Stored, redis, NoSub
  <2>3. ConnFits(c)'
    BY <1>0, <2>0 DEF ConnFits, browser, NoSub
  <2> QED BY <1>0, <2>0, <2>1, <2>2, <2>3, QuietKeeps
<1>2. CASE ~sub[c].live
  <2>0. UNCHANGED <<sub, scanClients, refCount, requests>>
    BY <1>0, <1>2
  <2>1. Types'
    BY <1>0, <2>0 DEF Types, redis, browser
  <2>2. Known'
    BY <1>0, <2>0 DEF Known, Stored, redis
  <2>3. Waiting'
    BY <1>0, <2>0, WaitingSame
  <2>4. ConnFits(c)'
    BY <1>0, <1>2, <2>0 DEF ConnFits, browser
  <2> QED BY <1>0, <2>0, <2>1, <2>2, <2>3, <2>4, QuietKeeps
<1> QED BY <1>1, <1>2

LEMMA SocketKeeps ==
  ASSUME PagesInv, NEW c \in Conns, Connect(c) \/ Break(c) \/ Disconnect(c)
  PROVE  PagesInv' /\ UNCHANGED <<seen, last>>
<1>0. /\ Types /\ Known /\ Waiting /\ OneOpen /\ (\A d \in Conns : ConnFits(d)) /\ (\A u \in Users : PageFits(u))
      /\ socket \in [Conns -> {"unused", "open", "broken", "closed"}]
      /\ UNCHANGED <<redis, link, refCount, scanClients, sub, task, seen, last, disturbed>>
  BY DEF PagesInv, Types, Connect, Break, Disconnect, gateway
<1>1. /\ clients' \in {clients, clients \cup {c}} /\ \A d \in Conns \ {c} : socket'[d] = socket[d]
      /\ socket' \in [Conns -> {"unused", "open", "broken", "closed"}]
      /\ clients' = clients \cup {c} => socket'[c] # "unused"
  BY <1>0 DEF Connect, Break, Disconnect, gateway, ConnFits
<1>2. Types' /\ Known' /\ Waiting' /\ \A u \in Users : PageFits(u)'
  <2>1. Types' /\ Known'
    BY <1>0, <1>1 DEF Types, Known, Stored, redis, link
  <2>2. Waiting' /\ \A u \in Users : PageFits(u)'
    BY <1>0, WaitingSame, PagesSame DEF redis, link, Stored
  <2> QED BY <2>1, <2>2
<1>3. OneOpen'
  BY <1>0 DEF OneOpen, Connect, Break, Disconnect
<1>4. ConnFits(c)'
  <2>1. CASE Connect(c)
    <3>1. socket[c] = "unused" /\ socket'[c] = "open" /\ c \in clients'
      BY <1>0, <2>1 DEF Connect
    <3>2. sub[c] = NoSub /\ task[c] = Idle /\ ConnFits(c)
      BY <1>0, <3>1 DEF ConnFits
    <3> QED BY <1>0, <3>1, <3>2 DEF ConnFits, NoSub, Idle
  <2>2. CASE Break(c)
    <3>1. socket[c] = "open" /\ socket'[c] = "broken" /\ UNCHANGED clients
      BY <1>0, <2>2 DEF Break, gateway
    <3> QED BY <1>0, <3>1 DEF ConnFits
  <2>3. CASE Disconnect(c)
    <3>1. socket[c] = "broken" /\ socket'[c] = "closed" /\ UNCHANGED clients
      BY <1>0, <2>3 DEF Disconnect, gateway
    <3> QED BY <1>0, <3>1 DEF ConnFits
  <2> QED BY <2>1, <2>2, <2>3
<1>5. \A d \in Conns : ConnFits(d)'
  <2>1. ASSUME NEW d \in Conns, d # c PROVE ConnFits(d)'
    <3>1. d \in clients' <=> d \in clients
      BY <1>1, <2>1
    <3> QED BY <1>0, <1>1, <2>1, <3>1, ConnSame
  <2> QED BY <1>4, <2>1
<1> QED BY <1>0, <1>2, <1>3, <1>5 DEF PagesInv

-----------------------------------------------------------------------------
(* The replay.                                                              *)

(* What a step of Deliver does: the page has the events of sent, which are  *)
(* all that it lacks of the replay and the buffer up to the last of them.   *)
ToSend(c) == {e \in sub[c].buffer \cup task[c].events : e > sub[c].last}

Hands(c, sent, end) ==
  /\ sent \subseteq ToSend(c) /\ end \in Nat
  /\ IF sent = {} THEN end = sub[c].last ELSE end \in sent /\ \A e \in sent : e <= end
  /\ \A e \in ToSend(c) : e <= end => e \in sent
  /\ socket'[c] # "closed" => sent = ToSend(c)
  /\ sub' = [sub EXCEPT ![c] = [last |-> end, buffering |-> FALSE, buffer |-> {}, live |-> TRUE]]
  /\ socket' = [socket EXCEPT ![c] = socket'[c]] /\ socket'[c] \in {socket[c], "closed"}
  /\ seen' \in [Users -> Seq(Nat)] /\ last' \in [Users -> Nat]
  /\ \A u \in Users : PageFits(u)' /\ IsPrefix(seen[u], seen'[u])
  /\ socket[c] = "open" =>
       /\ ToSet(seen'[Owner[c]]) = ToSet(seen[Owner[c]]) \cup sent
       /\ last'[Owner[c]] = end
  /\ \A u \in Users : (socket[c] = "open" /\ Owner[c] = u) \/ (seen'[u] = seen[u] /\ last'[u] = last[u])

LEMMA DeliverIs ==
  ASSUME PagesInv, NEW c \in Conns, Deliver(c), sub[c].live
  PROVE  \E sent, end : Hands(c, sent, end)
<1> DEFINE s == Ascending(ToSend(c))
<1>0. /\ Types /\ Known /\ OneOpen /\ (\A d \in Conns : ConnFits(d)) /\ (\A u \in Users : PageFits(u))
      /\ sub \in [Conns -> Subs] /\ sub[c] \in Subs /\ counter \in Nat
      /\ socket \in [Conns -> {"unused", "open", "broken", "closed"}]
      /\ task[c].at = "loaded" /\ Owner[c] \in Users
      /\ UNCHANGED <<redis, link, refCount, clients, scanClients, disturbed>>
  BY RealtimeAssumption DEF PagesInv, Types, Deliver
<1>1. PICK k \in IF socket[c] = "closed" THEN {0} ELSE 0 .. Len(s) :
        /\ Show([d \in Conns |-> IF d = c THEN SubSeq(s, 1, k) ELSE <<>>])
        /\ socket' = [socket EXCEPT ![c] = IF k = Len(s) THEN socket[c] ELSE "closed"]
        /\ sub' = [sub EXCEPT ![c] = [last |-> IF k = 0 THEN sub[c].last ELSE s[k],
                                      buffering |-> FALSE, buffer |-> {}, live |-> TRUE]]
  BY DEF Deliver, Fresh, ToSend
<1>2. ToSend(c) \subseteq Stored /\ ToSend(c) \in SUBSET (1 .. counter)
  BY <1>0 DEF ToSend, Known
<1>3. /\ s \in Seq(Nat) /\ Sorted(s) /\ ToSet(s) = ToSend(c)
  BY <1>0, <1>2, AscendingIs
<1> HIDE DEF s
<1> DEFINE t == SubSeq(s, 1, k)
           sent == ToSet(t)
           end == IF k = 0 THEN sub[c].last ELSE s[k]
<1>4. k \in 0 .. Len(s) /\ Len(s) \in Nat
  BY <1>1, <1>3, LenProperties
<1>5. /\ t \in Seq(Nat) /\ Sorted(t) /\ (t = <<>> <=> k = 0) /\ sent \subseteq ToSend(c)
      /\ k # 0 => LastOf(t) = s[k] /\ \A e \in ToSend(c) : e <= s[k] => e \in sent
      /\ k = Len(s) => sent = ToSend(c)
  BY <1>3, <1>4, PrefixOfSorted
<1> HIDE DEF t
<1>6. k # 0 => s[k] \in sent /\ \A e \in sent : e <= s[k]
  BY <1>5, LastIsMax
<1>7. k = 0 => sent = {}
  BY <1>5 DEF ToSet
<1>8. end \in Nat
  BY <1>0, <1>2, <1>5, <1>6 DEF Subs
<1>9. \A e \in ToSend(c) : e > sub[c].last /\ e \in Nat /\ sub[c].last \in Nat
  BY <1>0, <1>2 DEF ToSend, Subs
<1> DEFINE m == [d \in Conns |-> IF d = c THEN t ELSE <<>>]
<1>10. m[c] = t /\ (\A d \in Conns : d # c => m[d] = <<>>) /\ m \in [Conns -> Seq(Nat)] /\ Show(m)
  BY <1>1, <1>5 DEF t
<1> HIDE DEF m
<1>11. Sends(m)
  <2>1. ASSUME NEW d \in Conns, socket[d] = "open", m[d] # <<>>
        PROVE  Sorted(m[d]) /\ ToSet(m[d]) \subseteq Stored /\ \A x \in ToSet(m[d]) : last[Owner[d]] < x
    <3>1. d = c /\ m[d] = t
      BY <1>10, <2>1
    <3>2. sub[c].last = last[Owner[c]]
      BY <1>0, <2>1, <3>1 DEF ConnFits
    <3> QED BY <1>2, <1>5, <1>9, <3>1, <3>2
  <2> QED BY <1>10, <2>1 DEF Sends
<1>12. /\ seen' \in [Users -> Seq(Nat)] /\ last' \in [Users -> Nat]
       /\ \A u \in Users : /\ Sorted(seen'[u]) /\ last'[u] = LastOf(seen'[u])
                           /\ ToSet(seen'[u]) \subseteq Stored /\ IsPrefix(seen[u], seen'[u])
       /\ socket[c] = "open" /\ t # <<>> =>
            /\ ToSet(seen'[Owner[c]]) = ToSet(seen[Owner[c]]) \cup sent
            /\ last'[Owner[c]] = LastOf(t)
       /\ \A u \in Users : (\A d \in Conns : Owner[d] = u /\ socket[d] = "open" => m[d] = <<>>) =>
            seen'[u] = seen[u] /\ last'[u] = last[u]
  BY <1>0, <1>10, <1>11, ShowIs
<1>13. \A u \in Users : PageFits(u)' /\ IsPrefix(seen[u], seen'[u])
  BY <1>0, <1>12 DEF PageFits, Stored, redis
<1>14. ASSUME socket[c] = "open"
       PROVE  ToSet(seen'[Owner[c]]) = ToSet(seen[Owner[c]]) \cup sent /\ last'[Owner[c]] = end
  <2>1. CASE k = 0
    <3>1. t = <<>> /\ sent = {} /\ end = sub[c].last /\ \A d \in Conns : m[d] = <<>>
      BY <1>5, <1>7, <1>10, <2>1
    <3>2. sub[c].last = last[Owner[c]]
      BY <1>0, <1>14 DEF ConnFits
    <3> QED BY <1>0, <1>12, <3>1, <3>2
  <2>2. CASE k # 0
    BY <1>5, <1>12, <1>14, <2>2
  <2> QED BY <2>1, <2>2
<1>15. ASSUME NEW u \in Users, ~(socket[c] = "open" /\ Owner[c] = u)
       PROVE  seen'[u] = seen[u] /\ last'[u] = last[u]
  <2>1. \A d \in Conns : Owner[d] = u /\ socket[d] = "open" => m[d] = <<>>
    BY <1>10, <1>15
  <2> QED BY <1>12, <2>1
<1>16. /\ socket'[c] = IF k = Len(s) THEN socket[c] ELSE "closed"
       /\ socket' = [socket EXCEPT ![c] = socket'[c]]
  BY <1>0, <1>1
<1>17. sub' = [sub EXCEPT ![c] = [last |-> end, buffering |-> FALSE, buffer |-> {}, live |-> TRUE]]
  BY <1>1
<1>18. IF sent = {} THEN end = sub[c].last ELSE end \in sent /\ \A e \in sent : e <= end
  BY <1>6, <1>7
<1>19. \A e \in ToSend(c) : e <= end => e \in sent
  <2>1. CASE k = 0
    <3>1. end = sub[c].last
      BY <2>1
    <3> HIDE DEF end
    <3> QED BY <1>9, <3>1
  <2>2. CASE k # 0
    BY <1>5, <2>2
  <2> QED BY <2>1, <2>2
<1>20. socket'[c] # "closed" => sent = ToSend(c)
  BY <1>5, <1>16
<1> HIDE DEF sent, end
<1>21. Hands(c, sent, end)
  BY <1>5, <1>8, <1>12, <1>13, <1>14, <1>15, <1>16, <1>17, <1>18, <1>19, <1>20 DEF Hands
<1> QED BY <1>21

LEMMA DeliverKeeps ==
  ASSUME PagesInv, NEW c \in Conns, Deliver(c)
  PROVE  PagesInv' /\ \A u \in Users : IsPrefix(seen[u], seen'[u])
<1>0. /\ Types /\ Known /\ Waiting /\ OneOpen /\ (\A d \in Conns : ConnFits(d))
      /\ \A u \in Users : PageFits(u)
      /\ sub \in [Conns -> Subs] /\ task \in [Conns -> Tasks] /\ seen \in [Users -> Seq(Nat)]
      /\ socket \in [Conns -> {"unused", "open", "broken", "closed"}]
      /\ task[c].at = "loaded" /\ task' = [task EXCEPT ![c] = Idle]
      /\ UNCHANGED <<redis, link, refCount, clients, scanClients, disturbed>>
  BY DEF PagesInv, Types, Deliver
<1>1. Idle \in Tasks /\ Idle.at = "idle"
  BY DEF Tasks, Idle
<1>2. task'[c] = Idle /\ (\A d \in Conns \ {c} : task'[d] = task[d]) /\ task' \in [Conns -> Tasks]
  BY <1>0, <1>1
<1>3. Waiting'
  BY <1>0, <1>2, WaitingSame DEF link
<1>4. CASE ~sub[c].live
  <2>1. UNCHANGED <<sub, socket, seen, last>>
    BY <1>4 DEF Deliver
  <2>2. Types'
    BY <1>0, <1>2, <2>1 DEF Types, redis, link
  <2>3. Known'
    BY <1>0, <1>1, <1>2, <2>1 DEF Known, Stored, redis, link
  <2>4. ConnFits(c)'
    BY <1>0, <1>1, <1>2, <1>4, <2>1 DEF ConnFits
  <2>5. PagesInv'
    BY <1>0, <1>2, <1>3, <2>1, <2>2, <2>3, <2>4, QuietKeeps DEF browser
  <2>6. \A u \in Users : Len(seen[u]) \in Nat
    BY <1>0, LenProperties
  <2> QED BY <2>1, <2>5, <2>6 DEF IsPrefix
<1>5. CASE sub[c].live
  <2>1. PICK sent, end : Hands(c, sent, end)
    BY <1>5, DeliverIs
  <2> DEFINE r == [last |-> end, buffering |-> FALSE, buffer |-> {}, live |-> TRUE]
  <2>2. /\ end \in Nat /\ sub' = [sub EXCEPT ![c] = r]
        /\ socket' = [socket EXCEPT ![c] = socket'[c]] /\ socket'[c] \in {socket[c], "closed"}
        /\ seen' \in [Users -> Seq(Nat)] /\ last' \in [Users -> Nat]
        /\ socket[c] = "open" => last'[Owner[c]] = end
    BY <2>1 DEF Hands
  <2>3. \A u \in Users : PageFits(u)' /\ IsPrefix(seen[u], seen'[u])
    BY Zenon, <2>1 DEF Hands
  <2>4. \A u \in Users : (socket[c] = "open" /\ Owner[c] = u) \/ (seen'[u] = seen[u] /\ last'[u] = last[u])
    BY Zenon, <2>1 DEF Hands
  <2>5. r \in Subs /\ r.buffer = {} /\ r.live = TRUE /\ r.buffering = FALSE /\ r.last = end
    BY <2>2 DEF Subs
  <2> HIDE DEF r
  <2>6. /\ sub' \in [Conns -> Subs] /\ sub'[c] = r /\ \A d \in Conns \ {c} : sub'[d] = sub[d] /\ socket'[d] = socket[d]
        /\ socket' \in [Conns -> {"unused", "open", "broken", "closed"}]
    BY <1>0, <2>2, <2>5
  <2>7. Types'
    BY <1>0, <1>2, <2>2, <2>6 DEF Types, redis, link
  <2>8. Known'
    BY <1>0, <1>1, <1>2, <2>5, <2>6 DEF Known, Stored, redis, link
  <2>9. OneOpen'
    BY <1>0, <2>2, <2>6 DEF OneOpen
  <2>10. ConnFits(c)'
    <3>1. ConnFits(c)
      BY <1>0
    <3> QED BY <1>0, <1>1, <1>2, <1>5, <2>2, <2>5, <2>6, <3>1 DEF ConnFits
  <2>11. ASSUME NEW d \in Conns, d # c PROVE ConnFits(d)'
    <3>1. socket[d] = "open" => last'[Owner[d]] = last[Owner[d]]
      BY RealtimeAssumption, <1>0, <2>4, <2>11 DEF OneOpen
    <3> QED BY <1>0, <1>2, <2>6, <2>11, <3>1, ConnSame
  <2> QED BY <1>3, <2>3, <2>7, <2>8, <2>9, <2>10, <2>11 DEF PagesInv
<1> QED BY <1>4, <1>5

LEMMA PagesInit == Init => PagesInv
<1> SUFFICES ASSUME Init PROVE PagesInv
  OBVIOUS
<1>1. NoSub \in Subs /\ Idle \in Tasks /\ Idle \in PubStates /\ Idle.at = "idle"
  BY DEF NoSub, Subs, Idle, Tasks, PubStates
<1>2. Types
  <2>1. counter \in Nat /\ pubs \in [Publishers -> PubStates] /\ refCount \in Nat /\ channel \in BOOLEAN
    BY <1>1 DEF Init
  <2>2. timeline \in Seq(Nat) /\ requests \in Seq(Commands) /\ inbox \in Seq(Messages)
    BY DEF Init
  <2>3. sub \in [Conns -> Subs] /\ task \in [Conns -> Tasks] /\ clients \subseteq Conns /\ scanClients \subseteq Conns
    BY <1>1 DEF Init
  <2>4. socket \in [Conns -> {"unused", "open", "broken", "closed"}]
    BY DEF Init
  <2>5. seen \in [Users -> Seq(Nat)] /\ last \in [Users -> Nat] /\ disturbed \in BOOLEAN
    <3>1. <<>> \in Seq(Nat) /\ 0 \in Nat
      OBVIOUS
    <3>2. seen = [u \in Users |-> <<>>] /\ last = [u \in Users |-> 0] /\ disturbed = FALSE
      BY DEF Init
    <3>3. seen \in [Users -> Seq(Nat)]
      BY Zenon, <3>1, <3>2
    <3> QED BY <3>1, <3>2, <3>3
  <2> QED BY <2>1, <2>2, <2>3, <2>4, <2>5 DEF Types
<1>3. Known /\ Waiting
  <2>1. Stored = {} /\ DOMAIN inbox = {} /\ DOMAIN requests = {}
    BY DEF Init, Stored, ToSet
  <2> QED BY <1>1, <2>1 DEF Init, Known, Waiting, NoSub
<1>4. OneOpen
  BY DEF Init, OneOpen
<1>5. \A c \in Conns : ConnFits(c)
  BY <1>1 DEF Init, ConnFits, NoSub
<1>6. \A u \in Users : PageFits(u)
  BY DEF Init, PageFits, Sorted, LastOf, ToSet
<1> QED BY <1>2, <1>3, <1>4, <1>5, <1>6 DEF PagesInv

(* What every step leaves of the pages.                                     *)
PagesGrow == \A u \in Users : IsPrefix(seen[u], seen'[u])

LEMMA PagesKeep ==
  ASSUME PagesInv, [Next]_vars
  PROVE  PagesInv' /\ PagesGrow
<1> DEFINE Same == UNCHANGED <<seen, last>>
<1>1. ASSUME Same PROVE PagesGrow
  <2>1. \A u \in Users : Len(seen[u]) \in Nat
    BY LenProperties DEF PagesInv, Types
  <2> QED BY <1>1, <2>1 DEF PagesGrow, IsPrefix
<1>2. ASSUME NEW p \in Publishers, TakeNumber(p) \/ AppendTimeline(p) \/ Publish(p) \/ PublisherDies(p)
      PROVE  PagesInv' /\ PagesGrow
  BY <1>1, <1>2, PublisherStep
<1>3. CASE RedisExecutes
  BY <1>1, <1>3, RedisStep
<1>4. ASSUME NEW slow \in SUBSET Conns, Broadcast(slow)
      PROVE  PagesInv' /\ PagesGrow
  BY <1>4, BroadcastIs, HeardKeeps DEF PagesGrow
<1>5. CASE Subscribed
  BY <1>1, <1>5, SubscribedKeeps
<1>6. ASSUME NEW c \in Conns, Deliver(c) PROVE PagesInv' /\ PagesGrow
  BY <1>6, DeliverKeeps DEF PagesGrow
<1>7. ASSUME NEW c \in Conns,
             \/ Subscribe(c) \/ Authorized(c) \/ Refused(c) \/ ReadTimeline(c) \/ LoadFails(c)
             \/ Unsubscribe(c) \/ Connect(c) \/ Break(c) \/ Disconnect(c) \/ RemoveClient(c)
      PROVE  PagesInv' /\ PagesGrow
  <2>1. PagesInv' /\ Same
    <3>1. CASE Subscribe(c)
      BY <3>1, SubscribeKeeps
    <3>2. CASE Authorized(c)
      BY <3>2, AuthorizedKeeps
    <3>3. CASE Refused(c)
      BY <3>3, RefusedKeeps
    <3>4. CASE ReadTimeline(c)
      BY <3>4, ReadTimelineKeeps
    <3>5. CASE LoadFails(c)
      BY <3>5, LoadFailsKeeps
    <3>6. CASE Unsubscribe(c)
      BY <3>6, UnsubscribeKeeps
    <3>7. CASE Connect(c) \/ Break(c) \/ Disconnect(c)
      BY <3>7, SocketKeeps
    <3>8. CASE RemoveClient(c)
      BY <3>8, RemoveClientKeeps
    <3> QED BY <1>7, <3>1, <3>2, <3>3, <3>4, <3>5, <3>6, <3>7, <3>8
  <2> QED BY <1>1, <2>1
<1>8. CASE UNCHANGED vars
  <2>1. PagesInv'
    BY <1>8 DEF vars, PagesInv, Types, Known, Waiting, Asked, Answered, OneOpen, ConnFits, PageFits, Stored, Sorted
  <2>2. Same
    BY <1>8 DEF vars
  <2> QED BY <1>1, <2>1, <2>2
<1> QED BY <1>2, <1>3, <1>4, <1>5, <1>6, <1>7, <1>8 DEF Next

LEMMA PagesHold == Spec => []PagesInv
<1>1. PagesInv /\ [Next]_vars => PagesInv'
  BY PagesKeep
<1> QED BY <1>1, PagesInit, PTL DEF Spec

(* A page shows the events in the order of their numbers, none twice, and   *)
(* never takes one back, whatever the gateway replays, buffers, broadcasts  *)
(* or sends again to the page's next socket (sendScanEvent and the page's   *)
(* lastSequenceRef).                                                        *)
THEOREM PagesInOrder == Spec => InOrderOnce
<1>1. PagesInv /\ [Next]_vars =>
        [\A u \in Users :
           /\ IsPrefix(seen[u], seen'[u])
           /\ \A i, j \in DOMAIN seen'[u] : i < j => seen'[u][i] < seen'[u][j]
           /\ last'[u] = LastOf(seen'[u])]_vars
  BY PagesKeep DEF PagesGrow, PagesInv, PageFits, Sorted
<1> QED BY <1>1, PagesHold, PTL DEF Spec, InOrderOnce

-----------------------------------------------------------------------------
(* Without disturbance: what the invariant says, and what frames a step.    *)

LEMMA StreamFacts ==
  ASSUME PagesInv, StreamInv, ~disturbed
  PROVE  /\ OneAtATime /\ OneChannel /\ InTurn /\ NoGap /\ \A c \in Conns : StreamFits(c)
         /\ Len(timeline) \in Nat /\ DOMAIN timeline = 1 .. Len(timeline) /\ Stored = 1 .. Len(timeline)
         /\ Len(inbox) \in Nat /\ DOMAIN inbox = 1 .. Len(inbox)
         /\ Told \in Int /\ Told <= Len(timeline) /\ Told = NextHeard + Len(inbox) - 1
         /\ NextHeard \in Int /\ NextHeard <= Len(timeline) + 1
         /\ IsFiniteSet(Counted) /\ Cardinality(Counted) \in Nat /\ refCount \in Nat
         /\ refCount = 0 => Counted = {}
         /\ (\E i \in DOMAIN inbox : inbox[i].kind = "subscribed") => refCount = 0
<1>1. OneAtATime /\ OneChannel /\ InTurn /\ NoGap /\ \A c \in Conns : StreamFits(c)
  BY DEF StreamInv
<1>2. /\ Len(timeline) \in Nat /\ DOMAIN timeline = 1 .. Len(timeline)
      /\ Len(inbox) \in Nat /\ DOMAIN inbox = 1 .. Len(inbox) /\ counter \in Nat /\ refCount \in Nat
  BY LenProperties DEF PagesInv, Types
<1>3. Stored = 1 .. Len(timeline)
  BY <1>1, <1>2 DEF OneAtATime, Stored, ToSet
<1>4. Told \in Int /\ Told <= Len(timeline)
  <2>1. (\E p \in Publishers : pubs[p].at = "appended") => ~\E p \in Publishers : pubs[p].at = "numbered"
    BY <1>1 DEF OneAtATime, Idle
  <2>2. (\E p \in Publishers : pubs[p].at = "appended") => counter = Len(timeline)
    BY <1>1, <2>1 DEF OneAtATime
  <2>3. Told = Len(timeline) - 1 \/ Told = Len(timeline)
    BY <2>2 DEF Told
  <2> QED BY <1>2, <2>3
<1>5. NextHeard \in Int /\ NextHeard <= Len(timeline) + 1 /\ Told = NextHeard + Len(inbox) - 1
  BY <1>2, <1>4 DEF NextHeard
<1>6. IsFiniteSet(Counted) /\ Cardinality(Counted) \in Nat
  <2>1. IsFiniteSet(Counted)
    BY RealtimeAssumption, FS_Subset DEF Counted
  <2> QED BY <2>1, FS_CardinalityType
<1>7. refCount = 0 => Counted = {}
  <2>1. Cardinality(Counted) <= refCount
    BY <1>1 DEF OneChannel
  <2> QED BY <1>2, <1>6, <2>1, FS_EmptySet
<1>8. ASSUME NEW i \in DOMAIN inbox, inbox[i].kind = "subscribed" PROVE refCount = 0
  <2>1. inbox[i] \in Messages
    BY <1>2, ElementOfSeq DEF PagesInv, Types
  <2>2. inbox[i].conn \in Conns /\ Answered(inbox[i].conn, i)
    BY <1>8, <2>1 DEF Messages, Answered
  <2> QED BY <1>1, <2>2 DEF PagesInv, Waiting, OneChannel
<1> QED BY <1>1, <1>2, <1>3, <1>4, <1>5, <1>6, <1>7, <1>8

LEMMA HeardSame ==
  ASSUME OneAtATime, UNCHANGED <<redis, inbox>>
  PROVE  OneAtATime' /\ Told' = Told /\ NextHeard' = NextHeard
BY DEF OneAtATime, Told, NextHeard, redis

LEMMA TurnSame ==
  ASSUME InTurn, UNCHANGED inbox, NextHeard' = NextHeard, refCount' > 0 => refCount > 0
  PROVE  InTurn'
BY DEF InTurn

LEMMA StreamSame ==
  ASSUME NEW c \in Conns, StreamFits(c), sub'[c] = sub[c], NextHeard' = NextHeard, UNCHANGED timeline,
         c \in clients' => c \in clients, socket'[c] = "open" => socket[c] = "open",
         task'[c].at = "loaded" => task[c].at = "loaded" /\ task'[c].events = task[c].events
  PROVE  StreamFits(c)'
BY DEF StreamFits, ReplayFits, Stored

LEMMA GapSame ==
  ASSUME NoGap, ~disturbed, UNCHANGED <<timeline, seen>>
  PROVE  NoGap'
BY DEF NoGap

LEMMA LessCounted ==
  ASSUME PagesInv, StreamInv, ~disturbed, Counted' \subseteq Counted
  PROVE  Cardinality(Counted') \in Nat /\ Cardinality(Counted') <= Cardinality(Counted)
<1>1. IsFiniteSet(Counted)
  BY StreamFacts
<1>2. IsFiniteSet(Counted') /\ Cardinality(Counted') <= Cardinality(Counted)
  BY <1>1, FS_Subset
<1> QED BY <1>2, FS_CardinalityType

LEMMA ChannelSame ==
  ASSUME PagesInv, StreamInv, ~disturbed, UNCHANGED <<channel, requests, inbox, refCount>>, Counted' \subseteq Counted,
         \A c \in Conns : task'[c].at = "subscribing" => task[c].at = "subscribing"
  PROVE  OneChannel'
<1>1. OneChannel /\ refCount \in Nat /\ Cardinality(Counted) \in Nat
  BY StreamFacts
<1>2. Cardinality(Counted') <= refCount'
  BY <1>1, LessCounted DEF OneChannel
<1> QED BY <1>1, <1>2 DEF OneChannel

(* A step that leaves Redis, the count and the pages as they are.           *)
LEMMA QuietStream ==
  ASSUME PagesInv, StreamInv, ~disturbed,
         UNCHANGED <<redis, channel, requests, inbox, refCount, seen>>, Counted' \subseteq Counted,
         \A c \in Conns : task'[c].at = "subscribing" => task[c].at = "subscribing",
         \A c \in Conns : StreamFits(c)'
  PROVE  StreamInv'
<1>1. OneAtATime' /\ NextHeard' = NextHeard
  BY StreamFacts, HeardSame
<1>2. OneChannel'
  BY ChannelSame
<1>3. InTurn'
  BY <1>1, StreamFacts, TurnSame
<1>4. NoGap'
  BY StreamFacts, GapSame DEF redis
<1> QED BY <1>1, <1>2, <1>3, <1>4 DEF StreamInv

LEMMA UndisturbedTake ==
  ASSUME PagesInv, StreamInv, ~disturbed', NEW p \in Publishers, TakeNumber(p)
  PROVE  StreamInv'
<1>0. /\ counter \in Nat /\ pubs \in [Publishers -> PubStates] /\ ~disturbed
      /\ counter' = counter + 1 /\ pubs' = [pubs EXCEPT ![p] = [at |-> "numbered", seq |-> counter + 1]]
      /\ UNCHANGED <<timeline, channel, requests, inbox, refCount, clients, scanClients, sub, task, socket, seen>>
      /\ \A q \in Publishers : pubs[q] = Idle
  BY DEF PagesInv, Types, TakeNumber, link, gateway, browser
<1>1. /\ pubs'[p].at = "numbered" /\ pubs'[p].seq = counter + 1 /\ \A q \in Publishers \ {p} : pubs'[q] = Idle
      /\ \A q \in Publishers : pubs[q].at = "idle"
  BY <1>0 DEF Idle
<1>2. OneAtATime /\ Len(timeline) \in Nat /\ \A q \in Publishers \ {p} : pubs'[q].at = "idle"
  BY <1>0, <1>1, StreamFacts DEF Idle
<1>3. OneAtATime'
  BY <1>0, <1>1, <1>2 DEF OneAtATime
<1>4. Told' = Told /\ NextHeard' = NextHeard
  BY <1>0, <1>1, <1>2 DEF Told, NextHeard
<1>5. Counted' = Counted
  BY <1>0 DEF Counted
<1>6. OneChannel'
  BY <1>0, <1>5, ChannelSame
<1>7. InTurn' /\ NoGap'
  BY <1>0, <1>4, StreamFacts, TurnSame, GapSame
<1>8. \A c \in Conns : StreamFits(c)'
  BY <1>0, <1>4, StreamFacts, StreamSame
<1> QED BY <1>3, <1>6, <1>7, <1>8 DEF StreamInv

(* The last event a page has is in the list.                                *)
LEMMA LastIsStored ==
  ASSUME PagesInv, NEW u \in Users
  PROVE  /\ last[u] \in Nat /\ last[u] = LastOf(seen[u]) /\ (last[u] = 0 \/ last[u] \in Stored \cap ToSet(seen[u]))
<1>1. seen[u] \in Seq(Nat) /\ last[u] \in Nat /\ PageFits(u)
  BY DEF PagesInv, Types
<1>2. CASE seen[u] = <<>>
  BY <1>1, <1>2 DEF PageFits, LastOf
<1>3. CASE seen[u] # <<>>
  BY <1>1, <1>3, LastIsMax DEF PageFits
<1> QED BY <1>1, <1>2, <1>3 DEF PageFits

LEMMA UndisturbedAppend ==
  ASSUME PagesInv, StreamInv, ~disturbed', NEW p \in Publishers, AppendTimeline(p)
  PROVE  StreamInv'
<1>0. /\ counter \in Nat /\ pubs \in [Publishers -> PubStates] /\ ~disturbed /\ timeline \in Seq(Nat)
      /\ pubs[p].at = "numbered" /\ timeline' = Append(timeline, pubs[p].seq)
      /\ pubs' = [pubs EXCEPT ![p].at = "appended"]
      /\ UNCHANGED <<counter, channel, requests, inbox, refCount, clients, scanClients, sub, task, socket, seen>>
  BY DEF PagesInv, Types, AppendTimeline, link, gateway, browser
<1> DEFINE n == Len(timeline)
<1>1. /\ OneAtATime /\ n \in Nat /\ Stored = 1 .. n /\ NextHeard \in Int /\ NextHeard <= n + 1
  BY <1>0, StreamFacts
<1>2. /\ pubs[p].seq = counter /\ counter = n + 1 /\ pubs[p] # Idle
      /\ \A q \in Publishers \ {p} : pubs[q] = Idle
  BY <1>0, <1>1 DEF OneAtATime, Idle
<1>3. /\ pubs'[p] = [at |-> "appended", seq |-> counter] /\ pubs'[p] # Idle
      /\ pubs'[p].at = "appended" /\ pubs'[p].seq = counter
      /\ \A q \in Publishers \ {p} : pubs'[q] = Idle /\ pubs'[q].at = "idle"
  BY <1>0, <1>2 DEF PubStates, Idle
<1>4. /\ Len(timeline') = n + 1 /\ DOMAIN timeline' = 1 .. n + 1 /\ timeline'[n + 1] = n + 1
      /\ \A i \in DOMAIN timeline' : (i \in DOMAIN timeline /\ timeline'[i] = timeline[i]) \/ (i = n + 1 /\ timeline'[i] = n + 1)
  BY <1>0, <1>2, AppendIs
<1> HIDE DEF n
<1>5. OneAtATime'
  BY <1>0, <1>1, <1>2, <1>3, <1>4 DEF OneAtATime
<1>6. Told' = Told /\ NextHeard' = NextHeard
  <2>1. Told' = n
    BY <1>0, <1>1, <1>2, <1>3 DEF Told
  <2>2. Told = n
    <3>1. \A q \in Publishers : pubs[q].at # "appended"
      BY <1>0, <1>2 DEF Idle
    <3> QED BY <3>1 DEF Told, n
  <2> QED BY <1>0, <2>1, <2>2 DEF NextHeard
<1>7. Stored' = Stored \cup {n + 1}
  <2>1. Stored' = 1 .. n + 1
    BY <1>4, <1>5 DEF Stored, ToSet, OneAtATime
  <2> QED BY <1>1, <2>1
<1>8. Counted' = Counted
  BY <1>0 DEF Counted
<1>9. OneChannel' /\ InTurn'
  BY <1>0, <1>6, <1>8, ChannelSame, StreamFacts, TurnSame
<1>10. NoGap'
  <2>1. ASSUME NEW u \in Users, NEW e \in Stored', e < LastOf(seen'[u]), e \notin ToSet(seen'[u])
        PROVE  e + ReplayMax <= n + 1
    <3>1. last[u] = LastOf(seen[u]) /\ last[u] \in Nat /\ last[u] <= n
      BY <1>1, LastIsStored
    <3>2. e \in Stored /\ e < LastOf(seen[u]) /\ e \notin ToSet(seen[u])
      BY <1>0, <1>1, <1>7, <2>1, <3>1
    <3>3. e + ReplayMax <= n
      BY <1>0, <3>2, StreamFacts DEF NoGap, Stored, n
    <3> QED BY <1>1, <3>2, <3>3, RealtimeAssumption
  <2> QED BY <1>4, <2>1 DEF NoGap, Stored
<1>11. ASSUME NEW c \in Conns PROVE StreamFits(c)'
  <2>1. StreamFits(c)
    BY <1>0, StreamFacts
  <2>2. ASSUME ReplayFits(c) PROVE ReplayFits(c)'
    <3>1. PICK len \in 0 .. n :
            /\ \A e \in 1 .. len : sub[c].last < e /\ len < e + ReplayMax => e \in task[c].events
            /\ \A e \in task[c].events : e <= len
            /\ \A e \in Stored : len < e /\ sub[c].last < e /\ e < NextHeard => e \in sub[c].buffer
      BY <2>2 DEF ReplayFits, n
    <3>2. len \in 0 .. Len(timeline')
      BY <1>1, <1>4
    <3>3. \A e \in Stored' : len < e /\ sub'[c].last < e /\ e < NextHeard' => e \in sub'[c].buffer
      BY <1>0, <1>1, <1>6, <1>7, <3>1
    <3> QED BY <1>0, <3>1, <3>2, <3>3 DEF ReplayFits
  <2> QED BY <1>0, <1>6, <2>1, <2>2 DEF StreamFits
<1> QED BY <1>5, <1>9, <1>10, <1>11 DEF StreamInv

LEMMA UndisturbedPublish ==
  ASSUME PagesInv, StreamInv, ~disturbed', NEW p \in Publishers, Publish(p)
  PROVE  StreamInv'
<1> DEFINE m == [kind |-> "event", seq |-> pubs[p].seq]
           n == Len(timeline)
           k == Len(inbox)
<1>0. /\ pubs \in [Publishers -> PubStates] /\ ~disturbed /\ inbox \in Seq(Messages) /\ Known
      /\ pubs[p].at = "appended" /\ pubs' = [pubs EXCEPT ![p] = Idle]
      /\ inbox' = IF channel THEN Append(inbox, m) ELSE inbox
      /\ UNCHANGED <<counter, timeline, channel, requests, refCount, clients, scanClients, sub, task, socket, seen>>
  BY DEF PagesInv, Types, Publish, gateway, browser
<1>1. /\ OneAtATime /\ OneChannel /\ InTurn /\ n \in Nat /\ Stored = 1 .. n /\ k \in Nat /\ DOMAIN inbox = 1 .. k
      /\ NextHeard \in Int /\ Told = NextHeard + k - 1 /\ refCount \in Nat /\ (refCount = 0 => Counted = {})
  BY <1>0, StreamFacts
<1>2. /\ pubs[p].seq = counter /\ counter = n /\ Told = n - 1
      /\ \A q \in Publishers \ {p} : pubs[q] = Idle
  <2>1. pubs[p] # Idle /\ pubs[p].seq = counter
    BY <1>0, <1>1 DEF OneAtATime, Idle
  <2>2. \A q \in Publishers \ {p} : pubs[q] = Idle
    BY <1>1, <2>1 DEF OneAtATime
  <2>3. counter = n
    BY <1>0, <1>1, <2>2 DEF OneAtATime, Idle
  <2>4. Told = n - 1
    BY <1>0, <2>3 DEF Told
  <2> QED BY <2>1, <2>2, <2>3, <2>4
<1>3. \A q \in Publishers : pubs'[q] = Idle /\ pubs'[q].at = "idle"
  BY <1>0, <1>2 DEF Idle
<1>4. OneAtATime'
  BY <1>0, <1>1, <1>2, <1>3 DEF OneAtATime
<1>5. Told' = n
  BY <1>0, <1>3 DEF Told
<1>6. Counted' = Counted
  BY <1>0 DEF Counted
<1>7. NoGap'
  BY <1>0, StreamFacts, GapSame
<1>m. m.kind = "event" /\ m.seq = n /\ m \in Messages
  BY <1>1, <1>2 DEF Messages
<1> HIDE DEF m
<1>8. CASE channel
  <2>1. /\ Len(inbox') = k + 1 /\ DOMAIN inbox' = 1 .. k + 1
        /\ \A i \in DOMAIN inbox : inbox'[i] = inbox[i]
        /\ \A i \in DOMAIN inbox' : (i \in DOMAIN inbox /\ inbox'[i] = inbox[i]) \/ (i = k + 1 /\ inbox'[i] = m)
    <3>1. inbox' = Append(inbox, m)
      BY <1>0, <1>8
    <3> QED BY <1>0, <1>m, <3>1, AppendIs
  <2> HIDE DEF k, n
  <2>2. NextHeard' = NextHeard
    <3>1. NextHeard' = n - (k + 1) + 1
      BY <1>5, <2>1 DEF NextHeard
    <3> QED BY <1>1, <1>2, <3>1
  <2>3. OneChannel'
    <3>1. \A i \in DOMAIN inbox' : inbox'[i].kind = "subscribed" => i \in DOMAIN inbox /\ inbox[i].kind = "subscribed"
      BY <1>m, <2>1
    <3> QED BY <1>0, <1>1, <1>6, <3>1 DEF OneChannel
  <2>4. InTurn'
    <3>1. ASSUME NEW i \in DOMAIN inbox',
                 refCount' > 0 \/ \E j \in 1 .. (i - 1) : inbox'[j].kind = "subscribed"
          PROVE  inbox'[i].kind = "event" /\ inbox'[i].seq = NextHeard' + i - 1
      <4>1. CASE i \in DOMAIN inbox /\ inbox'[i] = inbox[i]
        <5>1. \A j \in 1 .. (i - 1) : j \in DOMAIN inbox /\ inbox'[j] = inbox[j]
          BY <1>1, <2>1, <4>1
        <5> QED BY <1>0, <1>1, <2>2, <3>1, <4>1, <5>1 DEF InTurn
      <4>2. CASE i = k + 1 /\ inbox'[i] = m
        BY <1>1, <1>2, <1>m, <2>2, <4>2
      <4> QED BY <2>1, <3>1, <4>1, <4>2
    <3> QED BY <3>1 DEF InTurn
  <2>5. \A c \in Conns : StreamFits(c)'
    BY <1>0, <2>2, StreamFacts, StreamSame
  <2> QED BY <1>4, <1>7, <2>3, <2>4, <2>5 DEF StreamInv
<1>9. CASE ~channel
  <2>1. refCount = 0 /\ Counted = {} /\ inbox' = inbox /\ \A i \in DOMAIN inbox : inbox[i].kind # "subscribed"
    BY <1>0, <1>1, <1>9 DEF OneChannel
  <2>2. OneChannel'
    BY <1>0, <1>6, <2>1, ChannelSame
  <2>3. InTurn'
    <3>1. \A i \in DOMAIN inbox : \A j \in 1 .. (i - 1) : j \in DOMAIN inbox
      BY <1>1
    <3> QED BY <1>0, <2>1, <3>1 DEF InTurn
  <2>4. \A c \in Conns : ~(c \in clients' /\ sub'[c].live)
    BY <1>0, <2>1 DEF Counted
  <2> QED BY <1>4, <1>7, <2>2, <2>3, <2>4 DEF StreamInv, StreamFits
<1> QED BY <1>8, <1>9

LEMMA UndisturbedRedis ==
  ASSUME PagesInv, StreamInv, ~disturbed', RedisExecutes
  PROVE  StreamInv'
<1> DEFINE m == [kind |-> "subscribed", conn |-> requests[1].conn]
           k == Len(inbox)
<1>0. /\ requests \in Seq(Commands) /\ requests # <<>> /\ requests' = Tail(requests)
      /\ channel' = (requests[1].kind = "subscribe") /\ ~disturbed /\ inbox \in Seq(Messages)
      /\ inbox' = IF requests[1].kind = "subscribe" THEN Append(inbox, m) ELSE inbox
      /\ UNCHANGED <<counter, pubs, timeline, refCount, clients, scanClients, sub, task, socket, seen>>
  BY DEF PagesInv, Types, RedisExecutes, redis, gateway, browser
<1>1. /\ OneAtATime /\ OneChannel /\ refCount \in Nat /\ (refCount = 0 => Counted = {})
      /\ k \in Nat /\ DOMAIN inbox = 1 .. k
  BY <1>0, StreamFacts
<1>2. refCount = 0 /\ Counted = {} /\ \A i \in DOMAIN inbox : inbox[i].kind # "subscribed"
  BY <1>0, <1>1 DEF OneChannel
<1>3. /\ Len(requests) \in Nat \ {0} /\ Len(requests') = Len(requests) - 1 /\ DOMAIN requests = 1 .. Len(requests)
      /\ \A i \in DOMAIN requests' : i \in Nat /\ i + 1 \in DOMAIN requests /\ requests'[i] = requests[i + 1]
      /\ requests' \in Seq(Commands) /\ requests[1] \in Commands
  BY <1>0, TailIs
<1>4. OneAtATime' /\ NoGap' /\ Counted' = {}
  <2>1. OneAtATime'
    BY <1>0, <1>1 DEF OneAtATime
  <2>2. NoGap'
    BY <1>0, StreamFacts, GapSame
  <2>3. Counted' = {}
    BY <1>0, <1>2 DEF Counted
  <2> QED BY <2>1, <2>2, <2>3
<1>5. \A c \in Conns : StreamFits(c)'
  <2>1. \A c \in Conns : ~(c \in clients' /\ sub'[c].live)
    BY <1>4 DEF Counted
  <2> QED BY <2>1 DEF StreamFits
<1>6. \A i \in DOMAIN requests' : requests'[i].kind = "subscribe" => i = Len(requests')
  <2>1. ASSUME NEW i \in DOMAIN requests', requests'[i].kind = "subscribe" PROVE i = Len(requests')
    <3>1. i + 1 = Len(requests) /\ i \in Nat
      BY <1>1, <1>3, <2>1 DEF OneChannel
    <3> QED BY <1>3, <3>1
  <2> QED BY <2>1
<1>7. Cardinality(Counted') <= refCount'
  BY <1>0, <1>2, <1>4, FS_EmptySet
<1>8. CASE requests[1].kind # "subscribe"
  <2>1. OneChannel'
    BY <1>0, <1>1, <1>2, <1>6, <1>7, <1>8 DEF OneChannel
  <2>2. InTurn'
    <3>1. \A i \in DOMAIN inbox : \A j \in 1 .. (i - 1) : j \in DOMAIN inbox
      BY <1>1
    <3> QED BY <1>0, <1>2, <1>8, <3>1 DEF InTurn
  <2> QED BY <1>4, <1>5, <2>1, <2>2 DEF StreamInv
<1>9. CASE requests[1].kind = "subscribe"
  <2>1. requests' = <<>> /\ channel'
    <3>1. Len(requests) = 1
      BY <1>1, <1>3, <1>9 DEF OneChannel
    <3>2. Len(requests') = 0
      BY <1>3, <3>1
    <3> QED BY <1>0, <1>3, <1>9, <3>2, EmptySeq
  <2>m. m.kind = "subscribed" /\ m \in Messages
    BY <1>3, <1>9 DEF Messages, Commands
  <2> HIDE DEF m
  <2>2. /\ DOMAIN inbox' = 1 .. k + 1
        /\ \A i \in DOMAIN inbox : inbox'[i] = inbox[i]
    <3>1. inbox' = Append(inbox, m)
      BY <1>0, <1>9
    <3> QED BY <1>0, <2>m, <3>1, AppendIs
  <2> HIDE DEF k
  <2>3. OneChannel'
    BY <1>0, <1>1, <1>2, <1>6, <1>7, <2>1 DEF OneChannel
  <2>4. InTurn'
    <3>1. \A i \in DOMAIN inbox' : \A j \in 1 .. (i - 1) : j \in DOMAIN inbox
      BY <1>1, <2>2
    <3> QED BY <1>0, <1>2, <2>2, <3>1 DEF InTurn
  <2> QED BY <1>4, <1>5, <2>3, <2>4 DEF StreamInv
<1> QED BY <1>8, <1>9

LEMMA UndisturbedBroadcast ==
  ASSUME PagesInv, StreamInv, ~disturbed', NEW slow \in SUBSET Conns, Broadcast(slow)
  PROVE  StreamInv'
<1> DEFINE e == inbox[1].seq
           k == Len(inbox)
           n == Len(timeline)
<1>h. Hears(e, slow)
  BY BroadcastIs
<1>p. PagesInv'
  BY <1>h, HeardKeeps
<1> HIDE DEF e
<1>0. /\ e \in Stored /\ e \in Nat /\ inbox \in Seq(Messages) /\ inbox # <<>> /\ inbox[1].kind = "event"
      /\ inbox[1].seq = e /\ inbox' = Tail(inbox)
      /\ UNCHANGED <<counter, pubs, timeline, channel, requests, refCount, clients, scanClients, task, disturbed>>
      /\ sub \in [Conns -> Subs] /\ \A c \in Conns : ConnFits(c)
  BY <1>h DEF PagesInv, Types, Hears, redis
<1>c. \A c \in Conns :
        /\ sub'[c].live = sub[c].live /\ sub'[c].buffering = sub[c].buffering
        /\ sub'[c].last = IF c \in Reached(e, slow) THEN e ELSE sub[c].last
        /\ sub'[c].buffer = IF Accepts(c, e) /\ sub[c].buffering THEN sub[c].buffer \cup {e} ELSE sub[c].buffer
        /\ socket'[c] = IF c \in slow THEN "closed" ELSE socket[c]
        /\ c \in slow => Accepts(c, e) /\ socket[c] # "closed"
        /\ ~Accepts(c, e) => sub'[c] = sub[c]
  BY Zenon, <1>h DEF Hears
<1>o. \A c \in Conns : socket[c] = "open" =>
        IF c \in Reached(e, slow)
        THEN ToSet(seen'[Owner[c]]) = ToSet(seen[Owner[c]]) \cup {e} /\ last'[Owner[c]] = e
        ELSE seen'[Owner[c]] = seen[Owner[c]] /\ last'[Owner[c]] = last[Owner[c]]
  BY Zenon, <1>h DEF Hears
<1>u. \A u \in Users : \/ seen'[u] = seen[u] /\ last'[u] = last[u]
                       \/ \E c \in Reached(e, slow) : socket[c] = "open" /\ Owner[c] = u
  BY Zenon, <1>h DEF Hears
<1>1. /\ OneAtATime /\ OneChannel /\ InTurn /\ NoGap /\ (\A c \in Conns : StreamFits(c)) /\ ~disturbed
      /\ n \in Nat /\ Stored = 1 .. n /\ k \in Nat /\ DOMAIN inbox = 1 .. k
      /\ NextHeard \in Int /\ Told = NextHeard + k - 1 /\ Told \in Int /\ refCount \in Nat /\ (refCount = 0 => Counted = {})
  BY <1>0, StreamFacts
<1>2. /\ Len(inbox') = k - 1 /\ 1 \in DOMAIN inbox
      /\ \A i \in DOMAIN inbox' : i \in Nat /\ i + 1 \in DOMAIN inbox /\ inbox'[i] = inbox[i + 1]
      /\ DOMAIN inbox' = 1 .. k - 1
  <2>1. /\ Len(Tail(inbox)) = k - 1 /\ 1 \in DOMAIN inbox /\ Tail(inbox) \in Seq(Messages)
        /\ \A i \in DOMAIN Tail(inbox) : i \in Nat /\ i + 1 \in DOMAIN inbox /\ Tail(inbox)[i] = inbox[i + 1]
    BY <1>0, <1>1, TailIs
  <2>2. DOMAIN Tail(inbox) = 1 .. k - 1
    BY <2>1, LenProperties
  <2> QED BY <1>0, <2>1, <2>2
<1> HIDE DEF k, n
<1>3. OneAtATime' /\ NextHeard' = NextHeard + 1
  <2>1. OneAtATime' /\ Told' = Told
    BY <1>0, <1>1 DEF OneAtATime, Told
  <2>2. NextHeard' = Told - (k - 1) + 1
    BY <1>2, <2>1 DEF NextHeard
  <2> QED BY <1>1, <2>1, <2>2
<1>4. \A c \in Conns : c \in clients /\ sub[c].live => e = NextHeard
  <2>1. ASSUME NEW c \in Conns, c \in clients, sub[c].live PROVE e = NextHeard
    <3>1. c \in Counted
      BY <2>1 DEF Counted
    <3>2. refCount > 0
      BY <1>1, <3>1
    <3>3. inbox[1].seq = NextHeard + 1 - 1
      BY <1>1, <1>2, <3>2 DEF InTurn
    <3> QED BY <1>0, <1>1, <3>3
  <2> QED BY <2>1
<1>5. Counted' = Counted
  BY <1>0, <1>c DEF Counted
<1>6. OneChannel'
  <2>1. \A i \in DOMAIN inbox' : inbox'[i].kind = "subscribed" =>
          i + 1 \in DOMAIN inbox /\ inbox[i + 1].kind = "subscribed"
    BY <1>2
  <2>2. \A i \in DOMAIN inbox' : inbox'[i].kind = "subscribed" => channel /\ requests = <<>>
    BY <1>1, <2>1 DEF OneChannel
  <2> QED BY <1>0, <1>1, <1>5, <2>2 DEF OneChannel
<1>7. InTurn'
  <2>1. ASSUME NEW i \in DOMAIN inbox',
               refCount' > 0 \/ \E j \in 1 .. (i - 1) : inbox'[j].kind = "subscribed"
        PROVE  inbox'[i].kind = "event" /\ inbox'[i].seq = NextHeard' + i - 1
    <3>1. i \in Nat /\ i + 1 \in DOMAIN inbox /\ inbox'[i] = inbox[i + 1]
      BY <1>2
    <3>2. refCount > 0 \/ \E j \in 1 .. (i + 1 - 1) : inbox[j].kind = "subscribed"
      <4>1. \A j \in 1 .. (i - 1) : j + 1 \in 1 .. (i + 1 - 1) /\ inbox'[j] = inbox[j + 1]
        <5>1. \A j \in 1 .. (i - 1) : j \in DOMAIN inbox' /\ j + 1 \in 1 .. (i + 1 - 1)
          BY <1>1, <1>2, <3>1
        <5> QED BY <1>2, <5>1
      <4> QED BY <1>0, <2>1, <4>1
    <3>3. inbox[i + 1].kind = "event" /\ inbox[i + 1].seq = NextHeard + (i + 1) - 1
      BY <1>1, <3>1, <3>2 DEF InTurn
    <3> QED BY <1>1, <1>3, <3>1, <3>3
  <2> QED BY <2>1 DEF InTurn
<1>8. NoGap'
  <2>1. ASSUME NEW u \in Users, NEW x \in Stored, x < LastOf(seen'[u]), x \notin ToSet(seen'[u])
        PROVE  x + ReplayMax <= n
    <3>1. CASE seen'[u] = seen[u]
      BY <1>1, <2>1, <3>1 DEF NoGap, n, Stored
    <3>2. CASE seen'[u] # seen[u]
      <4>1. PICK c \in Reached(e, slow) : socket[c] = "open" /\ Owner[c] = u
        BY <1>u, <3>2
      <4>2. c \in Conns /\ c \in clients /\ sub[c].live /\ ~sub[c].buffering /\ sub[c].last < e
        BY <4>1 DEF Reached, Accepts
      <4>3. sub[c].last = last[u] /\ e <= last[u] + 1 /\ last[u] \in Nat /\ last[u] = LastOf(seen[u])
        <5>1. sub[c].last = last[u]
          BY <1>0, <4>1, <4>2 DEF ConnFits
        <5>2. NextHeard <= sub[c].last + 1 /\ e = NextHeard
          BY <1>1, <1>4, <4>1, <4>2 DEF StreamFits
        <5> QED BY <5>1, <5>2, LastIsStored
      <4>4. ToSet(seen'[u]) = ToSet(seen[u]) \cup {e} /\ LastOf(seen'[u]) = e
        <5>1. ToSet(seen'[u]) = ToSet(seen[u]) \cup {e} /\ last'[u] = e
          BY <1>o, <4>1, <4>2
        <5> QED BY <1>p, <5>1 DEF PagesInv, PageFits
      <4>5. x \in Nat /\ x <= LastOf(seen[u]) /\ x \notin ToSet(seen[u])
        BY <1>0, <1>1, <2>1, <4>3, <4>4
      <4>6. x # last[u]
        BY <1>1, <4>5, LastIsStored
      <4>7. x < LastOf(seen[u])
        BY <4>3, <4>5, <4>6
      <4> QED BY <1>1, <4>5, <4>7 DEF NoGap, n, Stored
    <3> QED BY <3>1, <3>2
  <2> QED BY <1>0, <2>1 DEF NoGap, n, Stored
<1>9. ASSUME NEW c \in Conns PROVE StreamFits(c)'
  <2>1. SUFFICES ASSUME c \in clients, sub[c].live, socket[c] = "open", c \notin slow
        PROVE  /\ ~sub'[c].buffering => NextHeard' <= sub'[c].last + 1
               /\ \A x \in sub'[c].buffer : x < NextHeard'
               /\ task'[c].at = "loaded" => ReplayFits(c)'
    BY <1>0, <1>c DEF StreamFits
  <2>2. /\ e = NextHeard /\ sub[c].last \in Nat /\ sub[c].buffer \subseteq Nat
        /\ ~sub[c].buffering => NextHeard <= sub[c].last + 1
        /\ \A x \in sub[c].buffer : x < NextHeard
        /\ task[c].at = "loaded" => ReplayFits(c)
    BY <1>0, <1>1, <1>4, <2>1 DEF StreamFits, Subs
  <2>3. Accepts(c, e) <=> e > sub[c].last
    BY <1>0, <2>1 DEF Accepts, ConnFits
  <2>4. ~sub'[c].buffering => NextHeard' <= sub'[c].last + 1
    <3>1. CASE c \in Reached(e, slow)
      <4>1. sub'[c].last = e
        BY <1>c, <3>1
      <4> QED BY <1>0, <1>3, <2>2, <4>1
    <3>2. CASE c \notin Reached(e, slow) /\ ~sub[c].buffering
      <4>1. ~(e > sub[c].last) /\ sub'[c].last = sub[c].last
        BY <1>c, <2>1, <2>3, <3>2 DEF Reached
      <4> QED BY <1>0, <1>3, <2>2, <4>1
    <3> QED BY <1>c, <3>1, <3>2
  <2>5. \A x \in sub'[c].buffer : x < NextHeard'
    <3>1. \A x \in sub'[c].buffer : x \in Nat /\ (x = e \/ x < NextHeard)
      <4>1. \A x \in sub'[c].buffer : x = e \/ x \in sub[c].buffer
        BY <1>c
      <4> QED BY <1>0, <2>2, <4>1
    <3> QED BY <1>1, <1>3, <2>2, <3>1
  <2>6. ASSUME task[c].at = "loaded" PROVE ReplayFits(c)'
    <3>1. sub[c].buffering /\ c \notin Reached(e, slow)
      BY <1>0, <2>1, <2>6 DEF ConnFits, Reached
    <3>2. PICK len \in 0 .. Len(timeline) :
            /\ \A x \in 1 .. len : sub[c].last < x /\ len < x + ReplayMax => x \in task[c].events
            /\ \A x \in task[c].events : x <= len
            /\ \A x \in Stored : len < x /\ sub[c].last < x /\ x < NextHeard => x \in sub[c].buffer
      BY <2>2, <2>6 DEF ReplayFits
    <3>3. sub'[c].last = sub[c].last
      BY <1>c, <3>1
    <3>4. \A x \in Stored : len < x /\ sub[c].last < x /\ x < NextHeard' => x \in sub'[c].buffer
      <4>1. ASSUME NEW x \in Stored, len < x, sub[c].last < x, x < NextHeard' PROVE x \in sub'[c].buffer
        <5>1. CASE x = e
          BY <1>c, <2>3, <3>1, <4>1, <5>1
        <5>2. CASE x # e
          <6>1. x < NextHeard
            BY <1>1, <1>3, <2>2, <4>1, <5>2
          <6> QED BY <1>c, <3>2, <4>1, <6>1
        <5> QED BY <5>1, <5>2
      <4> QED BY <4>1
    <3> QED BY <1>0, <3>2, <3>3, <3>4 DEF ReplayFits, Stored
  <2> QED BY <1>0, <2>4, <2>5, <2>6
<1> QED BY <1>3, <1>6, <1>7, <1>8, <1>9 DEF StreamInv

(* Dropping a subscription that was counted: the count goes with it.        *)
LEMMA UndisturbedForget ==
  ASSUME PagesInv, StreamInv, ~disturbed, NEW c \in Counted, Forget(c),
         Counted' \subseteq Counted \ {c}, UNCHANGED <<redis, channel, inbox, seen, socket>>,
         \A d \in Conns : task'[d].at = "subscribing" => task[d].at = "subscribing",
         \A d \in Conns : d \in clients' => d \in clients,
         \A d \in Conns : task'[d].at = "loaded" => task'[d] = task[d]
  PROVE  StreamInv'
<1>0. /\ c \in Conns /\ sub[c].live /\ sub \in [Conns -> Subs] /\ sub' = [sub EXCEPT ![c] = NoSub]
      /\ BusUnsubscribe /\ requests \in Seq(Commands) /\ ~NoSub.live
  BY DEF PagesInv, Types, Forget, Counted, NoSub
<1>1. /\ OneAtATime /\ OneChannel /\ InTurn /\ NoGap /\ (\A d \in Conns : StreamFits(d))
      /\ refCount \in Nat /\ (refCount = 0 => Counted = {}) /\ IsFiniteSet(Counted) /\ Cardinality(Counted) \in Nat
      /\ DOMAIN inbox = 1 .. Len(inbox) /\ Len(inbox) \in Nat
  BY StreamFacts
<1>2. refCount > 0 /\ channel /\ requests = <<>> /\ \A d \in Conns : task[d].at # "subscribing"
  BY <1>1 DEF OneChannel
<1>3. \A i \in DOMAIN inbox : inbox[i].kind # "subscribed"
  BY <1>1, <1>2, StreamFacts
<1>4. OneAtATime' /\ NextHeard' = NextHeard /\ NoGap'
  <2>1. NoGap'
    BY <1>1, GapSame DEF redis, NoGap
  <2> QED BY <1>1, <2>1, HeardSame
<1>5. Cardinality(Counted') \in Nat /\ Cardinality(Counted') <= Cardinality(Counted) - 1
  <2>1. IsFiniteSet(Counted \ {c}) /\ Cardinality(Counted \ {c}) = Cardinality(Counted) - 1
    BY <1>1, FS_RemoveElement
  <2>2. IsFiniteSet(Counted') /\ Cardinality(Counted') <= Cardinality(Counted \ {c})
    BY <2>1, FS_Subset
  <2>3. Cardinality(Counted') \in Nat
    BY <2>2, FS_CardinalityType
  <2> QED BY <2>1, <2>2, <2>3
<1>6. Cardinality(Counted) <= refCount
  BY <1>1 DEF OneChannel
<1>7. ASSUME NEW d \in Conns PROVE StreamFits(d)'
  <2>1. CASE d = c
    BY <1>0, <2>1 DEF StreamFits
  <2>2. CASE d # c
    BY <1>0, <1>1, <1>4, <2>2, StreamSame DEF redis
  <2> QED BY <2>1, <2>2
<1>8. CASE refCount <= 1
  <2>1. refCount' = 0 /\ requests' = Append(requests, [kind |-> "unsubscribe"])
    BY <1>0, <1>8 DEF BusUnsubscribe
  <2>2. requests' = <<[kind |-> "unsubscribe"]>>
    BY <1>2, <2>1
  <2>3. Cardinality(Counted') <= refCount'
    BY <1>1, <1>5, <1>6, <1>8, <2>1
  <2>4. \A i \in DOMAIN requests' : requests'[i].kind # "subscribe"
    BY <2>2
  <2>5. OneChannel'
    BY <1>2, <1>3, <2>1, <2>3, <2>4 DEF OneChannel
  <2>6. InTurn'
    <3>1. \A i \in DOMAIN inbox : \A j \in 1 .. (i - 1) : j \in DOMAIN inbox
      BY <1>1
    <3> QED BY <1>3, <2>1, <3>1 DEF InTurn
  <2> QED BY <1>4, <1>7, <2>5, <2>6 DEF StreamInv
<1>9. CASE ~(refCount <= 1)
  <2>1. refCount' = refCount - 1 /\ UNCHANGED requests
    BY <1>0, <1>9 DEF BusUnsubscribe
  <2>2. Cardinality(Counted') <= refCount'
    BY <1>1, <1>5, <1>6, <2>1
  <2>3. OneChannel'
    BY <1>1, <1>2, <1>3, <2>1, <2>2 DEF OneChannel
  <2>4. InTurn'
    BY <1>1, <1>2, <1>4, TurnSame
  <2> QED BY <1>4, <1>7, <2>3, <2>4 DEF StreamInv
<1> QED BY <1>8, <1>9

LEMMA UndisturbedSubscribed ==
  ASSUME PagesInv, StreamInv, ~disturbed', Subscribed
  PROVE  StreamInv'
<1> DEFINE c == inbox[1].conn
           k == Len(inbox)
           r == [last |-> task[c].from, buffering |-> TRUE, buffer |-> {}, live |-> TRUE]
<1>0. /\ Waiting /\ sub \in [Conns -> Subs] /\ task \in [Conns -> Tasks] /\ ~disturbed
      /\ inbox \in Seq(Messages) /\ inbox # <<>> /\ inbox[1].kind = "subscribed" /\ inbox' = Tail(inbox)
      /\ refCount' = 1 /\ sub' = [sub EXCEPT ![c] = r]
      /\ task' = [task EXCEPT ![c] = [at |-> "loading", existing |-> task[c].existing, from |-> task[c].from]]
      /\ UNCHANGED <<counter, pubs, timeline, channel, requests, clients, socket, seen, disturbed>>
  BY DEF PagesInv, Types, Subscribed, Install, redis, browser
<1>1. /\ OneAtATime /\ OneChannel /\ InTurn /\ NoGap /\ refCount \in Nat /\ (refCount = 0 => Counted = {})
      /\ NextHeard \in Int /\ Told = NextHeard + k - 1 /\ Told \in Int /\ k \in Nat /\ DOMAIN inbox = 1 .. k
  BY <1>0, StreamFacts
<1>2. /\ Len(inbox') = k - 1 /\ 1 \in DOMAIN inbox /\ inbox[1] \in Messages
      /\ \A i \in DOMAIN inbox' : i \in Nat \ {0} /\ i + 1 \in DOMAIN inbox /\ inbox'[i] = inbox[i + 1]
      /\ DOMAIN inbox' = 1 .. k - 1
  <2>1. /\ Len(Tail(inbox)) = k - 1 /\ 1 \in DOMAIN inbox /\ Tail(inbox) \in Seq(Messages) /\ inbox[1] \in Messages
        /\ \A i \in DOMAIN Tail(inbox) : i \in Nat /\ i + 1 \in DOMAIN inbox /\ Tail(inbox)[i] = inbox[i + 1]
    BY <1>0, <1>1, TailIs
  <2>2. DOMAIN Tail(inbox) = 1 .. k - 1
    BY <2>1, LenProperties
  <2>3. \A i \in 1 .. k - 1 : i # 0
    BY <1>1
  <2> QED BY <1>0, <2>1, <2>2, <2>3
<1>3. c \in Conns /\ Answered(c, 1)
  BY <1>0, <1>2 DEF Messages, Answered
<1>4. task[c].at = "subscribing" /\ refCount = 0 /\ Counted = {} /\ channel /\ requests = <<>>
  <2>1. task[c].at = "subscribing"
    BY <1>0, <1>2, <1>3 DEF Waiting
  <2> QED BY <1>0, <1>1, <1>2, <1>3, <2>1 DEF OneChannel
<1> HIDE DEF c, r, k
<1>5. /\ sub'[c] = r /\ task'[c].at = "loading" /\ \A d \in Conns \ {c} : sub'[d] = sub[d] /\ task'[d] = task[d]
      /\ r.buffering /\ r.buffer = {}
  BY <1>0, <1>3 DEF r
<1>6. OneAtATime' /\ NextHeard' = NextHeard + 1 /\ NoGap'
  <2>1. OneAtATime' /\ Told' = Told
    BY <1>0, <1>1 DEF OneAtATime, Told
  <2>2. NextHeard' = Told - (k - 1) + 1
    BY <1>2, <2>1 DEF NextHeard
  <2>3. NoGap'
    BY <1>0, <1>1, GapSame
  <2> QED BY <1>1, <2>1, <2>2, <2>3
<1>7. Cardinality(Counted') <= refCount'
  <2>1. Counted' \subseteq {c}
    BY <1>0, <1>4, <1>5 DEF Counted
  <2>2. Cardinality({c}) = 1 /\ IsFiniteSet({c})
    BY FS_Singleton
  <2>3. Cardinality(Counted') <= 1
    BY <2>1, <2>2, FS_Subset
  <2> QED BY <1>0, <2>3
<1>8. OneChannel'
  <2>1. \A d \in Conns : task'[d].at # "subscribing"
    BY <1>1, <1>3, <1>4, <1>5 DEF OneChannel
  <2> QED BY <1>0, <1>4, <1>7, <2>1 DEF OneChannel
<1>9. InTurn'
  <2>1. ASSUME NEW i \in DOMAIN inbox'
        PROVE  inbox'[i].kind = "event" /\ inbox'[i].seq = NextHeard' + i - 1
    <3>1. i \in Nat \ {0} /\ i + 1 \in DOMAIN inbox /\ inbox'[i] = inbox[i + 1]
      BY <1>2
    <3>2. 1 \in 1 .. (i + 1 - 1) /\ inbox[1].kind = "subscribed"
      BY <1>0, <3>1
    <3>3. inbox[i + 1].kind = "event" /\ inbox[i + 1].seq = NextHeard + (i + 1) - 1
      BY <1>1, <3>1, <3>2 DEF InTurn
    <3> QED BY <1>1, <1>6, <3>1, <3>3
  <2> QED BY <2>1 DEF InTurn
<1>10. ASSUME NEW d \in Conns PROVE StreamFits(d)'
  <2>1. CASE d = c
    BY <1>5, <2>1 DEF StreamFits
  <2>2. CASE d # c
    <3>1. ~(d \in clients' /\ sub'[d].live)
      BY <1>0, <1>4, <1>5, <2>2 DEF Counted
    <3> QED BY <3>1 DEF StreamFits
  <2> QED BY <2>1, <2>2
<1> QED BY <1>6, <1>8, <1>9, <1>10 DEF StreamInv

LEMMA UndisturbedAuthorized ==
  ASSUME PagesInv, StreamInv, ~disturbed', NEW c \in Conns, Authorized(c)
  PROVE  StreamInv'
<1>0. /\ Waiting /\ ConnFits(c) /\ sub \in [Conns -> Subs] /\ task \in [Conns -> Tasks]
      /\ requests \in Seq(Commands) /\ task[c].at = "authorizing"
      /\ UNCHANGED <<counter, pubs, timeline, channel, inbox, clients, socket, seen>>
  BY DEF PagesInv, Types, Authorized, redis, browser
<1>1. task[c].existing \in BOOLEAN /\ Types
  BY <1>0, TaskFacts DEF Ways, PagesInv
<1>f. ASSUME ~disturbed
      PROVE  /\ OneAtATime /\ OneChannel /\ InTurn /\ NoGap /\ \A d \in Conns : StreamFits(d)
             /\ refCount \in Nat /\ (refCount = 0 => Counted = {}) /\ IsFiniteSet(Counted) /\ Cardinality(Counted) \in Nat
             /\ OneAtATime' /\ NextHeard' = NextHeard /\ NoGap'
  <2>1. /\ OneAtATime /\ OneChannel /\ InTurn /\ NoGap /\ \A d \in Conns : StreamFits(d)
        /\ refCount \in Nat /\ (refCount = 0 => Counted = {}) /\ IsFiniteSet(Counted) /\ Cardinality(Counted) \in Nat
    BY <1>f, StreamFacts
  <2>2. OneAtATime' /\ NextHeard' = NextHeard
    BY <1>0, <2>1, HeardSame DEF redis
  <2> QED BY <1>0, <1>f, <2>1, <2>2, GapSame
<1>i. ASSUME ~disturbed, NEW from, Install(c, from), task[c].existing \/ ~sub[c].live
      PROVE  /\ \A d \in Conns : StreamFits(d)'
             /\ \A d \in Conns : task'[d].at = "subscribing" => task[d].at = "subscribing"
             /\ IF task[c].existing THEN Counted' \subseteq Counted \cup {x \in {c} : c \in clients /\ ~sub[c].live}
                ELSE c \notin Counted /\ Counted' \subseteq Counted \cup {c}
  <2>1. /\ sub'[c] = [last |-> from, buffering |-> TRUE, buffer |-> {}, live |-> TRUE]
        /\ task'[c] = [at |-> "loading", existing |-> task[c].existing, from |-> from]
        /\ \A d \in Conns \ {c} : sub'[d] = sub[d] /\ task'[d] = task[d]
    BY <1>0, <1>i DEF Install
  <2>2. ASSUME NEW d \in Conns PROVE StreamFits(d)'
    <3>1. CASE d = c
      BY <2>1, <3>1 DEF StreamFits
    <3>2. CASE d # c
      BY <1>0, <1>i, <1>f, <2>1, <3>2, StreamSame
    <3> QED BY <3>1, <3>2
  <2>3. \A d \in Conns \ {c} : d \in Counted' => d \in Counted
    BY <1>0, <2>1 DEF Counted
  <2>4. task[c].existing /\ c \in Counted' => c \in clients
    BY <1>0, <2>1 DEF Counted
  <2>5. c \in clients /\ sub[c].live => c \in Counted
    BY DEF Counted
  <2>6. Counted' \subseteq Conns
    BY DEF Counted
  <2>7. ~sub[c].live => c \notin Counted
    BY DEF Counted
  <2> QED BY <1>i, <2>1, <2>2, <2>3, <2>4, <2>5, <2>6, <2>7
<1>3. CASE /\ task[c].existing
           /\ Install(c, IF sub[c].live THEN sub[c].last ELSE task[c].from)
           /\ UNCHANGED <<refCount, requests, disturbed>>
  <2> DEFINE from == IF sub[c].live THEN sub[c].last ELSE task[c].from
  <2>1. ~disturbed /\ Install(c, from)
    BY <1>3
  <2> HIDE DEF from
  <2>2. c \in clients => sub[c].live
    BY <1>0, <1>3 DEF ConnFits
  <2>3. /\ \A d \in Conns : StreamFits(d)'
        /\ \A d \in Conns : task'[d].at = "subscribing" => task[d].at = "subscribing"
        /\ Counted' \subseteq Counted
    BY <1>3, <1>i, <2>1, <2>2
  <2> QED BY <1>0, <1>3, <2>1, <2>3, QuietStream DEF redis
<1>4. CASE /\ ~task[c].existing /\ refCount > 0
           /\ refCount' = refCount + 1
           /\ Install(c, task[c].from)
           /\ UNCHANGED <<requests, disturbed>>
  <2>1. ~disturbed /\ ~sub[c].live
    BY <1>0, <1>4 DEF ConnFits
  <2>2. /\ \A d \in Conns : StreamFits(d)'
        /\ \A d \in Conns : task'[d].at = "subscribing" => task[d].at = "subscribing"
        /\ c \notin Counted /\ Counted' \subseteq Counted \cup {c}
    BY <1>4, <1>i, <2>1
  <2>3. Cardinality(Counted') <= refCount'
    <3>1. IsFiniteSet(Counted \cup {c}) /\ Cardinality(Counted \cup {c}) = Cardinality(Counted) + 1
      BY <1>f, <2>1, <2>2, FS_AddElement
    <3>2. IsFiniteSet(Counted') /\ Cardinality(Counted') <= Cardinality(Counted \cup {c})
      BY <2>2, <3>1, FS_Subset
    <3>3. Cardinality(Counted') \in Nat /\ Cardinality(Counted) <= refCount
      BY <1>f, <2>1, <3>2, FS_CardinalityType DEF OneChannel
    <3> QED BY <1>4, <1>f, <2>1, <3>1, <3>2, <3>3
  <2>4. OneChannel'
    <3>1. refCount # 0 /\ (\A d \in Conns : task[d].at # "subscribing") /\ channel /\ requests = <<>>
      BY <1>4, <1>f, <2>1 DEF OneChannel
    <3> QED BY <1>0, <1>4, <1>f, <2>1, <2>2, <2>3, <3>1 DEF OneChannel
  <2>5. InTurn'
    BY <1>0, <1>4, <1>f, <2>1, TurnSame
  <2> QED BY <1>f, <2>1, <2>2, <2>4, <2>5 DEF StreamInv
<1>5. CASE /\ ~task[c].existing /\ refCount = 0
           /\ requests' = Append(requests, [kind |-> "subscribe", conn |-> c])
           /\ task' = [task EXCEPT ![c].at = "subscribing"]
           /\ disturbed' = (disturbed \/ \E d \in Conns : task[d].at = "subscribing")
           /\ UNCHANGED <<refCount, sub, scanClients>>
  <2> DEFINE m == [kind |-> "subscribe", conn |-> c]
  <2>1. ~disturbed /\ (\A d \in Conns : task[d].at # "subscribing") /\ Counted = {}
    <3>1. ~disturbed /\ \A d \in Conns : task[d].at # "subscribing"
      BY <1>5
    <3> QED BY <1>5, <1>f, <3>1
  <2>2. \A d \in Conns \ {c} : task'[d] = task[d]
    BY <1>0, <1>5
  <2>3. task'[c] = [task[c] EXCEPT !.at = "subscribing"] /\ task[c] \in [at : Ways, existing : BOOLEAN, from : Nat]
    BY <1>0, <1>5 DEF Tasks, Idle
  <2>4. task'[c].at = "subscribing"
    BY <2>3
  <2>5. \A i \in DOMAIN requests : requests[i].kind # "subscribe"
    <3>1. ASSUME NEW i \in DOMAIN requests, requests[i].kind = "subscribe" PROVE FALSE
      <4>1. requests[i] \in Commands
        BY <1>0, ElementOfSeq, LenProperties
      <4>2. requests[i].conn \in Conns /\ Asked(requests[i].conn, i)
        BY <3>1, <4>1 DEF Commands, Asked
      <4> QED BY <1>0, <2>1, <4>2 DEF Waiting
    <3> QED BY <3>1
  <2>6. \A i \in DOMAIN inbox : inbox[i].kind # "subscribed"
    <3>1. ASSUME NEW i \in DOMAIN inbox, inbox[i].kind = "subscribed" PROVE FALSE
      <4>1. inbox[i] \in Messages
        BY ElementOfSeq, LenProperties DEF PagesInv, Types
      <4>2. inbox[i].conn \in Conns /\ Answered(inbox[i].conn, i)
        BY <3>1, <4>1 DEF Messages, Answered
      <4> QED BY <1>0, <2>1, <4>2 DEF Waiting
    <3> QED BY <3>1
  <2>m. m \in Commands
    BY DEF Commands
  <2> HIDE DEF m
  <2>7. /\ Len(requests') = Len(requests) + 1
        /\ \A i \in DOMAIN requests' : (i \in DOMAIN requests /\ requests'[i] = requests[i]) \/ i = Len(requests) + 1
    <3>1. requests' = Append(requests, m)
      BY <1>5 DEF m
    <3> QED BY <1>0, <2>m, <3>1, AppendIs
  <2>8. Counted' = {}
    <3>1. ASSUME NEW d \in Conns PROVE d \notin Counted'
      <4>1. d \notin Counted
        BY <2>1
      <4> QED BY <1>0, <1>5, <2>2, <2>4, <4>1 DEF Counted
    <3>2. Counted' \subseteq Conns
      BY DEF Counted
    <3> QED BY <3>1, <3>2
  <2>9. OneChannel'
    <3>1. Cardinality(Counted') <= refCount'
      BY <1>5, <2>8, FS_EmptySet
    <3>2. \A d, x \in Conns : task'[d].at = "subscribing" /\ task'[x].at = "subscribing" => d = x
      BY <2>1, <2>2
    <3>3. \A i \in DOMAIN requests' : requests'[i].kind = "subscribe" => i = Len(requests')
      BY <2>5, <2>7
    <3> QED BY <1>0, <1>5, <2>6, <3>1, <3>2, <3>3 DEF OneChannel
  <2>10. InTurn'
    BY <1>0, <1>5, <1>f, <2>1, TurnSame
  <2>11. \A d \in Conns : ~(d \in clients' /\ sub'[d].live)
    BY <2>8 DEF Counted
  <2> QED BY <1>f, <2>1, <2>9, <2>10, <2>11 DEF StreamInv, StreamFits
<1> QED BY <1>3, <1>4, <1>5 DEF Authorized

LEMMA UndisturbedRead ==
  ASSUME PagesInv, StreamInv, ~disturbed', NEW c \in Conns, ReadTimeline(c)
  PROVE  StreamInv'
<1> DEFINE got == {e \in ToSet(Recent) : e > task[c].from}
           t == [at |-> "loaded", existing |-> task[c].existing, events |-> got]
           n == Len(timeline)
<1>0. /\ ConnFits(c) /\ Types /\ task \in [Conns -> Tasks] /\ task[c].at = "loading" /\ task' = [task EXCEPT ![c] = t]
      /\ UNCHANGED <<redis, channel, requests, inbox, refCount, clients, scanClients, sub, socket, seen, disturbed>>
  BY DEF PagesInv, Types, ReadTimeline, Recent, link, browser
<1>1. /\ \A d \in Conns : StreamFits(d)
      /\ n \in Nat /\ Stored = 1 .. n /\ NextHeard \in Int /\ OneAtATime /\ ~disturbed /\ NextHeard' = NextHeard
  <2>1. ~disturbed /\ UNCHANGED <<redis, inbox>>
    BY <1>0
  <2>2. /\ \A d \in Conns : StreamFits(d)
        /\ n \in Nat /\ Stored = 1 .. n /\ NextHeard \in Int /\ OneAtATime
    BY <2>1, StreamFacts
  <2> QED BY <2>1, <2>2, HeardSame
<1>2. got \subseteq 1 .. n /\ \A e \in 1 .. n : e > task[c].from /\ n < e + ReplayMax => e \in got
  <2>1. ToSet(Recent) \subseteq Stored
    BY <1>0, RecentIs
  <2>2. \A e \in 1 .. n : n < e + ReplayMax => e \in ToSet(Recent)
    <3>1. \A e \in 1 .. n : n < e + ReplayMax => timeline[e] \in ToSet(Recent)
      BY <1>0, RecentIs
    <3>2. \A e \in 1 .. n : timeline[e] = e
      BY <1>0, <1>1, RecentIs DEF OneAtATime
    <3> QED BY <3>1, <3>2
  <2> QED BY <1>1, <2>1, <2>2
<1> HIDE DEF got
<1>3. /\ task'[c].at = "loaded" /\ task'[c].events = got /\ \A d \in Conns \ {c} : task'[d] = task[d]
  BY <1>0
<1>4. ASSUME NEW d \in Conns PROVE StreamFits(d)'
  <2>1. CASE d = c
    <3>1. SUFFICES ASSUME c \in clients, sub[c].live, socket[c] = "open" PROVE ReplayFits(c)'
      BY <1>0, <1>1, <1>3, <2>1 DEF StreamFits
    <3>2. task[c].from = sub[c].last
      BY <1>0, <3>1 DEF ConnFits
    <3>3. n \in 0 .. Len(timeline') /\ timeline' = timeline
      BY <1>0, <1>1 DEF redis
    <3>4. \A e \in 1 .. n : sub'[c].last < e /\ n < e + ReplayMax => e \in task'[c].events
      <4>1. sub[c].last \in Nat
        BY <1>0 DEF Types, Subs
      <4> QED BY <1>0, <1>1, <1>2, <1>3, <3>2, <4>1
    <3>5. \A e \in task'[c].events : e <= n
      <4>1. \A e \in got : e \in 1 .. n
        BY <1>2
      <4>2. \A e \in got : e <= n
        BY <1>1, <4>1
      <4> QED BY <1>3, <4>2
    <3>6. \A e \in Stored' : ~(n < e)
      BY <1>1, <3>3 DEF Stored
    <3> QED BY <3>3, <3>4, <3>5, <3>6 DEF ReplayFits
  <2>2. CASE d # c
    BY <1>0, <1>1, <1>3, <2>2, StreamSame DEF redis
  <2> QED BY <2>1, <2>2
<1>5. Counted' \subseteq Counted
  BY <1>0, <1>3 DEF Counted
<1>6. \A d \in Conns : task'[d].at = "subscribing" => task[d].at = "subscribing"
  BY <1>3
<1> QED BY <1>0, <1>1, <1>4, <1>5, <1>6, QuietStream

LEMMA UndisturbedDeliver ==
  ASSUME PagesInv, StreamInv, ~disturbed', NEW c \in Conns, Deliver(c)
  PROVE  StreamInv'
<1> DEFINE n == Len(timeline)
<1>0. /\ ConnFits(c) /\ Types /\ Known /\ sub \in [Conns -> Subs] /\ task \in [Conns -> Tasks]
      /\ task[c].at = "loaded" /\ task' = [task EXCEPT ![c] = Idle]
      /\ UNCHANGED <<redis, channel, requests, inbox, refCount, clients, scanClients, disturbed>>
      /\ PagesInv'
  BY DeliverKeeps DEF PagesInv, Types, Deliver, link
<1>1. /\ OneAtATime /\ OneChannel /\ InTurn /\ NoGap /\ \A d \in Conns : StreamFits(d)
      /\ n \in Nat /\ Stored = 1 .. n /\ NextHeard \in Int /\ NextHeard <= n + 1 /\ ~disturbed
  <2>1. ~disturbed
    BY <1>0
  <2> QED BY <2>1, StreamFacts
<1>2. OneAtATime' /\ NextHeard' = NextHeard
  BY <1>0, <1>1, HeardSame
<1>3. task'[c].at = "idle" /\ \A d \in Conns \ {c} : task'[d] = task[d]
  BY <1>0 DEF Idle
<1>4. \A d \in Conns : task'[d].at = "subscribing" => task[d].at = "subscribing"
  BY <1>3
<1>5. CASE ~sub[c].live
  <2>1. UNCHANGED <<sub, socket, seen, last>>
    BY <1>5 DEF Deliver
  <2>2. Counted' \subseteq Counted
    BY <1>0, <1>3, <2>1 DEF Counted
  <2>3. ASSUME NEW d \in Conns PROVE StreamFits(d)'
    <3>1. StreamFits(d) /\ (task'[d].at = "loaded" => task'[d] = task[d])
      BY <1>1, <1>3
    <3> QED BY <1>0, <1>2, <2>1, <3>1, StreamSame DEF redis
  <2> QED BY <1>0, <1>1, <1>4, <2>1, <2>2, <2>3, QuietStream
<1>6. CASE sub[c].live
  <2>1. PICK sent, end : Hands(c, sent, end)
    BY <1>6, DeliverIs
  <2> DEFINE r == [last |-> end, buffering |-> FALSE, buffer |-> {}, live |-> TRUE]
  <2>2. /\ sent \subseteq ToSend(c) /\ end \in Nat
        /\ IF sent = {} THEN end = sub[c].last ELSE end \in sent /\ \A e \in sent : e <= end
        /\ \A e \in ToSend(c) : e <= end => e \in sent
        /\ socket'[c] # "closed" => sent = ToSend(c)
        /\ sub' = [sub EXCEPT ![c] = r]
        /\ socket' = [socket EXCEPT ![c] = socket'[c]] /\ socket'[c] \in {socket[c], "closed"}
        /\ socket[c] = "open" =>
             /\ ToSet(seen'[Owner[c]]) = ToSet(seen[Owner[c]]) \cup sent
             /\ last'[Owner[c]] = end
    BY Zenon, <2>1 DEF Hands
  <2>3. \A u \in Users : (socket[c] = "open" /\ Owner[c] = u) \/ (seen'[u] = seen[u] /\ last'[u] = last[u])
    BY Zenon, <2>1 DEF Hands
  <2>4. /\ sub'[c] = r /\ r.live /\ ~r.buffering /\ r.buffer = {} /\ r.last = end
        /\ \A d \in Conns \ {c} : sub'[d] = sub[d] /\ socket'[d] = socket[d]
    BY <1>0, <2>2 DEF Types
  <2> HIDE DEF r, n
  <2>5. \A e \in ToSend(c) : e \in 1 .. n /\ sub[c].last < e /\ e \in sub[c].buffer \cup task[c].events
    BY <1>0, <1>1 DEF ToSend, Known
  <2>6. sub[c].last \in Nat /\ sub[c].last <= end
    <3>1. sub[c].last \in Nat
      BY <1>0 DEF Subs
    <3>2. CASE sent = {}
      BY <2>2, <3>1, <3>2
    <3>3. CASE sent # {}
      <4>1. end \in ToSend(c)
        BY <2>2, <3>3
      <4> QED BY <2>2, <2>5, <3>1, <4>1
    <3> QED BY <3>2, <3>3
  <2>7. Counted' \subseteq Counted
    BY <1>0, <1>3, <1>6, <2>4 DEF Counted
  <2>8. OneChannel' /\ InTurn'
    BY <1>0, <1>1, <1>2, <1>4, <2>7, ChannelSame, TurnSame
  <2>r. ASSUME socket[c] = "open"
        PROVE  \E len \in 0 .. n :
                 /\ \A e \in 1 .. len : sub[c].last < e /\ len < e + ReplayMax => e \in task[c].events
                 /\ \A e \in task[c].events : e <= len
                 /\ \A e \in Stored : len < e /\ sub[c].last < e /\ e < NextHeard => e \in sub[c].buffer
                 /\ \A e \in sub[c].buffer : e < NextHeard
    <3>1. c \in clients /\ StreamFits(c)
      BY <1>0, <1>1, <2>r DEF ConnFits
    <3>2. ReplayFits(c) /\ \A e \in sub[c].buffer : e < NextHeard
      BY <1>0, <1>6, <2>r, <3>1 DEF StreamFits
    <3> QED BY <3>2 DEF ReplayFits, n
  <2>9. ASSUME NEW d \in Conns PROVE StreamFits(d)'
    <3>1. CASE d # c
      BY <1>0, <1>1, <1>2, <1>3, <2>4, <3>1, StreamSame DEF redis
    <3>2. CASE d = c
      <4>1. SUFFICES ASSUME socket'[c] = "open" PROVE NextHeard <= end + 1
        BY <1>2, <1>3, <2>4, <3>2 DEF StreamFits
      <4>2. socket[c] = "open" /\ sent = ToSend(c)
        BY <2>2, <4>1
      <4>3. PICK len \in 0 .. n :
              /\ \A e \in 1 .. len : sub[c].last < e /\ len < e + ReplayMax => e \in task[c].events
              /\ \A e \in Stored : len < e /\ sub[c].last < e /\ e < NextHeard => e \in sub[c].buffer
        BY <2>r, <4>2
      <4>4. \A e \in ToSend(c) : e <= end
        BY <2>2, <4>2
      <4> DEFINE x == NextHeard - 1
      <4>5. CASE x <= sub[c].last
        BY <1>1, <2>2, <2>6, <4>5
      <4>6. CASE ~(x <= sub[c].last)
        <5>1. x \in Stored /\ x < NextHeard /\ sub[c].last < x
          BY <1>1, <2>6, <4>6
        <5>2. CASE len < x
          <6>1. x \in sub[c].buffer
            BY <4>3, <5>1, <5>2
          <6>2. x \in ToSend(c)
            BY <5>1, <6>1 DEF ToSend
          <6>3. x <= end
            BY <4>4, <6>2
          <6> QED BY <1>1, <2>2, <6>3
        <5>3. CASE ~(len < x)
          <6>1. len \in 1 .. len /\ sub[c].last < len /\ len < len + ReplayMax
            BY <1>1, <2>6, <5>1, <5>3, RealtimeAssumption
          <6>2. len \in ToSend(c)
            BY <4>3, <6>1 DEF ToSend
          <6>3. len <= end
            BY <4>4, <6>2
          <6> QED BY <1>1, <2>2, <5>3, <6>3
        <5> QED BY <5>2, <5>3
      <4> QED BY <4>5, <4>6
    <3> QED BY <3>1, <3>2
  <2>10. NoGap'
    <3>1. ASSUME NEW u \in Users, NEW x \in Stored, x < LastOf(seen'[u]), x \notin ToSet(seen'[u])
          PROVE  x + ReplayMax <= n
      <4>1. CASE ~(socket[c] = "open" /\ Owner[c] = u)
        BY <1>1, <2>3, <3>1, <4>1 DEF NoGap, Stored, n
      <4>2. CASE socket[c] = "open" /\ Owner[c] = u
        <5>1. ToSet(seen'[u]) = ToSet(seen[u]) \cup sent /\ LastOf(seen'[u]) = end
          BY <1>0, <2>2, <4>2 DEF PagesInv, PageFits
        <5>2. sub[c].last = LastOf(seen[u]) /\ x \notin ToSet(seen[u]) /\ x \notin sent /\ x < end /\ x \in 1 .. n
          <6>1. sub[c].last = last[u]
            BY <1>0, <1>6, <4>2 DEF ConnFits
          <6> QED BY <1>1, <3>1, <5>1, <6>1, LastIsStored
        <5>3. CASE x < sub[c].last
          BY <1>1, <3>1, <5>2, <5>3 DEF NoGap, Stored, n
        <5>4. CASE ~(x < sub[c].last)
          <6>1. x # sub[c].last
            BY <1>1, <5>2, LastIsStored
          <6>2. sub[c].last < x
            BY <2>6, <5>2, <5>4, <6>1
          <6>3. x \notin ToSend(c)
            BY <2>2, <5>2
          <6>4. x \notin sub[c].buffer /\ x \notin task[c].events
            BY <6>2, <6>3 DEF ToSend
          <6>5. PICK len \in 0 .. n :
                  /\ \A e \in 1 .. len : sub[c].last < e /\ len < e + ReplayMax => e \in task[c].events
                  /\ \A e \in task[c].events : e <= len
                  /\ \A e \in Stored : len < e /\ sub[c].last < e /\ e < NextHeard => e \in sub[c].buffer
                  /\ \A e \in sub[c].buffer : e < NextHeard
            BY <2>r, <4>2
          <6>6. sent # {} /\ end \in ToSend(c)
            BY <2>2, <5>2, <6>2
          <6>7. CASE x <= len
            <7>1. ~(len < x + ReplayMax)
              BY <1>1, <5>2, <6>2, <6>4, <6>5, <6>7
            <7> QED BY <1>1, <5>2, <6>5, <7>1, RealtimeAssumption
          <6>8. CASE ~(x <= len)
            <7>1. end \in sub[c].buffer
              <8>1. ~(end <= len)
                BY <2>2, <5>2, <6>8
              <8> QED BY <2>5, <6>5, <6>6, <8>1
            <7>2. end < NextHeard
              BY <6>5, <7>1
            <7>3. x < NextHeard /\ len < x
              BY <1>1, <2>2, <5>2, <6>8, <7>2
            <7> QED BY <3>1, <6>2, <6>4, <6>5, <7>3
          <6> QED BY <6>7, <6>8
        <5> QED BY <5>3, <5>4
      <4> QED BY <4>1, <4>2
    <3> QED BY <1>0, <3>1 DEF NoGap, Stored, n, redis
  <2> QED BY <1>2, <2>8, <2>9, <2>10 DEF StreamInv
<1> QED BY <1>5, <1>6

LEMMA UndisturbedLoadFails ==
  ASSUME PagesInv, StreamInv, ~disturbed', NEW c \in Conns, LoadFails(c)
  PROVE  StreamInv'
<1>0. /\ task \in [Conns -> Tasks] /\ task[c].at = "loading" /\ task' = [task EXCEPT ![c] = Idle]
      /\ UNCHANGED <<redis, channel, inbox, clients, socket, seen, disturbed>> /\ ~disturbed
      /\ sub \in [Conns -> Subs]
  BY DEF PagesInv, Types, LoadFails, browser
<1>1. task'[c] = Idle /\ task'[c].at = "idle" /\ \A d \in Conns \ {c} : task'[d] = task[d]
  BY <1>0 DEF Idle
<1>2. \A d \in Conns : task'[d].at = "subscribing" => task[d].at = "subscribing"
  BY <1>1
<1>3. \A d \in Conns : task'[d].at = "loaded" => task'[d] = task[d]
  BY <1>1
<1>4. CASE (task[c].existing \/ ~sub[c].live) /\ UNCHANGED <<sub, scanClients, refCount, requests>>
  <2>1. Counted' \subseteq Counted
    BY <1>0, <1>1, <1>4 DEF Counted
  <2>2. NextHeard' = NextHeard
    BY <1>0, StreamFacts, HeardSame
  <2>3. \A d \in Conns : StreamFits(d)'
    BY <1>0, <1>3, <1>4, <2>2, StreamFacts, StreamSame DEF redis
  <2> QED BY <1>0, <1>2, <1>4, <2>1, <2>3, QuietStream
<1>5. CASE ~(task[c].existing \/ ~sub[c].live) /\ Forget(c)
  <2>1. c \in Counted
    BY <1>0, <1>5 DEF Counted
  <2>2. /\ sub'[c] = NoSub /\ ~NoSub.live /\ \A d \in Conns \ {c} : sub'[d] = sub[d]
    BY <1>0, <1>5 DEF Forget, NoSub
  <2>3. Counted' \subseteq Counted \ {c}
    <3>1. ASSUME NEW d \in Counted' PROVE d \in Counted \ {c}
      <4>1. d \in Conns /\ sub'[d].live
        BY DEF Counted
      <4>2. d # c
        BY <2>2, <4>1
      <4>3. sub'[d] = sub[d] /\ task'[d] = task[d]
        BY <1>1, <2>2, <4>1, <4>2
      <4> QED BY <1>0, <4>1, <4>2, <4>3 DEF Counted
    <3> QED BY <3>1
  <2> QED BY <1>0, <1>2, <1>3, <1>5, <2>1, <2>3, UndisturbedForget
<1> QED BY <1>4, <1>5 DEF LoadFails

LEMMA UndisturbedLeaves ==
  ASSUME PagesInv, StreamInv, ~disturbed', NEW c \in Conns, Unsubscribe(c) \/ RemoveClient(c)
  PROVE  StreamInv'
<1>0. /\ UNCHANGED <<redis, channel, inbox, task, socket, seen, disturbed>> /\ ~disturbed
      /\ sub \in [Conns -> Subs] /\ c \in clients /\ clients' \subseteq clients
      /\ sub[c].live => Forget(c)
      /\ ~sub[c].live => UNCHANGED <<sub, scanClients, refCount, requests>>
  BY DEF PagesInv, Types, Unsubscribe, RemoveClient, browser
<1>1. CASE sub[c].live
  <2>1. c \in Counted
    BY <1>0, <1>1 DEF Counted
  <2>2. /\ sub'[c] = NoSub /\ ~NoSub.live /\ \A d \in Conns \ {c} : sub'[d] = sub[d]
    BY <1>0, <1>1 DEF Forget, NoSub
  <2>3. Counted' \subseteq Counted \ {c}
    <3>1. ASSUME NEW d \in Counted' PROVE d \in Counted \ {c}
      <4>1. d \in Conns /\ sub'[d].live
        BY DEF Counted
      <4>2. d # c
        BY <2>2, <4>1
      <4>3. sub'[d] = sub[d]
        BY <2>2, <4>1, <4>2
      <4> QED BY <1>0, <4>1, <4>2, <4>3 DEF Counted
    <3> QED BY <3>1
  <2> QED BY <1>0, <1>1, <2>1, <2>3, UndisturbedForget
<1>2. CASE ~sub[c].live
  <2>0. UNCHANGED <<sub, refCount, requests>>
    BY <1>0, <1>2
  <2>1. Counted' \subseteq Counted
    BY <1>0, <2>0 DEF Counted
  <2>2. NextHeard' = NextHeard
    BY <1>0, StreamFacts, HeardSame
  <2>3. \A d \in Conns : StreamFits(d)'
    BY <1>0, <2>0, <2>2, StreamFacts, StreamSame DEF redis
  <2> QED BY <1>0, <2>0, <2>1, <2>3, QuietStream
<1> QED BY <1>1, <1>2

LEMMA UndisturbedAsks ==
  ASSUME PagesInv, StreamInv, ~disturbed', NEW c \in Conns, Subscribe(c) \/ Refused(c)
  PROVE  StreamInv'
<1>0. /\ task \in [Conns -> Tasks] /\ task[c].at \in {"idle", "authorizing"}
      /\ UNCHANGED <<redis, channel, requests, inbox, refCount, clients, sub, socket, seen, disturbed>> /\ ~disturbed
      /\ task' = [task EXCEPT ![c] = task'[c]] /\ task'[c].at \in {"idle", "authorizing"}
  BY DEF PagesInv, Types, Subscribe, Refused, link, browser, Idle
<1>1. \A d \in Conns \ {c} : task'[d] = task[d]
  BY <1>0
<1>2. Counted' \subseteq Counted
  BY <1>0, <1>1 DEF Counted
<1>3. NextHeard' = NextHeard
  BY <1>0, StreamFacts, HeardSame
<1>4. \A d \in Conns : StreamFits(d)'
  BY <1>0, <1>1, <1>3, StreamFacts, StreamSame DEF redis
<1> QED BY <1>0, <1>1, <1>2, <1>4, QuietStream

LEMMA UndisturbedSocket ==
  ASSUME PagesInv, StreamInv, ~disturbed', NEW c \in Conns, Connect(c) \/ Break(c) \/ Disconnect(c)
  PROVE  StreamInv'
<1>0. /\ UNCHANGED <<redis, channel, requests, inbox, refCount, sub, task, seen, disturbed>> /\ ~disturbed
      /\ socket \in [Conns -> {"unused", "open", "broken", "closed"}] /\ ConnFits(c)
  BY DEF PagesInv, Types, Connect, Break, Disconnect, link, gateway
<1>1. /\ \A d \in Conns \ {c} : socket'[d] = socket[d] /\ (d \in clients' <=> d \in clients)
      /\ ~sub[c].live \/ (socket'[c] # "open" /\ clients' = clients)
  BY <1>0 DEF Connect, Break, Disconnect, gateway, ConnFits, NoSub
<1>2. Counted' \subseteq Counted
  BY <1>0, <1>1 DEF Counted
<1>3. NextHeard' = NextHeard
  BY <1>0, StreamFacts, HeardSame
<1>4. ASSUME NEW d \in Conns PROVE StreamFits(d)'
  <2>1. CASE d = c
    BY <1>0, <1>1, <2>1 DEF StreamFits
  <2>2. CASE d # c
    BY <1>0, <1>1, <1>3, <2>2, StreamFacts, StreamSame DEF redis
  <2> QED BY <2>1, <2>2
<1> QED BY <1>0, <1>2, <1>4, QuietStream

LEMMA StreamInit == Init => StreamInv
<1> SUFFICES ASSUME Init PROVE StreamInv
  OBVIOUS
<1>1. /\ DOMAIN timeline = {} /\ Len(timeline) = 0 /\ DOMAIN inbox = {} /\ DOMAIN requests = {} /\ Stored = {}
      /\ requests = <<>> /\ refCount = 0 /\ counter = 0
  BY DEF Init, Stored, ToSet
<1>2. \A p \in Publishers : pubs[p] = Idle /\ pubs[p].at = "idle"
  BY DEF Init, Idle
<1>3. \A c \in Conns : ~sub[c].live /\ task[c].at = "idle"
  BY DEF Init, NoSub, Idle
<1>4. OneAtATime
  BY <1>1, <1>2 DEF OneAtATime
<1>5. OneChannel
  <2>1. Counted = {}
    BY <1>3 DEF Counted
  <2>2. Cardinality(Counted) <= refCount
    BY <1>1, <2>1, FS_EmptySet
  <2> QED BY <1>1, <1>3, <2>2 DEF OneChannel
<1>6. InTurn /\ NoGap
  BY <1>1 DEF InTurn, NoGap, Stored
<1>7. \A c \in Conns : StreamFits(c)
  BY <1>3 DEF StreamFits
<1> QED BY <1>4, <1>5, <1>6, <1>7 DEF StreamInv

(* Once the order was disturbed it stays so.                                *)
LEMMA StaysDisturbed ==
  ASSUME [Next]_vars, disturbed
  PROVE  disturbed'
<1>1. CASE UNCHANGED vars
  BY <1>1 DEF vars
<1>2. ASSUME NEW p \in Publishers, TakeNumber(p) \/ AppendTimeline(p) \/ Publish(p) \/ PublisherDies(p)
      PROVE  disturbed'
  BY <1>2 DEF TakeNumber, AppendTimeline, Publish, PublisherDies
<1>3. CASE RedisExecutes \/ Subscribed
  BY <1>3 DEF RedisExecutes, Subscribed
<1>4. ASSUME NEW slow \in SUBSET Conns, Broadcast(slow) PROVE disturbed'
  BY <1>4 DEF Broadcast
<1>5. ASSUME NEW c \in Conns,
             \/ Subscribe(c) \/ Authorized(c) \/ Refused(c) \/ ReadTimeline(c) \/ Deliver(c)
             \/ LoadFails(c) \/ Unsubscribe(c) \/ Connect(c) \/ Break(c) \/ Disconnect(c) \/ RemoveClient(c)
      PROVE  disturbed'
  <2>1. CASE Authorized(c)
    BY <2>1 DEF Authorized
  <2>2. CASE Subscribe(c) \/ Refused(c) \/ ReadTimeline(c) \/ Deliver(c)
    BY <2>2 DEF Subscribe, Refused, ReadTimeline, Deliver
  <2>3. CASE LoadFails(c) \/ Unsubscribe(c) \/ RemoveClient(c)
    BY <2>3 DEF LoadFails, Unsubscribe, RemoveClient
  <2>4. CASE Connect(c) \/ Break(c) \/ Disconnect(c)
    BY <2>4 DEF Connect, Break, Disconnect
  <2> QED BY <1>5, <2>1, <2>2, <2>3, <2>4
<1> QED BY <1>1, <1>2, <1>3, <1>4, <1>5 DEF Next

LEMMA StreamKeeps ==
  ASSUME PagesInv, StreamInv, [Next]_vars
  PROVE  StreamInv'
<1> SUFFICES ASSUME ~disturbed' PROVE StreamInv'
  BY DEF StreamInv
<1>0. ~disturbed
  BY StaysDisturbed
<1>1. CASE UNCHANGED vars
  <2>1. /\ UNCHANGED <<redis, channel, requests, inbox, refCount, seen>>
        /\ UNCHANGED <<timeline, task, sub, clients, socket>>
    BY <1>1 DEF vars, redis
  <2>2. Counted' \subseteq Counted /\ NextHeard' = NextHeard
    BY <1>0, <2>1, StreamFacts, HeardSame DEF Counted
  <2>3. \A d \in Conns : StreamFits(d)'
    BY <1>0, <2>1, <2>2, StreamFacts, StreamSame
  <2> QED BY <1>0, <2>1, <2>2, <2>3, QuietStream
<1>2. ASSUME NEW p \in Publishers, TakeNumber(p) \/ AppendTimeline(p) \/ Publish(p) \/ PublisherDies(p)
      PROVE  StreamInv'
  <2>1. ~PublisherDies(p)
    BY DEF PublisherDies
  <2> QED BY <1>2, <2>1, UndisturbedTake, UndisturbedAppend, UndisturbedPublish
<1>3. CASE RedisExecutes
  BY <1>3, UndisturbedRedis
<1>4. ASSUME NEW slow \in SUBSET Conns, Broadcast(slow) PROVE StreamInv'
  BY <1>4, UndisturbedBroadcast
<1>5. CASE Subscribed
  BY <1>5, UndisturbedSubscribed
<1>6. ASSUME NEW c \in Conns,
             \/ Subscribe(c) \/ Authorized(c) \/ Refused(c) \/ ReadTimeline(c) \/ Deliver(c)
             \/ LoadFails(c) \/ Unsubscribe(c) \/ Connect(c) \/ Break(c) \/ Disconnect(c) \/ RemoveClient(c)
      PROVE  StreamInv'
  <2>1. CASE Subscribe(c) \/ Refused(c)
    BY <2>1, UndisturbedAsks
  <2>2. CASE Authorized(c)
    BY <2>2, UndisturbedAuthorized
  <2>3. CASE ReadTimeline(c)
    BY <2>3, UndisturbedRead
  <2>4. CASE Deliver(c)
    BY <2>4, UndisturbedDeliver
  <2>5. CASE LoadFails(c)
    BY <2>5, UndisturbedLoadFails
  <2>6. CASE Unsubscribe(c) \/ RemoveClient(c)
    BY <2>6, UndisturbedLeaves
  <2>7. CASE Connect(c) \/ Break(c) \/ Disconnect(c)
    BY <2>7, UndisturbedSocket
  <2> QED BY <1>6, <2>1, <2>2, <2>3, <2>4, <2>5, <2>6, <2>7
<1> QED BY <1>1, <1>2, <1>3, <1>4, <1>5, <1>6 DEF Next

LEMMA StreamHolds == Spec => [](PagesInv /\ StreamInv)
<1>1. Init => PagesInv /\ StreamInv
  BY PagesInit, StreamInit
<1>2. (PagesInv /\ StreamInv) /\ [Next]_vars => (PagesInv /\ StreamInv)'
  BY PagesKeep, StreamKeeps
<1> QED BY <1>1, <1>2, PTL DEF Spec

(* While publications do not overlap and the scan's channel is opened by    *)
(* one connection at a time, what a page shows has no hole that the replay  *)
(* of subscribeToScan should have filled, however often its socket broke,   *)
(* a read failed or other pages came and left.                              *)
THEOREM NothingIsMissing == Spec => []NoGap
<1>1. PagesInv /\ StreamInv => NoGap
  BY DEF StreamInv, NoGap
<1> QED BY <1>1, StreamHolds, PTL

(* A settled page watches a scan whose channel the gateway is counted on.   *)
LEMMA SettledFacts ==
  ASSUME PagesInv, StreamInv, ~disturbed, NEW c \in Conns, Settled(c)
  PROVE  channel /\ last[Owner[c]] = LastOf(timeline)
<1>0. /\ c \in clients /\ socket[c] = "open" /\ sub[c].live /\ ~sub[c].buffering
      /\ inbox = <<>> /\ \A p \in Publishers : pubs[p].at = "idle"
  BY DEF Settled, Idle
<1>1. /\ OneAtATime /\ OneChannel /\ StreamFits(c) /\ Len(timeline) \in Nat /\ DOMAIN timeline = 1 .. Len(timeline)
      /\ Stored = 1 .. Len(timeline) /\ refCount \in Nat /\ (refCount = 0 => Counted = {})
  BY StreamFacts
<1>2. channel
  <2>1. c \in Counted
    BY <1>0 DEF Counted
  <2> QED BY <1>1, <2>1 DEF OneChannel
<1>3. NextHeard = Len(timeline) + 1
  <2>1. Told = Len(timeline) /\ Len(inbox) = 0
    BY <1>0 DEF Told
  <2> QED BY <1>1, <2>1 DEF NextHeard
<1>4. Owner[c] \in Users /\ sub[c].last = last[Owner[c]]
  BY <1>0, RealtimeAssumption DEF PagesInv, ConnFits
<1>5. last[Owner[c]] \in Nat /\ (last[Owner[c]] = 0 \/ last[Owner[c]] \in Stored)
  BY <1>4, LastIsStored
<1>6. last[Owner[c]] = Len(timeline)
  BY <1>0, <1>1, <1>3, <1>4, <1>5 DEF StreamFits
<1>7. LastOf(timeline) = Len(timeline)
  <2>1. CASE timeline = <<>>
    BY <2>1 DEF LastOf
  <2>2. CASE timeline # <<>>
    <3>1. Len(timeline) \in DOMAIN timeline
      BY <1>1, <2>2, EmptySeq DEF PagesInv, Types
    <3> QED BY <1>1, <2>2, <3>1 DEF LastOf, OneAtATime
  <2> QED BY <2>1, <2>2
<1> QED BY <1>2, <1>6, <1>7

(* Under the same condition a page whose subscription was confirmed has the *)
(* scan's last event once nothing is under way: the snapshot, the replay,   *)
(* the buffer and the live stream meet without losing one, and no other     *)
(* page's leaving takes the channel away (RedisScanEventBus.unsubscribe).   *)
THEOREM SettledPagesCaughtUp == Spec => []CaughtUp
<1>1. PagesInv /\ StreamInv => CaughtUp
  BY SettledFacts DEF CaughtUp
<1> QED BY <1>1, StreamHolds, PTL

(* That a confirmed subscription is served, which the bus breaks when two   *)
(* first subscribers overlap (subscribe reads its count before the await),  *)
(* is true as long as none do and publications stay apart.                  *)
THEOREM ServedUnlessDisturbed == Spec => [](~disturbed => ConfirmedIsServed)
<1>1. PagesInv /\ StreamInv => (~disturbed => ConfirmedIsServed)
  BY SettledFacts DEF ConfirmedIsServed
<1> QED BY <1>1, StreamHolds, PTL
=============================================================================
