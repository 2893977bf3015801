------------------------ MODULE DirectorViewProofs -------------------------
(***************************************************************************)
(* For any set of tracks, any number of pages and connections: one Connect *)
(* runs at a time, and the large feed of every view shows the track at     *)
(* activeCamera and changes only when it is told to.                       *)
(*                                                                         *)
(* The argument for the feed: a new track moves the tracks from its own    *)
(* position on up by one and leaves those below alone (InsertShifts), and  *)
(* a removal is an insertion backwards.  onTrackAdded and onTrackRemoved   *)
(* follow both, also where activeCamera points past the end.               *)
(***************************************************************************)
EXTENDS DirectorView, FiniteSetTheorems, TLAPS

\* An unfinished connection is the one m_connectWatcher watches, and the slot that
\* waits has one to wait for.
WatcherCurrent ==
    /\ \A t \in Connects : connect[t] \in Unfinished => watcher = t
    /\ ui = "result" => watcher \in Connects

IndInv == TypeOK /\ WatcherCurrent /\ FeedMatches

-----------------------------------------------------------------------------
(***************************************************************************)
(* Positions in a sorted set.                                              *)
(***************************************************************************)

\* A position is a natural number.
LEMMA PositionType ==
    ASSUME NEW T \in SUBSET Nat, IsFiniteSet(T), NEW s
    PROVE  IsFiniteSet({u \in T : u < s}) /\ Position(s, T) \in Nat
<1>1. IsFiniteSet({u \in T : u < s})
  BY FS_Subset, {u \in T : u < s} \subseteq T
<1> QED
  BY <1>1, FS_CardinalityType DEF Position

\* A smaller track has a smaller position.
LEMMA PositionMonotone ==
    ASSUME NEW T \in SUBSET Nat, IsFiniteSet(T), NEW s \in T, NEW w \in T, s < w
    PROVE  Position(s, T) < Position(w, T)
<1> DEFINE A == {u \in T : u < s}
           B == {u \in T : u < w}
<1>1. IsFiniteSet(A) /\ IsFiniteSet(B) /\ Cardinality(A) \in Nat /\ Cardinality(B) \in Nat
  BY PositionType DEF Position
<1>2. A \subseteq B /\ s \in B /\ s \notin A
  <2>1. s \in Nat /\ w \in Nat /\ \A u \in T : u \in Nat
    OBVIOUS
  <2>2. \A u \in T : u < s => u < w
    BY <2>1
  <2>3. ~(s < s)
    BY <2>1
  <2> QED
    BY <2>2, <2>3
<1>3. A # B
  BY <1>2
<1>4. Cardinality(A) < Cardinality(B)
  BY <1>1, <1>2, <1>3, FS_Subset
<1> QED
  BY <1>4 DEF Position

\* So no two tracks share one, and TrackAt inverts Position.
LEMMA TrackAtPosition ==
    ASSUME NEW T \in SUBSET Nat, IsFiniteSet(T), NEW s \in T
    PROVE  TrackAt(Position(s, T), T) = s
<1>1. \A w \in T : Position(w, T) = Position(s, T) => w = s
  <2> SUFFICES ASSUME NEW w \in T, Position(w, T) = Position(s, T), w # s PROVE FALSE
    OBVIOUS
  <2>1. Position(w, T) \in Nat
    BY PositionType
  <2>2. w \in Nat /\ s \in Nat
    OBVIOUS
  <2>3. CASE w < s
    BY <2>1, <2>3, PositionMonotone
  <2>4. CASE s < w
    BY <2>1, <2>4, PositionMonotone
  <2> QED
    BY <2>2, <2>3, <2>4
<1> QED
  BY <1>1 DEF TrackAt

\* Two sets that have the same track at a position agree there.
LEMMA TrackAtEqual ==
    ASSUME NEW T \in SUBSET Nat, IsFiniteSet(T), NEW U \in SUBSET Nat, IsFiniteSet(U),
           NEW i \in Int, NEW j \in Int,
           \A s \in T : Position(s, T) = i => s \in U /\ Position(s, U) = j,
           \A s \in U : Position(s, U) = j => s \in T /\ Position(s, T) = i
    PROVE  TrackAt(i, T) = TrackAt(j, U)
<1>1. CASE \E s \in T : Position(s, T) = i
  <2>1. PICK s \in T : Position(s, T) = i
    BY <1>1
  <2>2. s \in U /\ Position(s, U) = j
    BY <2>1
  <2> QED
    BY <2>1, <2>2, TrackAtPosition
<1>2. CASE ~\E s \in T : Position(s, T) = i
  <2>1. ~\E s \in U : Position(s, U) = j
    BY <1>2
  <2> QED
    BY <1>2, <2>1 DEF TrackAt
<1> QED
  BY <1>1, <1>2

\* A new track moves those above it by one, and no other.
LEMMA InsertPosition ==
    ASSUME NEW T \in SUBSET Nat, IsFiniteSet(T), NEW x \in Nat, x \notin T, NEW s \in Nat
    PROVE  Position(s, T \cup {x}) = Position(s, T) + (IF x < s THEN 1 ELSE 0)
<1> DEFINE A == {u \in T : u < s}
           B == {u \in T \cup {x} : u < s}
<1>1. IsFiniteSet(A) /\ Cardinality(A) \in Nat
  BY PositionType DEF Position
<1>2. CASE x < s
  <2>1. B = A \cup {x} /\ x \notin A
    BY <1>2
  <2>2. Cardinality(A \cup {x}) = Cardinality(A) + 1
    BY <1>1, <2>1, FS_AddElement
  <2> QED
    BY <1>2, <2>1, <2>2 DEF Position
<1>3. CASE ~(x < s)
  <2>1. B = A
    BY <1>3
  <2>2. Cardinality(A) = Cardinality(A) + 0
    BY <1>1
  <2>3. Position(s, T) = Cardinality(A) /\ Position(s, T \cup {x}) = Cardinality(A)
    BY <2>1 DEF Position
  <2> QED
    BY <1>3, <2>2, <2>3
<1> QED
  BY <1>2, <1>3

\* What that means for the list: below the new track nothing changes, from its
\* position on every track is found one later.
LEMMA InsertShifts ==
    ASSUME NEW T \in SUBSET Nat, IsFiniteSet(T), NEW x \in Nat, x \notin T, NEW i \in Int
    PROVE  /\ i < Position(x, T \cup {x}) => TrackAt(i, T \cup {x}) = TrackAt(i, T)
           /\ i >= Position(x, T \cup {x}) => TrackAt(i + 1, T \cup {x}) = TrackAt(i, T)
<1> DEFINE U == T \cup {x}
           k == Position(x, U)
<1>1. IsFiniteSet(U) /\ U \in SUBSET Nat
  BY FS_AddElement
<1>2. \A s \in U : Position(s, U) \in Nat
  BY <1>1, PositionType
<1>3. \A s \in T : Position(s, T) \in Nat
  BY PositionType
<1>4. \A s \in T : /\ s \in Nat /\ s # x
                   /\ s < x => Position(s, U) = Position(s, T) /\ Position(s, U) < k
                   /\ x < s => Position(s, U) = Position(s, T) + 1 /\ k < Position(s, U)
  <2> TAKE s \in T
  <2>1. s \in Nat /\ s # x /\ s \in U /\ x \in U
    OBVIOUS
  <2>2. Position(s, U) = Position(s, T) + (IF x < s THEN 1 ELSE 0)
    BY <2>1, InsertPosition
  <2>3. CASE s < x
    <3>1. Position(s, U) < k
      BY <1>1, <2>1, <2>3, PositionMonotone
    <3> QED
      BY <1>3, <2>1, <2>2, <2>3, <3>1
  <2>4. CASE x < s
    <3>1. k < Position(s, U)
      BY <1>1, <2>1, <2>4, PositionMonotone
    <3> QED
      BY <1>3, <2>1, <2>2, <2>4, <3>1
  <2> QED
    BY <2>1, <2>3, <2>4
<1>5. k \in Nat /\ \A s \in U : s = x \/ s \in T
  BY <1>2
<1> HIDE DEF U, k
<1>6. ASSUME i < k PROVE TrackAt(i, U) = TrackAt(i, T)
  <2>1. \A s \in T : Position(s, T) = i => s \in U /\ Position(s, U) = i
    <3> SUFFICES ASSUME NEW s \in T, Position(s, T) = i PROVE s \in U /\ Position(s, U) = i
      OBVIOUS
    <3>1. s \in U
      BY DEF U
    <3>2. s < x \/ x < s
      BY <1>4
    <3>3. ~(x < s)
      BY <1>3, <1>4, <1>5, <1>6
    <3> QED
      BY <1>4, <3>1, <3>2, <3>3
  <2>2. \A s \in U : Position(s, U) = i => s \in T /\ Position(s, T) = i
    <3> SUFFICES ASSUME NEW s \in U, Position(s, U) = i PROVE s \in T /\ Position(s, T) = i
      OBVIOUS
    <3>1. s \in T
      BY <1>5, <1>6 DEF k
    <3>2. s < x \/ x < s
      BY <1>4, <3>1
    <3>3. ~(x < s)
      BY <1>3, <1>4, <1>5, <1>6, <3>1
    <3> QED
      BY <1>4, <3>1, <3>2, <3>3
  <2> QED
    BY <1>1, <2>1, <2>2, TrackAtEqual
<1>7. ASSUME i >= k PROVE TrackAt(i + 1, U) = TrackAt(i, T)
  <2>1. \A s \in T : Position(s, T) = i => s \in U /\ Position(s, U) = i + 1
    <3> SUFFICES ASSUME NEW s \in T, Position(s, T) = i PROVE s \in U /\ Position(s, U) = i + 1
      OBVIOUS
    <3>1. s \in U
      BY DEF U
    <3>2. s < x \/ x < s
      BY <1>4
    <3>3. ~(s < x)
      BY <1>3, <1>4, <1>5, <1>7
    <3> QED
      BY <1>4, <3>1, <3>2, <3>3
  <2>2. \A s \in U : Position(s, U) = i + 1 => s \in T /\ Position(s, T) = i
    <3> SUFFICES ASSUME NEW s \in U, Position(s, U) = i + 1 PROVE s \in T /\ Position(s, T) = i
      OBVIOUS
    <3>1. s \in T
      BY <1>5, <1>7 DEF k
    <3>2. s < x \/ x < s
      BY <1>4, <3>1
    <3>3. ~(s < x)
      BY <1>3, <1>4, <1>5, <1>7, <3>1
    <3> QED
      BY <1>3, <1>4, <3>1, <3>2, <3>3
  <2> QED
    BY <1>1, <2>1, <2>2, TrackAtEqual
<1> QED
  BY <1>6, <1>7 DEF U, k
-----------------------------------------------------------------------------
(***************************************************************************)
(* One view under one signal.                                              *)
(***************************************************************************)

\* Sets of tracks are finite sets of numbers.
LEMMA TracksFinite ==
    ASSUME NEW T \in SUBSET Sids
    PROVE  T \in SUBSET Nat /\ IsFiniteSet(T)
  BY TransportAssumption, FS_Subset DEF TransportAssumption

\* What a view can be shown, and that -1 and an empty list show nothing.
LEMMA TrackAtType ==
    ASSUME NEW T \in SUBSET Sids, NEW i \in Int
    PROVE  /\ TrackAt(i, T) \in T \cup {NoTrack}
           /\ TrackAt(-1, T) = NoTrack
           /\ TrackAt(i, {}) = NoTrack
<1>1. TrackAt(i, T) \in T \cup {NoTrack}
  BY DEF TrackAt
<1>2. \A s \in T : Position(s, T) # -1
  <2> TAKE s \in T
  <2>1. Position(s, T) \in Nat
    BY PositionType, TracksFinite
  <2> QED
    BY <2>1
<1> QED
  BY <1>1, <1>2 DEF TrackAt

\* A SID is never taken for the missing track.
LEMMA NoTrackIsNone == NoTrack \notin Sids
  BY TransportAssumption DEF TransportAssumption, NoTrack

\* The fields of an activated view.
LEMMA ActivateFields ==
    ASSUME NEW v \in ViewSet, NEW i \in Nat \cup {-1}, NEW T \in SUBSET Sids
    PROVE  /\ Activate(v, i, T) \in ViewSet
           /\ Activate(v, i, T).active = i
           /\ Activate(v, i, T).feed = TrackAt(i, T)
<1>1. TrackAt(i, T) \in Sids \cup {NoTrack}
  BY TrackAtType
<1> QED
  BY <1>1 DEF Activate, ViewSet

\* onTrackAdded keeps the picture and its place in the list.
LEMMA AddedView ==
    ASSUME NEW T \in SUBSET Sids, NEW x \in Sids, x \notin T,
           NEW v \in ViewSet, v.feed = TrackAt(v.active, T),
           NEW w, w = OnTrackAdded(v, Position(x, T \cup {x}), T \cup {x})
    PROVE  w \in ViewSet /\ w.feed = TrackAt(w.active, T \cup {x}) /\ w.feed = v.feed
<1> DEFINE U == T \cup {x}
           k == Position(x, U)
           l == [v EXCEPT !.listed = TRUE]
<1>1. T \in SUBSET Nat /\ IsFiniteSet(T) /\ x \in Nat /\ v.active \in Int
  BY TracksFinite, TransportAssumption DEF TransportAssumption, ViewSet
<1>2. k \in Nat
  BY TracksFinite, PositionType
<1>3. l \in ViewSet /\ l.active = v.active /\ l.feed = v.feed
  BY DEF ViewSet
<1>4. /\ v.active < k => TrackAt(v.active, U) = TrackAt(v.active, T)
      /\ v.active >= k => TrackAt(v.active + 1, U) = TrackAt(v.active, T)
  BY <1>1, InsertShifts
<1>5. w = IF k <= v.active THEN Activate(l, v.active + 1, U) ELSE l
  BY DEF OnTrackAdded
<1> HIDE DEF k, l
<1>6. CASE k <= v.active
  <2>1. v.active + 1 \in Nat \cup {-1} /\ v.active >= k
    BY <1>1, <1>2, <1>6
  <2>2. w = Activate(l, v.active + 1, U)
    BY <1>5, <1>6
  <2>3. w \in ViewSet /\ w.active = v.active + 1 /\ w.feed = TrackAt(v.active + 1, U)
    BY <1>3, <2>1, <2>2, ActivateFields
  <2> QED
    BY <1>4, <2>1, <2>3
<1>7. CASE ~(k <= v.active)
  <2>1. v.active < k /\ w = l
    BY <1>1, <1>2, <1>5, <1>7
  <2> QED
    BY <1>3, <1>4, <2>1
<1> QED
  BY <1>6, <1>7

\* onTrackRemoved keeps them too, unless it is the picture that has gone.
LEMMA RemovedView ==
    ASSUME NEW T \in SUBSET Sids, NEW x \in T,
           NEW v \in ViewSet, v.feed = TrackAt(v.active, T),
           NEW w, w = OnTrackRemoved(LoseFeed(v, {x}), Position(x, T), T \ {x})
    PROVE  /\ w \in ViewSet /\ w.feed = TrackAt(w.active, T \ {x})
           /\ w.feed = v.feed \/ (w.feed = NoTrack /\ v.feed = x)
<1> DEFINE U == T \ {x}
           k == Position(x, T)
           m == LoseFeed(v, {x})
           l == [m EXCEPT !.listed = TRUE]
<1>1. /\ T \in SUBSET Nat /\ IsFiniteSet(T) /\ U \in SUBSET Nat /\ IsFiniteSet(U)
      /\ x \in Nat /\ v.active \in Int /\ v.active \in Nat \cup {-1}
  BY TracksFinite, TransportAssumption DEF TransportAssumption, ViewSet
<1>2. k \in Nat /\ T = U \cup {x} /\ x \notin U
  BY <1>1, PositionType
<1>3. TrackAt(k, T) = x
  BY <1>1, TrackAtPosition
<1>4. /\ m.active = v.active
      /\ l \in ViewSet /\ l.active = v.active
      /\ l.feed = IF v.feed = x THEN NoTrack ELSE v.feed
  BY DEF LoseFeed, ViewSet
<1>5. \A i \in Int : /\ i < k => TrackAt(i, T) = TrackAt(i, U)
                     /\ i >= k => TrackAt(i + 1, T) = TrackAt(i, U)
  BY <1>1, <1>2, InsertShifts
<1>6. w = CASE k = m.active -> Activate(l, -1, U)
            [] k < m.active -> Activate(l, m.active - 1, U)
            [] OTHER -> l
  BY DEF OnTrackRemoved
<1>7. \A i \in Int : TrackAt(i, U) # x
  <2>1. x \in Sids /\ U \in SUBSET Sids
    OBVIOUS
  <2> QED
    BY <2>1, TrackAtType, NoTrackIsNone
<1> HIDE DEF k, l, m, U
<1>8. CASE k = v.active
  <2>1. w = Activate(l, -1, U)
    BY <1>1, <1>2, <1>4, <1>6, <1>8
  <2>2. w \in ViewSet /\ w.active = -1 /\ w.feed = TrackAt(-1, U)
    BY <1>4, <2>1, ActivateFields DEF U
  <2>3. w.feed = NoTrack
    BY <2>2, TrackAtType DEF U
  <2> QED
    BY <1>3, <1>8, <2>2, <2>3 DEF U
<1>9. CASE k < v.active
  <2>1. v.active - 1 \in Nat /\ v.active - 1 >= k /\ (v.active - 1) + 1 = v.active
    BY <1>1, <1>2, <1>9
  <2>2. w = Activate(l, v.active - 1, U)
    BY <1>1, <1>2, <1>4, <1>6, <1>9
  <2>3. w \in ViewSet /\ w.active = v.active - 1 /\ w.feed = TrackAt(v.active - 1, U)
    BY <1>4, <2>1, <2>2, ActivateFields DEF U
  <2>4. TrackAt(v.active - 1, U) = v.feed
    BY <1>5, <2>1
  <2> QED
    BY <2>3, <2>4 DEF U
<1>10. CASE v.active < k
  <2>1. w = l
    BY <1>1, <1>2, <1>4, <1>6, <1>10
  <2>2. v.feed = TrackAt(v.active, U)
    BY <1>1, <1>5, <1>10
  <2>3. v.feed # x
    BY <1>1, <1>7, <2>2
  <2> QED
    BY <1>4, <2>1, <2>2, <2>3 DEF U
<1> QED
  BY <1>1, <1>2, <1>8, <1>9, <1>10

\* A view whose session is gone shows nothing and has nothing to show.
LEMMA LostView ==
    ASSUME NEW v \in ViewSet
    PROVE  /\ LoseSession(v) \in ViewSet
           /\ LoseSession(v).feed = TrackAt(LoseSession(v).active, {})
           /\ LoseSession(v).feed = NoTrack
<1>1. v.active \in Int
  BY DEF ViewSet
<1>2. TrackAt(v.active, {}) = NoTrack
  BY <1>1, TrackAtType
<1> QED
  BY <1>2 DEF LoseSession, ViewSet
-----------------------------------------------------------------------------
(***************************************************************************)
(* The pages under one step.                                               *)
(***************************************************************************)

\* What FeedFollows says of a step.
Follows ==
    \A p \in DOMAIN pages \cap DOMAIN pages' :
        pages'[p].feed # pages[p].feed =>
            \/ \E i \in 0..(MaxCameras - 1) : Select(i)
            \/ pages'[p].feed = NoTrack /\ pages[p].feed \notin tracks'

ViewsOK == pages \in Seq(ViewSet) /\ Len(pages) <= MaxPages /\ FeedMatches

\* The conjuncts of TypeOK that do not speak of the pages.
TransportOK ==
    /\ connectionState \in {"connecting", "connected", "disconnected"}
    /\ room \in BOOLEAN /\ session \in BOOLEAN /\ joined \in BOOLEAN
    /\ watcher \in 0..MaxConnects
    /\ connect \in [Connects -> Unfinished \cup {"none", "true", "false"}]
    /\ tracks \subseteq Sids /\ streaming \subseteq Sids
    /\ ui \in {"loop", "result", "crashed"}
    /\ events \in Seq(EventSet)

\* A function on the domain of a sequence is a sequence of the same length.
LEMMA MappedSequence ==
    ASSUME NEW S, NEW q \in Seq(S), NEW R, NEW g, g = [p \in DOMAIN q |-> g[p]],
           \A p \in DOMAIN q : g[p] \in R
    PROVE  g \in Seq(R) /\ Len(g) = Len(q) /\ DOMAIN g = DOMAIN q
<1>1. DOMAIN q = 1..Len(q) /\ Len(q) \in Nat
  OBVIOUS
<1>2. g \in [1..Len(q) -> R]
  BY <1>1
<1>3. g \in Seq(R)
  BY <1>1, <1>2
<1> QED
  BY <1>1, <1>2, <1>3

\* The event at the head of the queue has the fields of its kind.
LEMMA HeadFields ==
    ASSUME events \in Seq(EventSet), events # <<>>
    PROVE  /\ Tail(events) \in Seq(EventSet)
           /\ Head(events).kind \in {"attach", "detach"} => Head(events).sid \in Sids
           /\ Head(events).kind = "state" =>
                 Head(events).state \in {"connecting", "connected", "disconnected"}
<1>1. Head(events) \in EventSet /\ Tail(events) \in Seq(EventSet)
  OBVIOUS
<1> QED
  BY <1>1 DEF EventSet

\* Popping a page leaves the others as they are.
LEMMA PopKeeps ==
    ASSUME NEW q \in Seq(ViewSet), q # <<>>
    PROVE  /\ Front(q) \in Seq(ViewSet) /\ Len(Front(q)) = Len(q) - 1
           /\ DOMAIN Front(q) \subseteq DOMAIN q
           /\ \A p \in DOMAIN Front(q) : Front(q)[p] = q[p]
<1>1. Len(q) \in Nat /\ Len(q) # 0 /\ DOMAIN q = 1..Len(q) /\ \A p \in DOMAIN q : q[p] \in ViewSet
  OBVIOUS
<1>2. Front(q) = [p \in 1..(Len(q) - 1) |-> q[p]]
  BY <1>1 DEF Front
<1>3. Front(q) \in [1..(Len(q) - 1) -> ViewSet]
  BY <1>1, <1>2
<1>4. Len(q) - 1 \in Nat
  BY <1>1
<1>5. Front(q) \in Seq(ViewSet) /\ DOMAIN Front(q) = 1..(Len(q) - 1)
  BY <1>3, <1>4
<1>6. Len(Front(q)) = Len(q) - 1
  BY <1>4, <1>5
<1> QED
  BY <1>1, <1>2, <1>5, <1>6

\* Pages that agree with the tracks still do when tracks and the pages that are left
\* stay the same.
LEMMA PagesKept ==
    ASSUME ViewsOK, tracks' = tracks, pages' \in Seq(ViewSet), Len(pages') <= MaxPages,
           \A p \in DOMAIN pages' : p \in DOMAIN pages /\ pages'[p] = pages[p]
    PROVE  ViewsOK' /\ Follows
  BY DEF ViewsOK, FeedMatches, Follows

\* When the session goes, no view shows anything.
LEMMA PagesLost ==
    ASSUME ViewsOK, tracks \subseteq Sids, tracks' = {},
           pages' \in Seq(ViewSet), Len(pages') <= MaxPages,
           \A p \in DOMAIN pages' : p \in DOMAIN pages /\ pages'[p] = LoseSession(pages[p])
    PROVE  ViewsOK' /\ Follows
<1>1. \A p \in DOMAIN pages' :
         /\ pages'[p].feed = TrackAt(pages'[p].active, tracks')
         /\ pages'[p].feed = NoTrack
  BY LostView DEF ViewsOK
<1> QED
  BY <1>1 DEF ViewsOK, FeedMatches, Follows

\* Every step keeps the views in agreement with the session and the picture with
\* the user.
LEMMA ViewStep == TransportOK /\ ViewsOK /\ [Next]_vars => ViewsOK' /\ Follows
<1> SUFFICES ASSUME TransportOK, ViewsOK, [Next]_vars PROVE ViewsOK' /\ Follows
  OBVIOUS
<1>0. /\ pages \in Seq(ViewSet) /\ Len(pages) \in Nat /\ Len(pages) <= MaxPages
      /\ DOMAIN pages = 1..Len(pages) /\ tracks \in SUBSET Sids
      /\ \A p \in DOMAIN pages : pages[p] \in ViewSet
  BY DEF ViewsOK, TransportOK
<1>a. ASSUME UNCHANGED <<pages, tracks>> PROVE ViewsOK' /\ Follows
  BY <1>0, <1>a, PagesKept
<1>1. CASE OpenPage
  <2>1. tracks' = tracks /\ pages' = Append(pages, NewView) /\ Len(pages) < MaxPages
    BY <1>1 DEF OpenPage, ConnectToRoom, transport
  <2>2. NewView \in ViewSet
    BY DEF NewView, ViewSet
  <2>3. /\ pages' \in Seq(ViewSet) /\ Len(pages') <= MaxPages
        /\ DOMAIN pages' = 1..(Len(pages) + 1)
        /\ pages'[Len(pages) + 1] = NewView
        /\ \A p \in DOMAIN pages : pages'[p] = pages[p]
    BY <1>0, <2>1, <2>2, ViewAssumption DEF ViewAssumption
  <2>4. NewView.feed = TrackAt(NewView.active, tracks')
    BY <1>0, <2>1, TrackAtType DEF NewView
  <2>5. \A p \in DOMAIN pages' : p \in DOMAIN pages \/ p = Len(pages) + 1
    BY <1>0, <2>3
  <2> QED
    BY <2>1, <2>3, <2>4, <2>5 DEF ViewsOK, FeedMatches, Follows
<1>2. CASE ClosePage
  <2>1. tracks' = tracks /\ pages # <<>> /\ pages' = Front(pages)
    BY <1>2 DEF ClosePage, PopPage, transport
  <2> QED
    BY <1>0, <2>1, PopKeeps, PagesKept, ViewAssumption DEF ViewAssumption
<1>3. ASSUME NEW i \in 0..(MaxCameras - 1), Select(i) PROVE ViewsOK' /\ Follows
  <2>1. /\ tracks' = tracks /\ i \in Nat /\ pages # <<>>
        /\ pages' = [pages EXCEPT ![Len(pages)] = Activate(pages[Len(pages)], i, tracks)]
    BY <1>3, ViewAssumption DEF Select, transport, ViewAssumption
  <2>2. Len(pages) \in DOMAIN pages
    BY <1>0, <2>1
  <2>3. Activate(pages[Len(pages)], i, tracks) \in ViewSet
    BY <1>0, <2>1, <2>2, ActivateFields
  <2>4. pages' \in Seq(ViewSet) /\ Len(pages') = Len(pages) /\ DOMAIN pages' = DOMAIN pages
    BY <1>0, <2>1, <2>2, <2>3
  <2>5. \A p \in DOMAIN pages' : pages'[p].feed = TrackAt(pages'[p].active, tracks')
    <3> TAKE p \in DOMAIN pages'
    <3>1. CASE p = Len(pages)
      <4>1. pages'[p] = Activate(pages[Len(pages)], i, tracks)
        BY <2>1, <2>2, <3>1
      <4> QED
        BY <1>0, <2>1, <2>2, <4>1, ActivateFields
    <3>2. CASE p # Len(pages)
      BY <2>1, <2>4, <3>2 DEF ViewsOK, FeedMatches
    <3> QED
      BY <3>1, <3>2
  <2>6. Follows
    BY <1>3 DEF Follows
  <2> QED
    BY <1>0, <2>4, <2>5, <2>6 DEF ViewsOK, FeedMatches
<1>4. CASE ResultReady
  <2>1. CASE connectionState # "disconnected" /\ connect[watcher] = "true"
    <3>1. tracks' = {} /\ pages' = [p \in DOMAIN pages |-> LoseSession(pages[p])]
      BY <1>4, <2>1 DEF ResultReady, FinishedEnds
    <3>2. \A p \in DOMAIN pages : pages'[p] = LoseSession(pages[p]) /\ pages'[p] \in ViewSet
      BY <1>0, <3>1, LostView
    <3>3. pages' \in Seq(ViewSet) /\ Len(pages') = Len(pages) /\ DOMAIN pages' = DOMAIN pages
      BY <1>0, <3>1, <3>2, MappedSequence
    <3> QED
      BY <1>0, <3>1, <3>2, <3>3, PagesLost
  <2>2. CASE ~(connectionState # "disconnected" /\ connect[watcher] = "true")
    <3>1. UNCHANGED <<pages, tracks>>
      BY <1>4, <2>2 DEF ResultReady, FinishedEnds
    <3> QED
      BY <3>1, <1>a
  <2> QED
    BY <2>1, <2>2
<1>5. CASE HandleFinished
  <2>1. UNCHANGED <<pages, tracks>>
    BY <1>5 DEF HandleFinished, transport
  <2> QED
    BY <2>1, <1>a
<1>6. CASE HandleAttach
  <2> DEFINE s == Head(events).sid
  <2>1. s \in Sids
    BY <1>6, HeadFields DEF HandleAttach, Handles, TransportOK
  <2>2. /\ tracks' = IF session /\ s \notin Unreadable THEN tracks \cup {s} ELSE tracks
        /\ pages' = IF tracks' = tracks THEN pages
                    ELSE [p \in DOMAIN pages |->
                             OnTrackAdded(pages[p], Position(s, tracks'), tracks')]
    BY <1>6 DEF HandleAttach, AttachTrack
  <2> HIDE DEF s
  <2>3. CASE tracks' = tracks
    BY <2>2, <2>3, <1>a
  <2>4. CASE tracks' # tracks
    <3>1. tracks' = tracks \cup {s} /\ s \notin tracks
      BY <2>2, <2>4
    <3>2. pages' = [p \in DOMAIN pages |->
                       OnTrackAdded(pages[p], Position(s, tracks \cup {s}), tracks \cup {s})]
      BY <2>2, <2>4, <3>1
    <3>3. \A p \in DOMAIN pages :
             /\ pages'[p] \in ViewSet
             /\ pages'[p].feed = TrackAt(pages'[p].active, tracks \cup {s})
             /\ pages'[p].feed = pages[p].feed
      <4> TAKE p \in DOMAIN pages
      <4>1. pages[p] \in ViewSet /\ pages[p].feed = TrackAt(pages[p].active, tracks)
        BY <1>0 DEF ViewsOK, FeedMatches
      <4>2. pages'[p] = OnTrackAdded(pages[p], Position(s, tracks \cup {s}), tracks \cup {s})
        BY <3>2
      <4> QED
        BY <1>0, <2>1, <3>1, <4>1, <4>2, AddedView
    <3>4. pages' = [p \in DOMAIN pages |-> pages'[p]]
      BY <3>2
    <3>5. pages' \in Seq(ViewSet) /\ Len(pages') = Len(pages) /\ DOMAIN pages' = DOMAIN pages
      BY <1>0, <3>3, <3>4, MappedSequence
    <3> QED
      BY <1>0, <3>1, <3>3, <3>5 DEF ViewsOK, FeedMatches, Follows
  <2> QED
    BY <2>3, <2>4
<1>7. CASE HandleDetach
  <2> DEFINE s == Head(events).sid
  <2>2. /\ tracks' = IF session THEN tracks \ {s} ELSE tracks
        /\ pages' = IF tracks' = tracks THEN pages
                    ELSE [p \in DOMAIN pages |->
                             OnTrackRemoved(LoseFeed(pages[p], {s}), Position(s, tracks), tracks')]
    BY <1>7 DEF HandleDetach, DetachTrack
  <2> HIDE DEF s
  <2>3. CASE tracks' = tracks
    BY <2>2, <2>3, <1>a
  <2>4. CASE tracks' # tracks
    <3>1. tracks' = tracks \ {s} /\ s \in tracks
      BY <2>2, <2>4
    <3>2. pages' = [p \in DOMAIN pages |->
                       OnTrackRemoved(LoseFeed(pages[p], {s}), Position(s, tracks), tracks \ {s})]
      BY <2>2, <2>4, <3>1
    <3>3. \A p \in DOMAIN pages :
             /\ pages'[p] \in ViewSet
             /\ pages'[p].feed = TrackAt(pages'[p].active, tracks \ {s})
             /\ pages'[p].feed = pages[p].feed \/ (pages'[p].feed = NoTrack /\ pages[p].feed = s)
      <4> TAKE p \in DOMAIN pages
      <4>1. pages[p] \in ViewSet /\ pages[p].feed = TrackAt(pages[p].active, tracks)
        BY <1>0 DEF ViewsOK, FeedMatches
      <4>2. pages'[p] = OnTrackRemoved(LoseFeed(pages[p], {s}), Position(s, tracks), tracks \ {s})
        BY <3>2
      <4> QED
        BY <1>0, <3>1, <4>1, <4>2, RemovedView
    <3>4. pages' = [p \in DOMAIN pages |-> pages'[p]]
      BY <3>2
    <3>5. pages' \in Seq(ViewSet) /\ Len(pages') = Len(pages) /\ DOMAIN pages' = DOMAIN pages
      BY <1>0, <3>3, <3>4, MappedSequence
    <3> QED
      BY <1>0, <3>1, <3>3, <3>5 DEF ViewsOK, FeedMatches, Follows
  <2> QED
    BY <2>3, <2>4
<1>8. CASE HandleState
  <2>1. UNCHANGED <<pages, tracks>>
    BY <1>8 DEF HandleState, SetConnectionState
  <2> QED
    BY <2>1, <1>a
<1>9. CASE HandleDisconnected
  <2>1. tracks' = tracks /\ pages' = IF pages = <<>> THEN pages ELSE Front(pages)
    BY <1>9 DEF HandleDisconnected, PopPage, transport
  <2>2. CASE pages = <<>>
    BY <2>1, <2>2, <1>a
  <2>3. CASE pages # <<>>
    BY <1>0, <2>1, <2>3, PopKeeps, PagesKept, ViewAssumption DEF ViewAssumption
  <2> QED
    BY <2>2, <2>3
<1>10. CASE HandleDestroy
  <2>1. CASE connectionState = "disconnected"
    <3>1. UNCHANGED <<pages, tracks>>
      BY <1>10, <2>1 DEF HandleDestroy, DisconnectFromRoom, transport
    <3> QED
      BY <3>1, <1>a
  <2>2. CASE connectionState # "disconnected"
    <3> DEFINE lost == [p \in DOMAIN pages |-> LoseSession(pages[p])]
    <3>1. tracks' = {} /\ pages' = IF lost = <<>> THEN lost ELSE Front(lost)
      BY <1>10, <2>2 DEF HandleDestroy, DisconnectFromRoom, PopPage
    <3>2. \A p \in DOMAIN pages : lost[p] = LoseSession(pages[p]) /\ lost[p] \in ViewSet
      BY <1>0, LostView
    <3>3. lost = [p \in DOMAIN pages |-> lost[p]]
      OBVIOUS
    <3> HIDE DEF lost
    <3>4. lost \in Seq(ViewSet) /\ Len(lost) = Len(pages) /\ DOMAIN lost = DOMAIN pages
      BY <1>0, <3>2, <3>3, MappedSequence
    <3>5. CASE lost = <<>>
      BY <1>0, <3>1, <3>2, <3>4, <3>5, PagesLost
    <3>6. CASE lost # <<>>
      <4>1. /\ pages' \in Seq(ViewSet) /\ Len(pages') = Len(lost) - 1
            /\ DOMAIN pages' \subseteq DOMAIN lost
            /\ \A p \in DOMAIN pages' : pages'[p] = lost[p]
        BY <3>1, <3>4, <3>6, PopKeeps
      <4>2. Len(pages') <= MaxPages
        BY <1>0, <3>4, <4>1, ViewAssumption DEF ViewAssumption
      <4> QED
        BY <1>0, <3>1, <3>2, <3>4, <4>1, <4>2, PagesLost
    <3> QED
      BY <3>5, <3>6
  <2> QED
    BY <2>1, <2>2
<1>11. CASE Others
  <2>1. UNCHANGED <<pages, tracks>>
    BY <1>11 DEF Others, Callback, Task, ConnectBegins, Joins, ConnectReturns, OnTrackSubscribed,
       OnTrackUnsubscribed, OnTrackSubscriptionFailed, OnReconnecting, OnReconnected,
       OnDisconnected, Post, transport
  <2> QED
    BY <2>1, <1>a
<1>12. CASE UNCHANGED vars
  BY <1>12, <1>a DEF vars, transport
<1> QED
  BY <1>1, <1>2, <1>3, <1>4, <1>5, <1>6, <1>7, <1>8, <1>9, <1>10, <1>11, <1>12
     DEF Next, UI, Dispatch
-----------------------------------------------------------------------------
(***************************************************************************)
(* The transport under one step.                                           *)
(***************************************************************************)

\* Task numbers are positive, so a watcher that is not null watches one.
LEMMA ConnectsAre == Connects \subseteq Nat \ {0} /\ Connects \subseteq 0..MaxConnects
  BY TransportAssumption DEF Connects, TransportAssumption

\* Everything that is posted is an event.
LEMMA EventsAre ==
    /\ \A s \in Sids : TrackEvent("attach", s) \in EventSet /\ TrackEvent("detach", s) \in EventSet
    /\ \A c \in {"connecting", "connected", "disconnected"} : StateEvent(c) \in EventSet
    /\ \A k \in {"finished", "disconnected", "destroy"} : Event(k) \in EventSet
  BY DEF TrackEvent, StateEvent, Event, EventSet

\* Every step keeps the transport's types and the watcher on the connection in
\* progress.
LEMMA TransportStep ==
    TransportOK /\ WatcherCurrent /\ [Next]_vars => TransportOK' /\ WatcherCurrent'
<1> SUFFICES ASSUME TransportOK, WatcherCurrent, [Next]_vars
             PROVE  TransportOK' /\ WatcherCurrent'
  OBVIOUS
<1> USE ConnectsAre
<1>1. CASE OpenPage
  <2>1. UNCHANGED <<events, ui, session, tracks, joined, streaming>> /\ ui = "loop"
    BY <1>1 DEF OpenPage, ConnectToRoom, transport, livekit
  <2>2. CASE UNCHANGED <<connectionState, room, watcher, connect>>
    BY <2>1, <2>2 DEF TransportOK, WatcherCurrent
  <2>3. ASSUME NEW t \in Connects, watcher # 0 => connect[watcher] \notin Unfinished,
               connect' = [connect EXCEPT ![t] = "queued"], watcher' = t,
               connectionState' = "connecting", room' = TRUE
        PROVE  TransportOK' /\ WatcherCurrent'
    <3>1. \A u \in Connects : connect[u] \notin Unfinished
      BY <2>3 DEF WatcherCurrent
    <3> QED
      BY <2>1, <2>3, <3>1 DEF TransportOK, WatcherCurrent, Unfinished
  <2> QED
    BY <1>1, <2>2, <2>3 DEF OpenPage, ConnectToRoom, transport
<1>2. CASE ClosePage
  <2>1. UNCHANGED <<transport, livekit, ui>>
    BY <1>2 DEF ClosePage
  <2>2. events' \in Seq(EventSet)
    BY <1>2, EventsAre DEF ClosePage, PopPage, TransportOK
  <2> QED
    BY <2>1, <2>2 DEF TransportOK, WatcherCurrent, transport, livekit
<1>3. ASSUME NEW i \in 0..(MaxCameras - 1), Select(i) PROVE TransportOK' /\ WatcherCurrent'
  BY <1>3 DEF Select, TransportOK, WatcherCurrent, transport, livekit
<1>4. CASE ResultReady
  <2>1. /\ connect[watcher] \notin Unfinished /\ watcher' = 0 /\ ui' = "loop"
        /\ UNCHANGED <<connectionState, room, connect, joined, streaming, events>>
        /\ session' \in BOOLEAN /\ tracks' \subseteq Sids
    BY <1>4 DEF ResultReady, FinishedEnds, livekit, TransportOK
  <2>2. \A t \in Connects : connect[t] \notin Unfinished
    BY <2>1 DEF WatcherCurrent
  <2>3. 0 \in 0..MaxConnects
    BY TransportAssumption DEF TransportAssumption
  <2> QED
    BY <2>1, <2>2, <2>3 DEF TransportOK, WatcherCurrent
<1>5. CASE HandleFinished
  <2>1. /\ UNCHANGED <<transport, livekit>> /\ events' = Tail(events) /\ events # <<>>
        /\ ui' = IF watcher = 0 THEN "crashed" ELSE "result"
    BY <1>5 DEF HandleFinished, Handles
  <2>2. watcher # 0 => watcher \in Connects
    BY TransportAssumption DEF TransportOK, Connects, TransportAssumption
  <2>3. events' \in Seq(EventSet)
    BY <2>1, HeadFields DEF TransportOK
  <2> QED
    BY <2>1, <2>2, <2>3 DEF TransportOK, WatcherCurrent, transport, livekit
<1>6. CASE HandleAttach
  <2>1. /\ events # <<>> /\ ui = "loop" /\ events' = Tail(events) /\ Head(events).sid \in Sids
        /\ AttachTrack(Head(events).sid) /\ UNCHANGED ui
    BY <1>6, HeadFields DEF HandleAttach, Handles, TransportOK
  <2>2. events' \in Seq(EventSet)
    BY <2>1, HeadFields DEF TransportOK
  <2> QED
    BY <2>1, <2>2 DEF AttachTrack, TransportOK, WatcherCurrent, livekit
<1>7. CASE HandleDetach
  <2>1. /\ events # <<>> /\ ui = "loop" /\ events' = Tail(events)
        /\ DetachTrack(Head(events).sid) /\ UNCHANGED ui
    BY <1>7 DEF HandleDetach, Handles
  <2>2. events' \in Seq(EventSet)
    BY <2>1, HeadFields DEF TransportOK
  <2> QED
    BY <2>1, <2>2 DEF DetachTrack, TransportOK, WatcherCurrent, livekit
<1>8. CASE HandleState
  <2>1. /\ events # <<>> /\ ui = "loop" /\ events' = Tail(events) /\ UNCHANGED ui
        /\ SetConnectionState(Head(events).state)
        /\ Head(events).state \in {"connecting", "connected", "disconnected"}
    BY <1>8, HeadFields DEF HandleState, Handles, TransportOK
  <2>2. events' \in Seq(EventSet)
    BY <2>1, HeadFields DEF TransportOK
  <2> QED
    BY <2>1, <2>2 DEF SetConnectionState, TransportOK, WatcherCurrent, livekit
<1>9. CASE HandleDisconnected
  <2>1. UNCHANGED <<transport, livekit, ui>> /\ events # <<>>
    BY <1>9 DEF HandleDisconnected, Handles
  <2>2. events' \in Seq(EventSet)
    BY <1>9, <2>1, EventsAre, HeadFields DEF HandleDisconnected, PopPage, TransportOK
  <2> QED
    BY <2>1, <2>2 DEF TransportOK, WatcherCurrent, transport, livekit
<1>10. CASE HandleDestroy
  <2>1. events # <<>> /\ ui = "loop" /\ UNCHANGED ui /\ DisconnectFromRoom
    BY <1>10 DEF HandleDestroy, Handles
  <2>2. events' = Tail(events) \/ events' = Append(Tail(events), Event("destroy"))
    BY <1>10 DEF HandleDestroy, PopPage
  <2>3. events' \in Seq(EventSet)
    BY <2>1, <2>2, EventsAre, HeadFields DEF TransportOK
  <2> QED
    BY <2>1, <2>3 DEF DisconnectFromRoom, TransportOK, WatcherCurrent, transport, livekit
<1>11. ASSUME NEW t \in Connects, Task(t) PROVE TransportOK' /\ WatcherCurrent'
  <2>1. CASE ConnectBegins(t)
    BY <2>1 DEF ConnectBegins, TransportOK, WatcherCurrent, Unfinished, livekit
  <2>2. CASE Joins(t)
    <3>1. events' \in Seq(EventSet)
      BY <2>2, EventsAre DEF Joins, TransportOK
    <3> QED
      BY <2>2, <3>1 DEF Joins, TransportOK, WatcherCurrent, Unfinished
  <2>3. CASE ConnectReturns(t)
    <3>1. events' \in Seq(EventSet)
      BY <2>3, EventsAre DEF ConnectReturns, TransportOK
    <3> QED
      BY <2>3, <3>1 DEF ConnectReturns, TransportOK, WatcherCurrent, Unfinished, livekit
  <2> QED
    BY <1>11, <2>1, <2>2, <2>3 DEF Task
<1>12. CASE Callback
  <2>1. UNCHANGED <<transport, ui>>
    BY <1>12 DEF Callback, OnTrackSubscribed, OnTrackUnsubscribed, OnTrackSubscriptionFailed,
       OnReconnecting, OnReconnected, OnDisconnected, Post
  <2>2. events' \in Seq(EventSet)
    <3>1. CASE OnDisconnected
      BY <3>1, EventsAre DEF OnDisconnected, TransportOK
    <3>2. CASE ~OnDisconnected
      <4>1. \E e \in EventSet : events' = Append(events, e)
        BY <1>12, <3>2, EventsAre DEF Callback, OnTrackSubscribed, OnTrackUnsubscribed,
           OnTrackSubscriptionFailed, OnReconnecting, OnReconnected, Post
      <4> QED
        BY <4>1 DEF TransportOK
    <3> QED
      BY <3>1, <3>2
  <2>3. joined' \in BOOLEAN /\ streaming' \subseteq Sids
    BY <1>12 DEF Callback, OnTrackSubscribed, OnTrackUnsubscribed, OnTrackSubscriptionFailed,
       OnReconnecting, OnReconnected, OnDisconnected, Post, TransportOK, livekit
  <2> QED
    BY <2>1, <2>2, <2>3 DEF TransportOK, WatcherCurrent, transport
<1>13. CASE UNCHANGED vars
  BY <1>13 DEF vars, TransportOK, WatcherCurrent, transport, livekit
<1> QED
  BY <1>1, <1>2, <1>3, <1>4, <1>5, <1>6, <1>7, <1>8, <1>9, <1>10, <1>11, <1>12, <1>13
     DEF Next, UI, Dispatch, Others

-----------------------------------------------------------------------------
(***************************************************************************)
(* Tracks that have ended.  The queue keeps the order of the callbacks, so *)
(* what it holds about a track LiveKit no longer streams ends with its     *)
(* detach event.  This needs a first connection whose room nobody has left *)
(* before: events of an earlier one would mix with its own.                *)
(***************************************************************************)

\* Queue q, session tracks T and streamed tracks S: a track that has ended is out of
\* the session or will be, and its attach events are followed by a detach event.
Answered(q, T, S) ==
    \A s \in Sids \ S :
        /\ s \in T => \E k \in DOMAIN q : q[k] = TrackEvent("detach", s)
        /\ \A k \in DOMAIN q : q[k] = TrackEvent("attach", s) =>
              \E m \in DOMAIN q : m > k /\ q[m] = TrackEvent("detach", s)

NoAttach(q) == \A k \in DOMAIN q, s \in Sids : q[k] # TrackEvent("attach", s)

FirstOnly == \A t \in Connects \ {1} : connect[t] = "none"
NotJoined == connect[1] \in {"none", "queued", "connecting"}

\* Before the first connection is up nothing is known of any track.
Quiet == ~joined /\ tracks = {} /\ streaming = {} /\ NoAttach(events)

EndingsReported ==
    /\ FirstOnly /\ NotJoined => Quiet
    /\ ~session => tracks = {}
    /\ FirstOnly /\ joined => Answered(events, tracks, streaming)

\* Posting an event that is no attach event of an ended track, and the detach event
\* of every track that has just ended.
LEMMA AnsweredAppend ==
    ASSUME NEW q \in Seq(EventSet), NEW e \in EventSet, NEW T, NEW S, NEW S2,
           Answered(q, T, S),
           \A s \in Sids \ S2 : s \in S => e = TrackEvent("detach", s),
           \A s \in Sids \ S2 : e # TrackEvent("attach", s)
    PROVE  Answered(Append(q, e), T, S2)
<1> DEFINE r == Append(q, e)
           n == Len(q) + 1
<1>1. /\ DOMAIN q = 1..Len(q) /\ Len(q) \in Nat /\ DOMAIN r = 1..n
      /\ r[n] = e /\ n \in DOMAIN r
      /\ \A k \in DOMAIN q : k \in DOMAIN r /\ k < n /\ r[k] = q[k]
      /\ \A k \in DOMAIN r : k = n \/ k \in DOMAIN q
    OBVIOUS
<1> HIDE DEF r, n
<1> SUFFICES ASSUME NEW s \in Sids \ S2
             PROVE  /\ s \in T => \E k \in DOMAIN r : r[k] = TrackEvent("detach", s)
                    /\ \A k \in DOMAIN r : r[k] = TrackEvent("attach", s) =>
                          \E m \in DOMAIN r : m > k /\ r[m] = TrackEvent("detach", s)
    BY DEF Answered, r
<1>2. CASE s \in S
    BY <1>1, <1>2
<1>3. CASE s \notin S
    BY <1>1, <1>3 DEF Answered
<1> QED BY <1>2, <1>3

\* Handling the head: its attach event may add a track, its detach event has to
\* remove one.
LEMMA AnsweredTail ==
    ASSUME NEW q \in Seq(EventSet), q # <<>>, NEW T, NEW T2, NEW S,
           Answered(q, T, S),
           \A s \in Sids : s \in T2 => s \in T \/ Head(q) = TrackEvent("attach", s),
           \A s \in Sids : s \in T2 => Head(q) # TrackEvent("detach", s)
    PROVE  Answered(Tail(q), T2, S)
<1> DEFINE r == Tail(q)
<1>1. /\ DOMAIN q = 1..Len(q) /\ Len(q) \in Nat /\ Head(q) = q[1] /\ 1 \in DOMAIN q
      /\ \A k \in DOMAIN r : k \in Nat /\ k + 1 \in DOMAIN q /\ r[k] = q[k + 1]
      /\ \A k \in DOMAIN q : k \in Nat /\ (k = 1 \/ (k > 1 /\ k - 1 \in DOMAIN r /\ r[k - 1] = q[k]))
    OBVIOUS
<1> HIDE DEF r
<1> SUFFICES ASSUME NEW s \in Sids \ S
             PROVE  /\ s \in T2 => \E k \in DOMAIN r : r[k] = TrackEvent("detach", s)
                    /\ \A k \in DOMAIN r : r[k] = TrackEvent("attach", s) =>
                          \E m \in DOMAIN r : m > k /\ r[m] = TrackEvent("detach", s)
    BY DEF Answered, r
<1>2. ASSUME s \in T2 PROVE \E k \in DOMAIN r : r[k] = TrackEvent("detach", s)
    <2>1. \E m \in DOMAIN q : m # 1 /\ q[m] = TrackEvent("detach", s)
        BY <1>1, <1>2 DEF Answered
    <2> QED BY <1>1, <2>1
<1>3. ASSUME NEW k \in DOMAIN r, r[k] = TrackEvent("attach", s)
      PROVE  \E m \in DOMAIN r : m > k /\ r[m] = TrackEvent("detach", s)
    <2>1. k + 1 \in DOMAIN q /\ q[k + 1] = TrackEvent("attach", s) /\ k \in Nat
        BY <1>1, <1>3
    <2>2. PICK m \in DOMAIN q : m > k + 1 /\ q[m] = TrackEvent("detach", s)
        BY <2>1 DEF Answered
    <2>3. m - 1 \in DOMAIN r /\ r[m - 1] = TrackEvent("detach", s) /\ m - 1 > k
        BY <1>1, <2>1, <2>2
    <2> QED BY <2>3
<1> QED BY <1>2, <1>3

LEMMA NoAttachQueue ==
    ASSUME NEW q \in Seq(EventSet), NoAttach(q)
    PROVE  /\ q # <<>> => NoAttach(Tail(q)) /\ \A s \in Sids : Head(q) # TrackEvent("attach", s)
           /\ \A e \in EventSet : e.kind # "attach" => NoAttach(Append(q, e))
<1>1. ASSUME q # <<>>
      PROVE  NoAttach(Tail(q)) /\ \A s \in Sids : Head(q) # TrackEvent("attach", s)
    <2>1. /\ Head(q) = q[1] /\ 1 \in DOMAIN q
          /\ \A k \in DOMAIN Tail(q) : k + 1 \in DOMAIN q /\ Tail(q)[k] = q[k + 1]
        BY <1>1
    <2> QED BY <2>1 DEF NoAttach
<1>2. ASSUME NEW e \in EventSet, e.kind # "attach"
      PROVE  NoAttach(Append(q, e))
    <2>1. \A k \in DOMAIN Append(q, e) :
             Append(q, e)[k] = e \/ (k \in DOMAIN q /\ Append(q, e)[k] = q[k])
        OBVIOUS
    <2>2. \A s \in Sids : e # TrackEvent("attach", s)
        BY <1>2 DEF TrackEvent
    <2> QED BY <2>1, <2>2 DEF NoAttach
<1> QED BY <1>1, <1>2

\* A task, once begun, does not go back; a second one ends the first connection.
LEMMA ConnectsAge ==
    ASSUME TransportOK, [Next]_vars
    PROVE  (FirstOnly' => FirstOnly) /\ (NotJoined' => NotJoined)
<1> USE DEF FirstOnly, NotJoined
<1>1. CASE connect' = connect
    BY <1>1
<1>2. ASSUME NEW t \in Connects, NEW x \in Unfinished \cup {"true", "false"},
             connect' = [connect EXCEPT ![t] = x],
             x \in {"queued", "connecting"} =>
                 connect[t] \in {"none", "queued", "connecting"}
      PROVE  (FirstOnly' => FirstOnly) /\ (NotJoined' => NotJoined)
    BY <1>2, TransportAssumption DEF TransportOK, Unfinished, Connects, TransportAssumption
<1>3. CASE OpenPage
    <2>1. \/ connect' = connect
          \/ \E t \in Connects : connect[t] = "none" /\ connect' = [connect EXCEPT ![t] = "queued"]
        BY <1>3 DEF OpenPage, ConnectToRoom, transport
    <2> QED BY <1>1, <1>2, <2>1 DEF Unfinished
<1>4. ASSUME NEW t \in Connects, Task(t)
      PROVE  (FirstOnly' => FirstOnly) /\ (NotJoined' => NotJoined)
    <2>1. CASE ConnectBegins(t)
        BY <1>1, <1>2, <2>1 DEF ConnectBegins, Unfinished
    <2>2. CASE Joins(t)
        BY <1>2, <2>2 DEF Joins, Unfinished
    <2>3. CASE ConnectReturns(t)
        BY <1>1, <1>2, <2>3 DEF ConnectReturns, Unfinished
    <2> QED BY <1>4, <2>1, <2>2, <2>3 DEF Task
<1>5. CASE UI /\ ~OpenPage
    <2>1. connect' = connect
        BY <1>5 DEF UI, ClosePage, Select, ResultReady, FinishedEnds, Dispatch, HandleFinished,
           HandleAttach, AttachTrack, HandleDetach, DetachTrack, HandleState,
           SetConnectionState, HandleDisconnected, HandleDestroy, DisconnectFromRoom, transport
    <2> QED BY <1>1, <2>1
<1>6. CASE Callback
    <2>1. connect' = connect
        BY <1>6 DEF Callback, OnTrackSubscribed, OnTrackUnsubscribed, OnTrackSubscriptionFailed,
           OnReconnecting, OnReconnected, OnDisconnected, Post, transport
    <2> QED BY <1>1, <2>1
<1>7. CASE UNCHANGED vars
    BY <1>1, <1>7 DEF vars, transport
<1> QED BY <1>3, <1>4, <1>5, <1>6, <1>7 DEF Next, Others

\* An event that is about no track, as the state and the UI thread's own events are.
TrackFree(e) == e \in EventSet /\ e.kind \notin {"attach", "detach"}

LEMMA TrackFreeEvents ==
    /\ \A c \in {"connecting", "connected", "disconnected"} : TrackFree(StateEvent(c))
    /\ \A k \in {"finished", "disconnected", "destroy"} : TrackFree(Event(k))
    /\ \A e, s : TrackFree(e) => e # TrackEvent("attach", s) /\ e # TrackEvent("detach", s)
BY EventsAre DEF TrackFree, StateEvent, Event, TrackEvent

LEMMA AnsweredFewer ==
    ASSUME NEW q, NEW T, NEW T2 \in SUBSET T, NEW S, Answered(q, T, S)
    PROVE  Answered(q, T2, S)
BY DEF Answered

\* What may happen to the queue without a word about a track.
TrackFreeQueue ==
    \/ events' = events
    \/ \E e : TrackFree(e) /\ events' = Append(events, e)
    \/ events # <<>> /\ TrackFree(Head(events)) /\ events' = Tail(events)
    \/ /\ events # <<>> /\ TrackFree(Head(events))
       /\ \E e : TrackFree(e) /\ events' = Append(Tail(events), e)

LEMMA TrackFreeKeeps ==
    ASSUME TransportOK, TrackFreeQueue
    PROVE  /\ NoAttach(events) => NoAttach(events')
           /\ \A T, S : Answered(events, T, S) => Answered(events', T, S)
<1>1. ASSUME NEW q \in Seq(EventSet), NEW e, TrackFree(e)
      PROVE  /\ NoAttach(q) => NoAttach(Append(q, e))
             /\ \A T, S : Answered(q, T, S) => Answered(Append(q, e), T, S)
    <2>1. e \in EventSet /\ e.kind # "attach" /\ \A s : e # TrackEvent("attach", s)
        BY <1>1, TrackFreeEvents DEF TrackFree
    <2>2. NoAttach(q) => NoAttach(Append(q, e))
        BY <2>1, NoAttachQueue
    <2>3. ASSUME NEW T, NEW S, Answered(q, T, S) PROVE Answered(Append(q, e), T, S)
        BY <2>1, <2>3, AnsweredAppend
    <2> QED BY <2>2, <2>3
<1>2. ASSUME events # <<>>, TrackFree(Head(events))
      PROVE  /\ Tail(events) \in Seq(EventSet)
             /\ NoAttach(events) => NoAttach(Tail(events))
             /\ \A T, S : Answered(events, T, S) => Answered(Tail(events), T, S)
    <2>1. events \in Seq(EventSet) /\ Tail(events) \in Seq(EventSet)
        BY <1>2, HeadFields DEF TransportOK
    <2>2. NoAttach(events) => NoAttach(Tail(events))
        BY <1>2, <2>1, NoAttachQueue
    <2>3. ASSUME NEW T, NEW S, Answered(events, T, S) PROVE Answered(Tail(events), T, S)
        <3>1. \A s : Head(events) # TrackEvent("detach", s)
            BY <1>2, TrackFreeEvents
        <3> QED BY <1>2, <2>1, <2>3, <3>1, AnsweredTail
    <2> QED BY <2>1, <2>2, <2>3
<1>3. events \in Seq(EventSet)
    BY DEF TransportOK
<1> QED BY <1>1, <1>2, <1>3 DEF TrackFreeQueue

\* A step of the first connection that says nothing of a track and adds none.
LEMMA TrackFreeStep ==
    ASSUME TransportOK, EndingsReported, [Next]_vars, TrackFreeQueue,
           tracks' \subseteq tracks, ~session' => tracks' = {},
           joined' => joined, streaming' = streaming \/ (streaming' = {} /\ ~joined')
    PROVE  EndingsReported'
<1>1. (FirstOnly' => FirstOnly) /\ (NotJoined' => NotJoined)
    BY ConnectsAge
<1>2. ASSUME FirstOnly', NotJoined' PROVE Quiet'
    BY <1>1, <1>2, TrackFreeKeeps DEF EndingsReported, Quiet
<1>3. ASSUME FirstOnly', joined' PROVE Answered(events', tracks', streaming')
    <2>1. Answered(events', tracks, streaming)
        BY <1>1, <1>3, TrackFreeKeeps DEF EndingsReported
    <2> QED BY <1>3, <2>1, AnsweredFewer
<1> QED BY <1>2, <1>3 DEF EndingsReported

\* Every step keeps the endings of tracks reported.
LEMMA ReportStep ==
    ASSUME TransportOK, EndingsReported, [Next]_vars
    PROVE  EndingsReported'
<1>0. /\ events \in Seq(EventSet) /\ tracks \subseteq Sids /\ joined \in BOOLEAN
      /\ (~session => tracks = {})
      /\ (FirstOnly' => FirstOnly) /\ (NotJoined' => NotJoined)
    BY ConnectsAge DEF TransportOK, EndingsReported
<1> DEFINE Plain == UNCHANGED <<session, tracks, joined, streaming>>
<1>p. ASSUME Plain, TrackFreeQueue PROVE EndingsReported'
    BY <1>0, <1>p, TrackFreeStep
<1>1. CASE OpenPage
    BY <1>1, <1>p DEF OpenPage, ConnectToRoom, transport, livekit, TrackFreeQueue
<1>2. CASE ClosePage
    <2>1. TrackFreeQueue
        BY <1>2, TrackFreeEvents DEF ClosePage, PopPage, TrackFreeQueue
    <2> QED BY <1>2, <1>p, <2>1 DEF ClosePage, transport, livekit
<1>3. ASSUME NEW i \in 0..(MaxCameras - 1), Select(i) PROVE EndingsReported'
    BY <1>3, <1>p DEF Select, transport, livekit, TrackFreeQueue
<1>4. CASE ResultReady
    <2>1. /\ (UNCHANGED <<session, tracks>> \/ (session' = TRUE /\ tracks' = {}))
          /\ UNCHANGED <<joined, streaming, events>>
        BY <1>4 DEF ResultReady, FinishedEnds, livekit
    <2>2. TrackFreeQueue
        BY <2>1 DEF TrackFreeQueue
    <2> QED BY <1>0, <2>1, <2>2, TrackFreeStep
<1>5. CASE HandleFinished
    <2>1. TrackFreeQueue
        BY <1>0, <1>5 DEF HandleFinished, Handles, TrackFreeQueue, TrackFree
    <2> QED BY <1>5, <1>p, <2>1 DEF HandleFinished, transport, livekit
<1>6. CASE HandleAttach
    <2>1. /\ events # <<>> /\ events' = Tail(events) /\ Head(events).kind = "attach"
          /\ AttachTrack(Head(events).sid)
        BY <1>6 DEF HandleAttach, Handles
    <2>2. PICK s \in Sids : s = Head(events).sid /\ Head(events) = TrackEvent("attach", s)
        <3>1. Head(events) \in EventSet
            BY <1>0, <2>1
        <3> QED BY <2>1, <3>1 DEF EventSet, TrackEvent
    <2>3. /\ UNCHANGED <<session, joined, streaming, connect>>
          /\ tracks' = tracks \/ (session /\ tracks' = tracks \cup {s})
        BY <2>1, <2>2 DEF AttachTrack, livekit
    <2>4. ~(FirstOnly' /\ NotJoined')
        BY <1>0, <2>1, <2>2, NoAttachQueue DEF EndingsReported, Quiet
    <2>5. ASSUME FirstOnly', joined' PROVE Answered(events', tracks', streaming')
        <3>1. Answered(events, tracks, streaming)
            BY <1>0, <2>3, <2>5 DEF EndingsReported
        <3>2. \A u \in Sids : Head(events) # TrackEvent("detach", u)
            BY <2>1 DEF TrackEvent
        <3>3. \A u \in Sids : u \in tracks' => u \in tracks \/ Head(events) = TrackEvent("attach", u)
            BY <2>2, <2>3
        <3>4. Answered(Tail(events), tracks', streaming)
            BY <1>0, <2>1, <3>1, <3>2, <3>3, AnsweredTail
        <3> QED BY <2>1, <2>3, <3>4
    <2> QED BY <1>0, <2>3, <2>4, <2>5 DEF EndingsReported
<1>7. CASE HandleDetach
    <2>1. /\ events # <<>> /\ events' = Tail(events) /\ Head(events).kind = "detach"
          /\ DetachTrack(Head(events).sid)
        BY <1>7 DEF HandleDetach, Handles
    <2>2. /\ UNCHANGED <<session, joined, streaming, connect>>
          /\ tracks' = tracks \ {Head(events).sid}
        BY <1>0, <2>1 DEF DetachTrack, livekit
    <2>3. ASSUME FirstOnly', NotJoined' PROVE Quiet'
        BY <1>0, <2>1, <2>2, <2>3, NoAttachQueue DEF EndingsReported, Quiet
    <2>4. ASSUME FirstOnly', joined' PROVE Answered(events', tracks', streaming')
        <3>1. Answered(events, tracks, streaming)
            BY <1>0, <2>2, <2>4 DEF EndingsReported
        <3>2. \A u \in Sids : u \in tracks' => Head(events) # TrackEvent("detach", u)
            BY <2>2 DEF TrackEvent
        <3>3. Answered(Tail(events), tracks', streaming)
            BY <1>0, <2>1, <2>2, <3>1, <3>2, AnsweredTail
        <3> QED BY <2>1, <2>2, <3>3
    <2> QED BY <1>0, <2>2, <2>3, <2>4 DEF EndingsReported
<1>8. CASE HandleState
    <2>1. TrackFreeQueue
        BY <1>0, <1>8 DEF HandleState, Handles, TrackFreeQueue, TrackFree
    <2> QED BY <1>8, <1>p, <2>1 DEF HandleState, SetConnectionState, livekit
<1>9. CASE HandleDisconnected
    <2>1. events # <<>> /\ TrackFree(Head(events)) /\ PopPage(pages, Tail(events))
        BY <1>0, <1>9 DEF HandleDisconnected, Handles, TrackFree
    <2>2. TrackFreeQueue
        BY <2>1, TrackFreeEvents DEF PopPage, TrackFreeQueue
    <2> QED BY <1>9, <1>p, <2>2 DEF HandleDisconnected, transport, livekit
<1>10. CASE HandleDestroy
    <2>1. events # <<>> /\ TrackFree(Head(events)) /\ DisconnectFromRoom
        BY <1>0, <1>10 DEF HandleDestroy, Handles, TrackFree
    <2>2. events' = Tail(events) \/ events' = Append(Tail(events), Event("destroy"))
        BY <1>10 DEF HandleDestroy, PopPage
    <2>3. TrackFreeQueue
        BY <2>1, <2>2, TrackFreeEvents DEF TrackFreeQueue
    <2>4. \/ Plain
          \/ session' = FALSE /\ tracks' = {} /\ joined' = FALSE /\ streaming' = {}
        BY <2>1 DEF DisconnectFromRoom, transport, livekit
    <2> QED BY <1>0, <2>3, <2>4, TrackFreeStep
<1>11. ASSUME NEW t \in Connects, Task(t) PROVE EndingsReported'
    <2>1. CASE ConnectBegins(t)
        BY <1>p, <2>1 DEF ConnectBegins, livekit, TrackFreeQueue
    <2>2. CASE Joins(t)
        <3>1. /\ connect[t] = "connecting" /\ joined' = TRUE
              /\ connect' = [connect EXCEPT ![t] = "joined"]
              /\ events' = Append(events, StateEvent("connected"))
              /\ UNCHANGED <<session, tracks, streaming>>
            BY <2>2 DEF Joins
        <3>2. ASSUME FirstOnly' PROVE t = 1 /\ Quiet /\ ~NotJoined'
            <4>1. t = 1
                BY <3>1, <3>2 DEF FirstOnly, TransportOK
            <4> QED BY <1>0, <3>1, <3>2, <4>1 DEF EndingsReported, NotJoined, TransportOK
        <3>3. TrackFree(StateEvent("connected"))
            BY TrackFreeEvents
        <3>4. NoAttach(events) => NoAttach(events')
            BY <3>1, <3>3, TrackFreeKeeps DEF TrackFreeQueue
        <3>5. ASSUME FirstOnly' PROVE Answered(events', tracks', streaming')
            BY <3>1, <3>2, <3>4, <3>5 DEF Quiet, Answered, NoAttach
        <3> QED BY <1>0, <3>1, <3>2, <3>5 DEF EndingsReported
    <2>3. CASE ConnectReturns(t)
        <3>1. Plain /\ (events' = events \/ events' = Append(events, Event("finished")))
            BY <2>3 DEF ConnectReturns, livekit
        <3> QED BY <1>p, <3>1, TrackFreeEvents DEF TrackFreeQueue
    <2> QED BY <1>11, <2>1, <2>2, <2>3 DEF Task
<1>12. CASE Callback
    <2>1. ASSUME NEW c \in {"connecting", "connected"}, Post(StateEvent(c)), UNCHANGED livekit
          PROVE  EndingsReported'
        <3>1. TrackFreeQueue
            BY <2>1, TrackFreeEvents DEF Post, TrackFreeQueue
        <3> QED BY <1>p, <2>1, <3>1 DEF Post, transport, livekit
    <2>2. ASSUME joined, UNCHANGED <<session, tracks, connect>>, NEW e \in EventSet,
                 events' = Append(events, e), joined' = joined,
                 \A s \in Sids \ streaming' : s \in streaming => e = TrackEvent("detach", s),
                 \A s \in Sids \ streaming' : e # TrackEvent("attach", s)
          PROVE  EndingsReported'
        <3>1. ~(FirstOnly' /\ NotJoined')
            BY <1>0, <2>2 DEF EndingsReported, Quiet
        <3>2. ASSUME FirstOnly' PROVE Answered(events', tracks', streaming')
            <4>1. Answered(events, tracks, streaming)
                BY <1>0, <2>2, <3>2 DEF EndingsReported
            <4>2. Answered(Append(events, e), tracks, streaming')
                BY <1>0, <2>2, <4>1, AnsweredAppend
            <4> QED BY <2>2, <4>2
        <3> QED BY <1>0, <2>2, <3>1, <3>2 DEF EndingsReported
    <2>3. ASSUME NEW s \in Sids, OnTrackSubscribed(s) PROVE EndingsReported'
        <3>1. \A u \in Sids \ streaming' : u # s /\ u \notin streaming
            BY <2>3 DEF OnTrackSubscribed
        <3>2. \A u \in Sids \ streaming' : TrackEvent("attach", s) # TrackEvent("attach", u)
            BY <3>1 DEF TrackEvent
        <3> QED BY <2>2, <2>3, <3>1, <3>2, EventsAre DEF OnTrackSubscribed, Post, transport
    <2>4. ASSUME NEW s \in Sids, OnTrackSubscriptionFailed(s) PROVE EndingsReported'
        <3>1. \A u \in Sids : TrackEvent("detach", s) # TrackEvent("attach", u)
            BY DEF TrackEvent
        <3> QED
            BY <2>2, <2>4, <3>1, EventsAre DEF OnTrackSubscriptionFailed, Post, transport, livekit
    <2>5. ASSUME NEW s \in Sids, OnTrackUnsubscribed(s) PROVE EndingsReported'
        <3>1. \A u \in Sids : TrackEvent("detach", s) # TrackEvent("attach", u)
            BY DEF TrackEvent
        <3>2. CASE joined
            BY <2>2, <2>5, <3>1, <3>2, EventsAre DEF OnTrackUnsubscribed, Post, transport
        <3>3. CASE ~joined
            <4>1. /\ UNCHANGED <<session, tracks, joined, connect>> /\ s \in streaming
                BY <2>5 DEF OnTrackUnsubscribed, Post, transport
            <4>2. ~(FirstOnly' /\ NotJoined')
                BY <1>0, <4>1 DEF EndingsReported, Quiet
            <4> QED BY <1>0, <3>3, <4>1, <4>2 DEF EndingsReported
        <3> QED BY <1>0, <3>2, <3>3
    <2>6. CASE OnDisconnected
        <3>1. UNCHANGED <<session, tracks, connect>> /\ joined /\ joined' = FALSE
            BY <2>6 DEF OnDisconnected, transport
        <3>2. ~(FirstOnly' /\ NotJoined')
            BY <1>0, <3>1 DEF EndingsReported, Quiet
        <3> QED BY <1>0, <3>1, <3>2 DEF EndingsReported
    <2> QED
        BY <1>12, <2>1, <2>3, <2>4, <2>5, <2>6 DEF Callback, OnReconnecting, OnReconnected
<1>13. CASE UNCHANGED vars
    BY <1>13, <1>p DEF vars, transport, livekit, TrackFreeQueue
<1> QED
    BY <1>1, <1>2, <1>3, <1>4, <1>5, <1>6, <1>7, <1>8, <1>9, <1>10, <1>11, <1>12, <1>13
       DEF Next, UI, Dispatch, Others

-----------------------------------------------------------------------------
(***************************************************************************)
(* The theorems.                                                           *)
(***************************************************************************)

\* The invariant has these three parts.
LEMMA Parts == IndInv <=> TransportOK /\ ViewsOK /\ WatcherCurrent
  BY DEF IndInv, TypeOK, TransportOK, ViewsOK

\* A client that has just come up satisfies the invariant.
LEMMA InitOK == Init => IndInv
<1> SUFFICES ASSUME Init PROVE TransportOK /\ ViewsOK /\ WatcherCurrent
  BY Parts
<1>1. TransportOK
  <2>1. watcher \in 0..MaxConnects
    BY TransportAssumption DEF Init, TransportInit, TransportAssumption
  <2>2. events \in Seq(EventSet)
    BY DEF Init, TransportInit
  <2> QED
    BY <2>1, <2>2 DEF Init, TransportInit, TransportOK
<1>3. WatcherCurrent
  BY DEF Init, TransportInit, WatcherCurrent, Unfinished
<1>2. ViewsOK
  BY ViewAssumption DEF Init, ViewsOK, FeedMatches, ViewAssumption
<1> QED
  BY <1>1, <1>2, <1>3

\* Every reachable state satisfies it.
LEMMA Invariance == Spec => []IndInv
<1>1. TransportOK' /\ ViewsOK' /\ WatcherCurrent' => IndInv'
  BY DEF IndInv, TypeOK, TransportOK, ViewsOK
<1>2. IndInv /\ [Next]_vars => IndInv'
  BY <1>1, Parts, ViewStep, TransportStep
<1> QED
  BY <1>2, InitOK, PTL DEF Spec

\* Transport, event queue and views keep their types.
THEOREM TypeCorrect == Spec => []TypeOK
<1>1. IndInv => TypeOK
  BY DEF IndInv
<1> QED
  BY <1>1, Invariance, PTL

\* However pages are opened and left, Connect is never called on the room while
\* another call is running.
THEOREM OneConnect == Spec => []ConnectsExclusive
<1>1. IndInv => ConnectsExclusive
  BY DEF IndInv, WatcherCurrent, ConnectsExclusive
<1> QED
  BY <1>1, Invariance, PTL

\* The large feed of every view is the track at activeCamera, for any set of tracks
\* attached and detached in any order.
THEOREM FeedShowsActive == Spec => []FeedMatches
<1>1. IndInv => FeedMatches
  BY DEF IndInv
<1> QED
  BY <1>1, Invariance, PTL

\* Only a click or the end of its track changes a large feed.
THEOREM FeedSteady == Spec => FeedFollows
<1>1. IndInv /\ [Next]_vars => [Follows]_vars
  BY Parts, ViewStep
<1>2. Spec => [][Follows]_vars
  BY <1>1, Invariance, PTL DEF Spec
<1> QED
  BY <1>2 DEF FeedFollows, Follows

\* Within the first connection every track of the session that LiveKit no longer
\* streams has a detach event on its way to DirectorSession::detachTrack, for any
\* number of tracks and any order of their callbacks.
THEOREM TracksEnd == Spec => []NoGhostTrack
<1>1. Init => EndingsReported
  BY DEF Init, TransportInit, EndingsReported, Quiet, NoAttach
<1>2. IndInv /\ EndingsReported /\ [Next]_vars => EndingsReported'
  BY Parts, ReportStep
<1>3. IndInv /\ EndingsReported => NoGhostTrack
  BY Parts DEF EndingsReported, FirstOnly, Answered, NoGhostTrack, Pending, TransportOK
<1> QED
  BY <1>1, <1>2, <1>3, Invariance, PTL DEF Spec
=============================================================================
