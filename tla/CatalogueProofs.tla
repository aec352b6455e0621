--------------------------- MODULE CatalogueProofs ----------------------------
(* What Catalogue guarantees for any number of requests, videos and titles.  *)
EXTENDS Catalogue, FiniteSetTheorems, TLAPS

\* The inductive invariant of the titles.  Videos may be infinitely many, so
\* that few of them hold a title is said of their finiteness too.
TitleInv == /\ TypeOK
            /\ MayHoldBound
            /\ \A t \in Titles : IsFiniteSet(MayHold(t))

\* Every initial state has the types, and no video has a title.
LEMMA InitInv == Init => TitleInv
<1> SUFFICES ASSUME Init PROVE TitleInv
  OBVIOUS
<1>1. TypeOK
  BY DEF Init, TypeOK
<1>2. ASSUME NEW t \in Titles PROVE MayHold(t) = {}
  BY CatalogueAssumption DEF Init, MayHold, Holders, Cleared
<1>3. Cardinality(Requests) \in Nat
  BY CatalogueAssumption, FS_CardinalityType
<1> QED BY <1>1, <1>2, <1>3, FS_EmptySet DEF TitleInv, MayHoldBound

\* Every step keeps the types.
LEMMA NextType == TypeOK /\ [Next]_vars => TypeOK'
<1> SUFFICES ASSUME TypeOK, [Next]_vars PROVE TypeOK'
  OBVIOUS
<1> USE DEF TypeOK, VideoRequest, GenreRequest, Goto, Begin, Answer, requests, NoRequest
<1>1. ASSUME NEW r \in Requests, NEW v \in Videos, NEW g \in Genres, NEW t \in Titles,
             StartCreate(r, v, t, g) \/ StartUpdate(r, v, t, g)
      PROVE  TypeOK'
  <2>1. CASE StartCreate(r, v, t, g)
    BY <2>1 DEF StartCreate
  <2>2. CASE StartUpdate(r, v, t, g)
    <3> DEFINE q == [video |-> v, title |-> t, genre |-> g, check |-> t # title[v]]
    <3>1. q \in VideoRequest
      OBVIOUS
    <3>2. PICK p \in {"genre", "title", "write"} :
             /\ pc' = [pc EXCEPT ![r] = p]
             /\ req' = [req EXCEPT ![r] = q]
             /\ UNCHANGED <<title, genre, name>>
      BY <2>2 DEF StartUpdate
    <3> HIDE DEF q
    <3> QED BY <3>1, <3>2
  <2> QED BY <1>1, <2>1, <2>2
<1>2. ASSUME NEW r \in Requests, NEW g \in Genres, NEW n \in Names,
             StartCreateGenre(r, g, n) \/ StartUpdateGenre(r, g, n)
      PROVE  TypeOK'
  <2> DEFINE q == [genre |-> g, name |-> n, check |-> FALSE]
  <2>1. q \in GenreRequest
    OBVIOUS
  <2>2. /\ pc' = [pc EXCEPT ![r] = "name"]
        /\ req' = [req EXCEPT ![r] = q]
        /\ UNCHANGED <<title, genre, name>>
    BY <1>2 DEF StartCreateGenre, StartUpdateGenre
  <2> HIDE DEF q
  <2> QED BY <2>1, <2>2
<1>3. ASSUME NEW r \in Requests, CheckGenre(r) \/ CheckTitle(r) \/ CheckName(r)
      PROVE  TypeOK'
  BY <1>3 DEF CheckGenre, CheckTitle, CheckName
<1>4. ASSUME NEW r \in Requests, WriteVideo(r) \/ WriteName(r) \/ Refuse(r)
      PROVE  TypeOK'
  <2>1. Answer(r)
    BY <1>4 DEF WriteVideo, WriteName, Refuse
  <2>2. /\ title' \in [Videos -> Titles \cup {"unused", "gone"}]
        /\ genre' \in [Videos -> Genres]
        /\ name' \in [Genres -> Names \cup {"unused", "gone"}]
    BY <1>4 DEF WriteVideo, WriteName, Refuse
  <2> QED BY <2>1, <2>2
<1>5. ASSUME NEW v \in Videos, DeleteVideo(v) PROVE TypeOK'
  BY <1>5 DEF DeleteVideo
<1>6. ASSUME NEW g \in Genres, DeleteGenre(g) PROVE TypeOK'
  BY <1>6 DEF DeleteGenre
<1>7. CASE UNCHANGED vars
  BY <1>7 DEF vars
<1> QED BY <1>1, <1>2, <1>3, <1>4, <1>5, <1>6, <1>7 DEF Next, RequestStep

\* Only the check of a title lets more videos hold it: a request that skips the
\* check writes a title its video had already, and a write makes true what was
\* about to be.
LEMMA OnlyCheckAdds ==
  ASSUME TypeOK, [Next]_vars, NEW t \in Titles,
         \A r \in Requests : CheckTitle(r) => req[r].title # t
  PROVE  MayHold(t)' \subseteq MayHold(t)
<1> USE CatalogueAssumption DEF TypeOK, MayHold, Holders, Cleared, Goto, Begin, Answer,
        requests
<1>1. ASSUME NEW r \in Requests, NEW v \in Videos, NEW g \in Genres, NEW u \in Titles,
             StartCreate(r, v, u, g)
      PROVE  MayHold(t)' \subseteq MayHold(t)
  <2>1. ASSUME NEW q \in Cleared(t)' PROVE q # r /\ pc'[q] = pc[q] /\ req'[q] = req[q]
    BY <1>1, <2>1 DEF StartCreate
  <2> QED BY <1>1, <2>1 DEF StartCreate
<1>2. ASSUME NEW r \in Requests, NEW v \in Videos, NEW g \in Genres, NEW u \in Titles,
             StartUpdate(r, v, u, g)
      PROVE  MayHold(t)' \subseteq MayHold(t)
  <2>1. /\ title' = title
        /\ \A q \in Requests \ {r} : pc'[q] = pc[q] /\ req'[q] = req[q]
        /\ req'[r].video = v /\ req'[r].title = u /\ req'[r].check = (u # title[v])
    BY <1>2 DEF StartUpdate
  <2>2. u # title[v] => pc'[r] \in {"genre", "title"}
    BY <1>2 DEF StartUpdate
  <2>3. r \in Cleared(t)' => v \in Holders(t)
    BY <2>1, <2>2
  <2> QED BY <2>1, <2>3
<1>3. ASSUME NEW r \in Requests, NEW g \in Genres, NEW n \in Names,
             StartCreateGenre(r, g, n) \/ StartUpdateGenre(r, g, n)
      PROVE  MayHold(t)' \subseteq MayHold(t)
  <2>1. title' = title /\ pc'[r] = "name"
        /\ \A q \in Requests \ {r} : pc'[q] = pc[q] /\ req'[q] = req[q]
    BY <1>3 DEF StartCreateGenre, StartUpdateGenre
  <2> QED BY <2>1
<1>4. ASSUME NEW r \in Requests, CheckGenre(r) \/ CheckTitle(r) \/ CheckName(r)
      PROVE  MayHold(t)' \subseteq MayHold(t)
  <2>1. /\ title' = title /\ req' = req
        /\ \A q \in Requests \ {r} : pc'[q] = pc[q]
    BY <1>4 DEF CheckGenre, CheckTitle, CheckName
  <2>2. r \in Cleared(t)' => r \in Cleared(t)
    BY <1>4 DEF CheckGenre, CheckTitle, CheckName
  <2> QED BY <2>1, <2>2
<1>5. ASSUME NEW r \in Requests, WriteVideo(r) PROVE MayHold(t)' \subseteq MayHold(t)
  <2>1. Cleared(t)' \subseteq Cleared(t) \ {r}
    BY <1>5 DEF WriteVideo
  <2>2. \A q \in Cleared(t)' : req'[q] = req[q]
    BY <1>5, <2>1 DEF WriteVideo
  <2>3. Holders(t)' \subseteq Holders(t) \cup {req[q].video : q \in Cleared(t)}
    BY <1>5 DEF WriteVideo
  <2> QED BY <2>1, <2>2, <2>3
<1>6. ASSUME NEW r \in Requests, WriteName(r) \/ Refuse(r)
      PROVE  MayHold(t)' \subseteq MayHold(t)
  <2>1. /\ title' = title /\ pc'[r] = "idle"
        /\ \A q \in Requests \ {r} : pc'[q] = pc[q] /\ req'[q] = req[q]
    BY <1>6 DEF WriteName, Refuse
  <2> QED BY <2>1
<1>7. ASSUME NEW v \in Videos, DeleteVideo(v) PROVE MayHold(t)' \subseteq MayHold(t)
  BY <1>7 DEF DeleteVideo
<1>8. ASSUME NEW g \in Genres, DeleteGenre(g) PROVE MayHold(t)' \subseteq MayHold(t)
  BY <1>8 DEF DeleteGenre
<1>9. CASE UNCHANGED vars
  BY <1>9 DEF vars
<1> QED BY <1>1, <1>2, <1>3, <1>4, <1>5, <1>6, <1>7, <1>8, <1>9 DEF Next, RequestStep

\* When a title was found free, only the requests in flight may come to hold
\* it, each for one video.
LEMMA CheckedIsBounded ==
  ASSUME TypeOK, NEW r \in Requests, CheckTitle(r), NEW t, t = req[r].title
  PROVE  /\ IsFiniteSet(MayHold(t)')
         /\ Cardinality(MayHold(t)') <= Cardinality(Requests)
<1> DEFINE v == req[r].video
           f == [q \in Requests |-> IF q \in Cleared(t)' THEN req[q].video ELSE v]
           T == {f[q] : q \in Requests}
<1>1. f \in Surjection(Requests, T)
  BY DEF Surjection
<1>2. IsFiniteSet(T) /\ Cardinality(T) <= Cardinality(Requests)
  BY <1>1, FS_Surjection, CatalogueAssumption
<1>3. UNCHANGED <<title, req>> /\ Holders(t)' \subseteq {v}
  BY DEF CheckTitle, Holders
<1>4. f[r] = v
  OBVIOUS
<1>5. MayHold(t)' \subseteq T
  <2>1. ASSUME NEW w \in Holders(t)' PROVE w \in T
    BY <1>3, <1>4
  <2>2. ASSUME NEW q \in Cleared(t)' PROVE req'[q].video \in T
    <3>1. q \in Requests /\ f[q] = req'[q].video
      BY <1>3 DEF Cleared
    <3> QED BY <3>1
  <2> QED BY <2>1, <2>2 DEF MayHold
<1>6. /\ IsFiniteSet(MayHold(t)')
      /\ Cardinality(MayHold(t)') <= Cardinality(T)
  BY <1>2, <1>5, FS_Subset
<1> QED BY <1>2, <1>6, CatalogueAssumption, FS_CardinalityType

\* Every step keeps the invariant.
LEMMA NextInv == TitleInv /\ [Next]_vars => TitleInv'
<1> SUFFICES ASSUME TitleInv, [Next]_vars PROVE TitleInv'
  OBVIOUS
<1>1. TypeOK /\ TypeOK'
  BY NextType DEF TitleInv
<1>2. ASSUME NEW t \in Titles
      PROVE  /\ IsFiniteSet(MayHold(t)')
             /\ Cardinality(MayHold(t)') <= Cardinality(Requests)
  <2>1. CASE \E r \in Requests : CheckTitle(r) /\ req[r].title = t
    BY <1>1, <2>1, CheckedIsBounded
  <2>2. CASE ~ \E r \in Requests : CheckTitle(r) /\ req[r].title = t
    <3>1. MayHold(t)' \subseteq MayHold(t)
      BY <1>1, <2>2, OnlyCheckAdds
    <3>2. IsFiniteSet(MayHold(t)) /\ Cardinality(MayHold(t)) <= Cardinality(Requests)
      BY DEF TitleInv, MayHoldBound
    <3>3. /\ IsFiniteSet(MayHold(t)')
          /\ Cardinality(MayHold(t)') <= Cardinality(MayHold(t))
      BY <3>1, <3>2, FS_Subset
    <3> QED BY <3>2, <3>3, CatalogueAssumption, FS_CardinalityType
  <2> QED BY <2>1, <2>2
<1> QED BY <1>1, <1>2 DEF TitleInv, MayHoldBound

\* The invariant bounds the videos that share a title.
LEMMA InvBound == TitleInv => TitleBound
<1> SUFFICES ASSUME TitleInv, NEW t \in Titles
             PROVE  Cardinality(Holders(t)) <= Cardinality(Requests)
  BY DEF TitleBound
<1>1. IsFiniteSet(MayHold(t)) /\ Cardinality(MayHold(t)) <= Cardinality(Requests)
  BY DEF TitleInv, MayHoldBound
<1>2. /\ IsFiniteSet(Holders(t))
      /\ Cardinality(Holders(t)) <= Cardinality(MayHold(t))
  BY <1>1, FS_Subset DEF MayHold
<1> QED BY <1>1, <1>2, CatalogueAssumption, FS_CardinalityType

\* The inductive invariant holds in every reachable state.
LEMMA AlwaysTitleInv == Spec => []TitleInv
<1> QED BY InitInv, NextInv, PTL DEF Spec

\* The catalogue is well typed: a request that is past its checks holds a video
\* and a title, or a genre and a name.
THEOREM TypeCorrect == Spec => []TypeOK
<1>1. TitleInv => TypeOK
  BY DEF TitleInv
<1> QED BY <1>1, AlwaysTitleInv, PTL

\* However the checks of titles interleave with creations, renames and updates
\* that write back what they read, no more videos share a title than requests
\* run at once.
THEOREM TitlesAreBounded == Spec => []TitleBound
<1> QED BY InvBound, AlwaysTitleInv, PTL

\* One request at a time keeps titles unique.
THEOREM OneAtATimeKeepsTitlesUnique ==
  ASSUME NEW r, Requests = {r}
  PROVE  Spec => [](\A v, w \in Videos :
                       title[v] \in Titles /\ title[w] = title[v] => w = v)
<1> DEFINE Unique == \A v, w \in Videos :
                        title[v] \in Titles /\ title[w] = title[v] => w = v
<1>1. TitleInv => Unique
  <2> SUFFICES ASSUME TitleInv, NEW v \in Videos, NEW w \in Videos,
                      title[v] \in Titles, title[w] = title[v]
               PROVE  w = v
    OBVIOUS
  <2> DEFINE t == title[v]
  <2>1. IsFiniteSet(MayHold(t)) /\ Cardinality(MayHold(t)) <= 1
    BY FS_Singleton DEF TitleInv, MayHoldBound
  <2>2. {v, w} \subseteq MayHold(t)
    BY DEF MayHold, Holders
  <2>3. IsFiniteSet({v, w}) /\ Cardinality({v, w}) <= 1
    BY <2>1, <2>2, FS_Subset, FS_CardinalityType
  <2>4. IsFiniteSet({v}) /\ Cardinality({v}) = 1
    BY FS_Singleton
  <2>5. Cardinality({v} \cup {w}) = IF w \in {v} THEN 1 ELSE 1 + 1
    BY <2>4, FS_AddElement
  <2>6. {v} \cup {w} = {v, w}
    OBVIOUS
  <2> QED BY <2>3, <2>5, <2>6
<1> QED BY <1>1, AlwaysTitleInv, PTL
-----------------------------------------------------------------------------
(* Genres.                                                                   *)

LEMMA GenreKeysNext == TypeOK /\ GenreKeysHold /\ [Next]_vars => GenreKeysHold'
<1> SUFFICES ASSUME TypeOK, GenreKeysHold, [Next]_vars PROVE GenreKeysHold'
  OBVIOUS
<1> USE DEF HasGenre, HasVideo
<1>1. ASSUME UNCHANGED <<title, genre, name>> PROVE GenreKeysHold'
  BY <1>1 DEF GenreKeysHold
<1>2. ASSUME NEW r \in Requests, NEW v \in Videos, NEW g \in Genres, NEW t \in Titles,
             StartCreate(r, v, t, g) \/ StartUpdate(r, v, t, g)
      PROVE  GenreKeysHold'
  BY <1>1, <1>2 DEF StartCreate, StartUpdate
<1>3. ASSUME NEW r \in Requests, NEW g \in Genres, NEW n \in Names,
             StartCreateGenre(r, g, n) \/ StartUpdateGenre(r, g, n)
      PROVE  GenreKeysHold'
  BY <1>1, <1>3 DEF StartCreateGenre, StartUpdateGenre
<1>4. ASSUME NEW r \in Requests, CheckGenre(r) \/ CheckTitle(r) \/ CheckName(r) \/ Refuse(r)
      PROVE  GenreKeysHold'
  BY <1>1, <1>4 DEF CheckGenre, CheckTitle, CheckName, Refuse
<1>5. ASSUME NEW r \in Requests, WriteVideo(r)
      PROVE  GenreKeysHold'
  <2> DEFINE w == req[r].video
  <2>1. /\ name' = name
        /\ HasGenre(req[r].genre)
        /\ \A v \in Videos : IF v = w THEN genre'[v] = req[r].genre
                            ELSE title'[v] = title[v] /\ genre'[v] = genre[v]
    BY <1>5 DEF WriteVideo, TypeOK
  <2> QED BY <2>1 DEF GenreKeysHold
<1>6. ASSUME NEW r \in Requests, WriteName(r)
      PROVE  GenreKeysHold'
  <2> DEFINE new == req[r].genre
  <2>1. new \in Genres /\ req[r].name \in Names
    BY <1>6 DEF WriteName, TypeOK, GenreRequest
  <2>2. /\ UNCHANGED <<title, genre>>
        /\ \A g \in Genres : name[g] # req[r].name
        /\ \A g \in Genres : name'[g] = IF g = new THEN req[r].name ELSE name[g]
    BY <1>6 DEF WriteName, TypeOK
  <2>3. \A g \in Genres : HasGenre(g) => HasGenre(g)'
    BY <2>1, <2>2
  <2>4. \A g, h \in Genres : HasGenre(g)' /\ name'[g] = name'[h] => g = h
    <3> SUFFICES ASSUME NEW g \in Genres, NEW h \in Genres, HasGenre(g)', name'[g] = name'[h]
                 PROVE  g = h
      OBVIOUS
    <3> HIDE DEF new
    <3>1. CASE g = new \/ h = new
      BY <2>1, <2>2, <3>1
    <3>2. CASE g # new /\ h # new
      BY <2>2, <3>2 DEF GenreKeysHold
    <3> QED BY <3>1, <3>2
  <2>5. \A v \in Videos : HasVideo(v)' => HasGenre(genre[v])'
    <3>1. \A v \in Videos : genre[v] \in Genres
      BY DEF TypeOK
    <3> QED BY <2>2, <2>3, <3>1 DEF GenreKeysHold
  <2> QED BY <2>2, <2>4, <2>5 DEF GenreKeysHold
<1>7. ASSUME NEW v \in Videos, DeleteVideo(v)
      PROVE  GenreKeysHold'
  <2>1. /\ UNCHANGED <<genre, name>>
        /\ \A w \in Videos : HasVideo(w)' => HasVideo(w)
    BY <1>7, CatalogueAssumption DEF DeleteVideo, TypeOK
  <2> QED BY <2>1 DEF GenreKeysHold
<1>8. ASSUME NEW g \in Genres, DeleteGenre(g)
      PROVE  GenreKeysHold'
  <2>1. /\ UNCHANGED <<title, genre>>
        /\ "gone" \notin Names
        /\ \A v \in Videos : HasVideo(v) => genre[v] # g
        /\ \A h \in Genres : name'[h] = IF h = g THEN "gone" ELSE name[h]
    BY <1>8, CatalogueAssumption DEF DeleteGenre, TypeOK
  <2>2. \A v \in Videos : genre[v] \in Genres
    BY DEF TypeOK
  <2>3. \A h \in Genres : HasGenre(h)' <=> HasGenre(h) /\ h # g
    BY <2>1
  <2>4. \A h, i \in Genres : HasGenre(h)' /\ name'[h] = name'[i] => h = i
    <3> SUFFICES ASSUME NEW h \in Genres, NEW i \in Genres, HasGenre(h)', name'[h] = name'[i]
                 PROVE  h = i
      OBVIOUS
    <3>1. HasGenre(h) /\ HasGenre(i)' /\ i # g
      BY <2>1
    <3> QED BY <2>1, <3>1 DEF GenreKeysHold
  <2>5. \A v \in Videos : HasVideo(v)' => HasGenre(genre[v])'
    BY <2>1, <2>2, <2>3 DEF GenreKeysHold
  <2> QED BY <2>1, <2>4, <2>5 DEF GenreKeysHold
<1>9. CASE UNCHANGED vars
  BY <1>1, <1>9 DEF vars
<1> QED BY <1>2, <1>3, <1>4, <1>5, <1>6, <1>7, <1>8, <1>9 DEF Next, RequestStep

\* Names of genres are unique and every video has a genre, although the checks
\* are out of date when the rows are written.
THEOREM GenreKeysAreKept == Spec => []GenreKeysHold
<1>1. Init => GenreKeysHold
  BY CatalogueAssumption DEF Init, GenreKeysHold, HasGenre, HasVideo
<1> QED BY <1>1, TypeCorrect, GenreKeysNext, PTL DEF Spec
=============================================================================
