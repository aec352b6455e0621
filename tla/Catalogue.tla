------------------------------ MODULE Catalogue -------------------------------
(* Titles and genres of the catalogue: createVideo, updateVideo, deleteVideo *)
(* of src/videos/videos.service.ts and the operations of                     *)
(* src/genres/genres.service.ts, by requests that run at the same time.  The *)
(* checks are reads; the name of a genre has a unique key and the genre of a *)
(* video a foreign key, the title of a video has none.  Each awaited call is *)
(* an action.  Titles that differ in case only are one title here.           *)
(*                                                                           *)
(* The files of a video, its processing and its downloads, which may stop    *)
(* its deletion, are in VideoPipeline.                                       *)
EXTENDS Naturals, FiniteSets

CONSTANTS
    Videos,    \* ids of videos, none of them used twice
    Titles,
    Genres,    \* ids of genres
    Names,     \* names of genres
    Requests   \* slots for requests in flight

ASSUME CatalogueAssumption ==
    /\ IsFiniteSet(Requests) /\ Requests # {}
    /\ {"unused", "gone"} \cap (Titles \cup Names) = {}

VARIABLES
    title,  \* of each video; "unused" and "gone" before and after its row
    genre,  \* of each video
    name,   \* of each genre; "unused" or "gone" without a row
    pc,     \* the next call of each request
    req     \* what it will write: [video, title, genre, name], and whether the
            \* title is still to be checked

requests == <<pc, req>>
vars == <<title, genre, name, requests>>

HasGenre(g) == name[g] \in Names
HasVideo(v) == title[v] \in Titles

NoRequest == [check |-> FALSE]

Init == /\ title = [v \in Videos |-> "unused"]
        /\ genre \in [Videos -> Genres]
        /\ name = [g \in Genres |-> "unused"]
        /\ pc = [r \in Requests |-> "idle"]
        /\ req = [r \in Requests |-> NoRequest]

Goto(r, p) == pc' = [pc EXCEPT ![r] = p]
Begin(r, p, q) == pc[r] = "idle" /\ Goto(r, p) /\ req' = [req EXCEPT ![r] = q]
Answer(r) == Goto(r, "idle") /\ req' = [req EXCEPT ![r] = NoRequest]

\* A check refuses the request, or a call fails.
Refuse(r) == /\ pc[r] # "idle"
             /\ Answer(r)
             /\ UNCHANGED <<title, genre, name>>

-----------------------------------------------------------------------------
(* Videos.                                                                   *)

\* createVideo; the id is made when the row is.
StartCreate(r, v, t, g) ==
    /\ title[v] = "unused"
    /\ \A q \in Requests : pc[q] \in {"genre", "title", "write"} => req[q].video # v
    /\ Begin(r, "genre", [video |-> v, title |-> t, genre |-> g, check |-> TRUE])
    /\ UNCHANGED <<title, genre, name>>

\* updateVideo finds the row and fills in from it what the request leaves out;
\* a genre or a title that is the same as before is not checked.
StartUpdate(r, v, t, g) ==
    /\ HasVideo(v)
    /\ LET check == t # title[v]
       IN  Begin(r, IF g # genre[v] THEN "genre" ELSE IF check THEN "title" ELSE "write",
                 [video |-> v, title |-> t, genre |-> g, check |-> check])
    /\ UNCHANGED <<title, genre, name>>

\* assertGenreExists
CheckGenre(r) ==
    /\ pc[r] = "genre" /\ HasGenre(req[r].genre)
    /\ Goto(r, IF req[r].check THEN "title" ELSE "write")
    /\ UNCHANGED <<title, genre, name, req>>

\* Mutant: only videos that were created are compared, not those renamed.
CheckTitleOfCreated(r) ==
    /\ pc[r] = "title"
    /\ HasVideo(req[r].video) \/ \A v \in Videos : title[v] # req[r].title
    /\ Goto(r, "write")
    /\ UNCHANGED <<title, genre, name, req>>

\* assertVideoTitleIsUnique
CheckTitle(r) ==
    /\ pc[r] = "title"
    /\ \A v \in Videos \ {req[r].video} : title[v] # req[r].title
    /\ Goto(r, "write")
    /\ UNCHANGED <<title, genre, name, req>>

\* Mutant: the schema has no relation from Video to Genre.
WriteVideoUnrelated(r) ==
    LET v == req[r].video IN
    /\ pc[r] = "write" /\ title[v] # "gone"
    /\ title' = [title EXCEPT ![v] = req[r].title]
    /\ genre' = [genre EXCEPT ![v] = req[r].genre]
    /\ Answer(r)
    /\ UNCHANGED name

\* The row is inserted, or updated if it is still there; in either case the
\* genre must be.
WriteVideo(r) ==
    LET v == req[r].video IN
    /\ pc[r] = "write" /\ title[v] # "gone" /\ HasGenre(req[r].genre)
    /\ title' = [title EXCEPT ![v] = req[r].title]
    /\ genre' = [genre EXCEPT ![v] = req[r].genre]
    /\ Answer(r)
    /\ UNCHANGED name

\* Mutant: a deleted video keeps its row, under no title at all.
DeleteVideoSoftly(v) == /\ HasVideo(v)
                        /\ title' = [title EXCEPT ![v] = "deleted"]
                        /\ UNCHANGED <<genre, name, requests>>

\* deleteVideo
DeleteVideo(v) == /\ HasVideo(v)
                  /\ title' = [title EXCEPT ![v] = "gone"]
                  /\ UNCHANGED <<genre, name, requests>>

-----------------------------------------------------------------------------
(* Genres.                                                                   *)

StartCreateGenre(r, g, n) ==
    /\ name[g] = "unused"
    /\ \A q \in Requests : pc[q] \in {"name", "writeName"} => req[q].genre # g
    /\ Begin(r, "name", [genre |-> g, name |-> n, check |-> FALSE])
    /\ UNCHANGED <<title, genre, name>>

\* updateGenre answers at once when the name is the same.
StartUpdateGenre(r, g, n) ==
    /\ HasGenre(g) /\ n # name[g]
    /\ Begin(r, "name", [genre |-> g, name |-> n, check |-> FALSE])
    /\ UNCHANGED <<title, genre, name>>

\* validateGenreNameUniqueness
CheckName(r) ==
    /\ pc[r] = "name" /\ \A g \in Genres : name[g] # req[r].name
    /\ Goto(r, "writeName")
    /\ UNCHANGED <<title, genre, name, req>>

\* The insert or update, under the unique key.
WriteName(r) ==
    /\ pc[r] = "writeName" /\ name[req[r].genre] # "gone"
    /\ \A g \in Genres : name[g] # req[r].name
    /\ name' = [name EXCEPT ![req[r].genre] = req[r].name]
    /\ Answer(r)
    /\ UNCHANGED <<title, genre>>

\* deleteGenre, which the videos of the genre forbid
DeleteGenre(g) ==
    /\ HasGenre(g)
    /\ \A v \in Videos : HasVideo(v) => genre[v] # g
    /\ name' = [name EXCEPT ![g] = "gone"]
    /\ UNCHANGED <<title, genre, requests>>

RequestStep(r) ==
    \/ \E v \in Videos, g \in Genres, t \in Titles :
          StartCreate(r, v, t, g) \/ StartUpdate(r, v, t, g)
    \/ \E g \in Genres, n \in Names :
          StartCreateGenre(r, g, n) \/ StartUpdateGenre(r, g, n)
    \/ CheckGenre(r) \/ CheckTitle(r) \/ WriteVideo(r)
    \/ CheckName(r) \/ WriteName(r) \/ Refuse(r)

Next == \/ \E r \in Requests : RequestStep(r)
        \/ \E v \in Videos : DeleteVideo(v)
        \/ \E g \in Genres : DeleteGenre(g)

Spec == Init /\ [][Next]_vars

-----------------------------------------------------------------------------
(* Properties.                                                               *)

VideoRequest == [video : Videos, title : Titles, genre : Genres, check : BOOLEAN]
GenreRequest == [genre : Genres, name : Names, check : {FALSE}]

\* Every variable has its type.
TypeOK ==
    /\ title \in [Videos -> Titles \cup {"unused", "gone"}]
    /\ genre \in [Videos -> Genres]
    /\ name \in [Genres -> Names \cup {"unused", "gone"}]
    /\ pc \in [Requests -> {"idle", "genre", "title", "write", "name", "writeName"}]
    /\ req \in [Requests -> VideoRequest \cup GenreRequest \cup {NoRequest}]
    /\ \A r \in Requests :
          /\ pc[r] \in {"genre", "title", "write"} => req[r] \in VideoRequest
          /\ pc[r] \in {"name", "writeName"} => req[r] \in GenreRequest

Holders(t) == {v \in Videos : title[v] = t}

\* Requests that will write a title without a (further) look at the others:
\* because it was checked, or because it was the title of the video when the
\* request found it.
Cleared(t) == {r \in Requests : /\ \/ pc[r] = "write"
                                   \/ pc[r] = "genre" /\ ~req[r].check
                                /\ req[r].title = t}

MayHold(t) == Holders(t) \cup {req[r].video : r \in Cleared(t)}

\* "Ya existe un video con ese nombre": no more videos share a title than
\* requests run at once, over any number of creations, renames and updates that
\* write back a title they read before it was changed; with one request at a
\* time titles are unique.
TitleBound == \A t \in Titles : Cardinality(Holders(t)) <= Cardinality(Requests)

\* Why: those that hold a title and those that are about to.
MayHoldBound == \A t \in Titles : Cardinality(MayHold(t)) <= Cardinality(Requests)

\* The checks of genres are out of date when the row is written; the keys of
\* the database make up for it: names are unique, and no video is of a genre
\* that was deleted meanwhile.
GenreKeysHold ==
    /\ \A g, h \in Genres : HasGenre(g) /\ name[g] = name[h] => g = h
    /\ \A v \in Videos : HasVideo(v) => HasGenre(genre[v])
=============================================================================
