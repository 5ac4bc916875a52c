------------------------------ MODULE Artifacts ------------------------------
(***************************************************************************)
(* The publication of a file by apps/studio/src/artifacts.rs: prepared     *)
(* bytes, an intent on record, a staged file put in place only where none  *)
(* is, and the bytes read back.  Conversations share a workspace; the user *)
(* and commands write there too; the process may die between two steps and *)
(* settles what it was doing when it starts again.                         *)
(***************************************************************************)
EXTENDS Naturals, FiniteSets

CONSTANTS
  Conversations,
  Bytes,             \* contents of the one path
  MaxPublications, MaxForeign,   \* bounds
  None

VARIABLES
  contents,     \* bytes at the destination, or None
  intent,       \* conversation -> the bytes on record in its pending intent, or None
  doing,        \* conversation -> the step it is at, or None
  published,    \* publications begun
  foreign,      \* writes of others
  owed,         \* ghost: conversations that put bytes in place and did not say so
  replaced      \* ghost: a publication took the place of other bytes

artifactVars == <<contents, intent, doing, published, foreign, owed, replaced>>

ArtifactInit ==
  /\ contents = None /\ published = 0 /\ foreign = 0 /\ owed = {} /\ replaced = FALSE
  /\ intent = [c \in Conversations |-> None] /\ doing = [c \in Conversations |-> None]

-----------------------------------------------------------------------------
At(c, step) == doing[c] = step
GoTo(c, step) == doing' = [doing EXCEPT ![c] = step]
Intends(c, b) == intent' = [intent EXCEPT ![c] = b]

(* prepare, and the intent saved before the tool runs.                     *)
PrepareArtifact(c, b) ==
  /\ doing[c] = None /\ intent[c] = None
  /\ published < MaxPublications /\ published' = published + 1
  /\ Intends(c, b) /\ GoTo(c, "look")
  /\ UNCHANGED <<contents, foreign, owed, replaced>>

(* publish: bytes that differ refuse it, the same bytes need no write.     *)
LookFirst(c) ==
  /\ At(c, "look")
  /\ \/ contents = None /\ GoTo(c, "persist") /\ UNCHANGED intent
     \/ contents = intent[c] /\ GoTo(c, "read back") /\ UNCHANGED intent
     \/ contents \notin {None, intent[c]} /\ GoTo(c, None) /\ Intends(c, None)
  /\ UNCHANGED <<contents, published, foreign, owed, replaced>>

(* A stop before publication, and every error on the way to it.            *)
NotPublished(c) ==
  /\ doing[c] \in {"look", "persist"} /\ GoTo(c, None) /\ Intends(c, None)
  /\ UNCHANGED <<contents, published, foreign, owed, replaced>>

Vacant_Any == TRUE
(* persist_noclobber.                                                      *)
Vacant == contents = None
Persist(c) ==
  /\ At(c, "persist") /\ Vacant
  /\ contents' = intent[c] /\ GoTo(c, "read back")
  /\ owed' = owed \cup {c} /\ replaced' = (replaced \/ contents \notin {None, intent[c]})
  /\ UNCHANGED <<intent, published, foreign>>
Occupied(c) ==
  /\ At(c, "persist") /\ ~Vacant
  /\ IF contents = intent[c] THEN GoTo(c, "read back") /\ UNCHANGED intent
                             ELSE GoTo(c, None) /\ Intends(c, None)
  /\ UNCHANGED <<contents, published, foreign, owed, replaced>>
(* The file system says neither: the bytes may be in place.                *)
Unclear(c) ==
  /\ At(c, "persist") /\ Vacant /\ GoTo(c, None)
  /\ \/ contents' = intent[c] /\ owed' = owed \cup {c}
     \/ UNCHANGED <<contents, owed>>
  /\ UNCHANGED <<intent, published, foreign, replaced>>

Receipt(c) == Intends(c, None) /\ owed' = owed \ {c}

(* Once published, a failed read back is uncertain.                        *)
Unconfirmed(c) == UNCHANGED <<intent, owed>>

ReadBack(c) ==
  /\ At(c, "read back") /\ GoTo(c, None)
  /\ IF contents = intent[c] THEN Receipt(c) \/ Unconfirmed(c) ELSE Unconfirmed(c)
  /\ UNCHANGED <<contents, published, foreign, replaced>>

-----------------------------------------------------------------------------
(* Others write or remove the file.                                        *)
ForeignWrite(b) ==
  /\ foreign < MaxForeign /\ foreign' = foreign + 1 /\ contents' = b
  /\ UNCHANGED <<intent, doing, published, owed, replaced>>

ArtifactCrash ==
  /\ \E c \in Conversations : doing[c] # None
  /\ doing' = [c \in Conversations |-> None]
  /\ UNCHANGED <<contents, intent, published, foreign, owed, replaced>>

(* reconcile: the recorded bytes are there.                                *)
ReconcileArtifact(c) ==
  /\ \A d \in Conversations : doing[d] = None
  /\ intent[c] # None /\ contents = intent[c] /\ Receipt(c)
  /\ UNCHANGED <<contents, doing, published, foreign, replaced>>

ArtifactNext ==
  \/ \E c \in Conversations :
       \/ \E b \in Bytes : PrepareArtifact(c, b)
       \/ LookFirst(c) \/ NotPublished(c) \/ Persist(c) \/ Occupied(c) \/ Unclear(c)
       \/ ReadBack(c) \/ ReconcileArtifact(c)
  \/ \E b \in Bytes \cup {None} : ForeignWrite(b)
  \/ ArtifactCrash

ArtifactSpec == ArtifactInit /\ [][ArtifactNext]_artifactVars

-----------------------------------------------------------------------------
(* A publication never takes the place of other bytes, whoever wrote them  *)
(* between its look and its write ("no replacement performed"), and a      *)
(* conversation that put bytes in place has said so or has its intent on   *)
(* record, whatever failed since ("never a retry invitation").             *)
Published == ~replaced /\ \A c \in owed : intent[c] # None
=============================================================================
