-------------------------------- MODULE Likes --------------------------------
(***************************************************************************)
(* The like buttons of kok products and of home shopping broadcasts, with  *)
(* the reminder that goes with a liked broadcast.  A toggle looks for its  *)
(* row with FOR UPDATE and then inserts or deletes it.  InnoDB locks a row *)
(* that is found, and the gap where a row was not found: the gap may be    *)
(* locked by many, and keeps all others from inserting into it.            *)
(***************************************************************************)
EXTENDS Integers, FiniteSets

CONSTANTS
    Likeables,      \* a user with a product or a broadcast
    Broadcasts,     \* those with a broadcast
    Toggles,        \* the requests that are sent
    LikeOf          \* what each of them is about

ASSUME LikesParameters ==
    /\ Broadcasts \subseteq Likeables
    /\ LikeOf \in [Toggles -> Likeables]

VARIABLES
    likes,          \* the committed rows of KOK_LIKES and HOMESHOPPING_LIKES
    reminders,      \* the committed broadcast_start notifications
    togglePc,
    held,           \* the like row that a toggle has locked or inserted
    reminded,       \* whether the toggle has written a reminder
    lastLike,       \* the last like id that was given
    liked           \* the answer of each toggle

likesVars == <<likes, reminders, togglePc, held, reminded, lastLike, liked>>

Like == [id : Nat, of : Likeables]

Reminder == [like : Nat, read : BOOLEAN]

\* "gap": found no row; "found": locked the row; "written": has inserted one.
LikesTypeOK ==
    /\ likes \in SUBSET Like
    /\ reminders \in SUBSET Reminder
    /\ togglePc \in [Toggles -> {"unsent", "gap", "found", "written", "done"}]
    /\ held \in [Toggles -> Nat]
    /\ reminded \in [Toggles -> BOOLEAN]
    /\ lastLike \in Nat
    /\ liked \in [Toggles -> {"none", "liked", "unliked", "error"}]

LikesInit ==
    /\ likes = {}
    /\ reminders = {}
    /\ togglePc = [t \in Toggles |-> "unsent"]
    /\ held = [t \in Toggles |-> 0]
    /\ reminded = [t \in Toggles |-> FALSE]
    /\ lastLike = 0
    /\ liked = [t \in Toggles |-> "none"]

Rivals(t) == {q \in Toggles \ {t} : LikeOf[q] = LikeOf[t]}

\* Mutant: the row is looked for without FOR UPDATE.
NobodyLocks(t, states) == TRUE

NoRival(t, states) == \A q \in Rivals(t) : togglePc[q] \notin states

LikesOf(x) == {l \in likes : l.of = x}

AnswerToggle(t, reply) ==
    /\ togglePc' = [togglePc EXCEPT ![t] = "done"]
    /\ liked' = [liked EXCEPT ![t] = reply]

\* The row of another open session, inserted or locked, is waited for.
FindNone(t) ==
    /\ togglePc[t] = "unsent"
    /\ NoRival(t, {"found", "written"})
    /\ LikesOf(LikeOf[t]) = {}
    /\ togglePc' = [togglePc EXCEPT ![t] = "gap"]
    /\ UNCHANGED <<likes, reminders, held, reminded, lastLike, liked>>

\* scalar_one_or_none: two rows of one like would be an error.
FindOne(t) ==
    /\ togglePc[t] = "unsent"
    /\ NoRival(t, {"found", "written"})
    /\ \E l \in LikesOf(LikeOf[t]) :
        /\ LikesOf(LikeOf[t]) = {l}
        /\ held' = [held EXCEPT ![t] = l.id]
    /\ togglePc' = [togglePc EXCEPT ![t] = "found"]
    /\ UNCHANGED <<likes, reminders, reminded, lastLike, liked>>

(***************************************************************************)
(* The insert waits for the gap.  For a broadcast a reminder is written    *)
(* too; a broadcast without a start time has none, and a failure to write  *)
(* it is only logged.                                                      *)
(***************************************************************************)
InsertLike(t) ==
    /\ togglePc[t] = "gap"
    /\ NoRival(t, {"gap"})
    /\ togglePc' = [togglePc EXCEPT ![t] = "written"]
    /\ lastLike' = lastLike + 1
    /\ held' = [held EXCEPT ![t] = lastLike + 1]
    /\ \E written \in (IF LikeOf[t] \in Broadcasts THEN BOOLEAN ELSE {FALSE}) :
        reminded' = [reminded EXCEPT ![t] = written]
    /\ UNCHANGED <<likes, reminders, liked>>

\* The commit went through, and the client may miss the reply.
AnswerCommitted(t, reply) == AnswerToggle(t, reply) \/ AnswerToggle(t, "error")

CommitLike(t) ==
    /\ togglePc[t] = "written"
    /\ likes' = likes \cup {[id |-> held[t], of |-> LikeOf[t]]}
    /\ reminders' =
         reminders \cup (IF reminded[t] THEN {[like |-> held[t], read |-> FALSE]} ELSE {})
    /\ AnswerCommitted(t, "liked")
    /\ UNCHANGED <<held, reminded, lastLike>>

\* Mutant: the failed deletion of a reminder leaves it without its like.
UnlikeOnly(t) ==
    /\ togglePc[t] = "found"
    /\ likes' = {l \in likes : l.id # held[t]}
    /\ AnswerToggle(t, "unliked")
    /\ UNCHANGED <<reminders, held, reminded, lastLike>>

\* If the deletion of the reminder fails, the foreign key still cascades.
CommitUnlike(t) ==
    /\ togglePc[t] = "found"
    /\ likes' = {l \in likes : l.id # held[t]}
    /\ reminders' = {n \in reminders : n.like # held[t]}
    /\ AnswerCommitted(t, "unliked")
    /\ UNCHANGED <<held, reminded, lastLike>>

\* Two that hold one gap wait for each other: the server ends one of them.
Deadlocked(t) ==
    /\ togglePc[t] = "gap"
    /\ ~ NoRival(t, {"gap"})
    /\ AnswerToggle(t, "error")
    /\ UNCHANGED <<likes, reminders, held, reminded, lastLike>>

FailToggle(t) ==
    /\ togglePc[t] \in {"unsent", "gap", "found", "written"}
    /\ AnswerToggle(t, "error")
    /\ UNCHANGED <<likes, reminders, held, reminded, lastLike>>

MarkRead ==
    /\ \E n \in reminders : reminders' = (reminders \ {n}) \cup {[n EXCEPT !.read = TRUE]}
    /\ UNCHANGED <<likes, togglePc, held, reminded, lastLike, liked>>

LikesNext ==
    \/ \E t \in Toggles :
        \/ FindNone(t) \/ FindOne(t) \/ InsertLike(t) \/ CommitLike(t)
        \/ CommitUnlike(t) \/ Deadlocked(t) \/ FailToggle(t)
    \/ MarkRead

LikesSpec == LikesInit /\ [][LikesNext]_likesVars
-----------------------------------------------------------------------------
TurnedOn(x) == LikesOf(x) = {} /\ LikesOf(x)' # {}

TurnedOff(x) == LikesOf(x) # {} /\ LikesOf(x)' = {}

Told(x) == {t \in Toggles : LikeOf[t] = x /\ liked'[t] # liked[t]}

\* The like of x changes as its toggles say, and at the end of one of them only.
TurnsAsTold(x) ==
    /\ \A t \in Told(x) :
         /\ liked'[t] = "liked" => TurnedOn(x)
         /\ liked'[t] = "unliked" => TurnedOff(x)
    /\ LikesOf(x)' = LikesOf(x) \/ \E t \in Told(x) :
         \/ TurnedOn(x) /\ togglePc[t] = "written" /\ liked'[t] # "unliked"
         \/ TurnedOff(x) /\ togglePc[t] = "found" /\ liked'[t] # "liked"

(***************************************************************************)
(* kok/crud/likes_crud.py:12, homeshopping/crud/likes_crud.py:15: a toggle *)
(* that is answered with success has turned the like over, from what it    *)
(* was to what the answer says.  The like changes in no other step than at *)
(* the end of one toggle of it, the way that toggle has found it; an error *)
(* may be told then, when the reply of the commit was lost.  And there is  *)
(* never a second row for a toggle to stumble over, though no unique key   *)
(* forbids it.                                                             *)
(***************************************************************************)
TogglesTurnLikesOver ==
    [][\A x \in Likeables : Cardinality(LikesOf(x)') <= 1 /\ TurnsAsTold(x)]_likesVars

(***************************************************************************)
(* notification_crud.py:66: a reminder goes with its like, though a failure*)
(* to delete it is ignored; and a like has one reminder at most, however   *)
(* often the broadcast was liked before.                                   *)
(***************************************************************************)
RemindersFollowLikes ==
    \A n \in reminders :
        /\ \E l \in likes : l.id = n.like /\ l.of \in Broadcasts
        /\ \A other \in reminders : other.like = n.like => other = n
=============================================================================
