------------------------------- MODULE UserProofs -------------------------------
(***************************************************************************)
(* Proofs about what the service keeps of its users: that every answered   *)
(* toggle turns its like over and the reminders go with the likes, that    *)
(* signups are answered truly and a token that was logged out stays out,   *)
(* what the user log holds, and what the search histories keep of which    *)
(* user -- for any numbers of users, requests and rows.                    *)
(***************************************************************************)
EXTENDS Likes, Accounts, UserLog, SearchHistory, FiniteSetTheorems, TLAPS
-----------------------------------------------------------------------------
\* Likes and reminders.

LEMMA InitLikesTypes == LikesInit => LikesTypeOK
  BY DEF LikesInit, LikesTypeOK

\* Only the like of a broadcast writes a reminder.
LEMMA InsertReminds ==
    ASSUME NEW t \in Toggles, InsertLike(t)
    PROVE  \E written \in BOOLEAN :
               /\ reminded' = [reminded EXCEPT ![t] = written]
               /\ written => LikeOf[t] \in Broadcasts
<1>1. PICK written \in (IF LikeOf[t] \in Broadcasts THEN BOOLEAN ELSE {FALSE}) :
        reminded' = [reminded EXCEPT ![t] = written]
  BY DEF InsertLike
<1>2. written \in BOOLEAN /\ (written => LikeOf[t] \in Broadcasts)
  OBVIOUS
<1> QED BY <1>1, <1>2

LEMMA NextLikesTypes == LikesTypeOK /\ [LikesNext]_likesVars => LikesTypeOK'
<1> SUFFICES ASSUME LikesTypeOK, [LikesNext]_likesVars PROVE LikesTypeOK'
  OBVIOUS
<1> USE LikesParameters
<1>1. ASSUME NEW t \in Toggles, FindNone(t) \/ FindOne(t) PROVE LikesTypeOK'
  BY <1>1 DEF FindNone, FindOne, LikesTypeOK, LikesOf, Like
<1>2. ASSUME NEW t \in Toggles, InsertLike(t) PROVE LikesTypeOK'
  <2>1. PICK written \in BOOLEAN : reminded' = [reminded EXCEPT ![t] = written]
    BY <1>2, InsertReminds
  <2> QED BY <1>2, <2>1 DEF InsertLike, LikesTypeOK
<1>3. ASSUME NEW t \in Toggles, CommitLike(t) PROVE LikesTypeOK'
  <2>1. likes' \in SUBSET Like
    BY <1>3 DEF CommitLike, LikesTypeOK, Like
  <2>2. reminders' \in SUBSET Reminder
    <3>1. [like |-> held[t], read |-> FALSE] \in Reminder
      BY DEF LikesTypeOK, Reminder
    <3> QED BY <1>3, <3>1 DEF CommitLike, LikesTypeOK
  <2> QED BY <1>3, <2>1, <2>2 DEF CommitLike, AnswerCommitted, AnswerToggle, LikesTypeOK
<1>4. ASSUME NEW t \in Toggles, CommitUnlike(t) \/ Deadlocked(t) \/ FailToggle(t)
      PROVE  LikesTypeOK'
  BY <1>4 DEF CommitUnlike, Deadlocked, FailToggle, AnswerCommitted, AnswerToggle,
              LikesTypeOK
<1>5. CASE MarkRead
  BY <1>5 DEF MarkRead, LikesTypeOK, Reminder
<1>6. CASE UNCHANGED likesVars
  BY <1>6 DEF likesVars, LikesTypeOK
<1> QED BY <1>1, <1>2, <1>3, <1>4, <1>5, <1>6 DEF LikesNext

THEOREM LikesTypes == LikesSpec => []LikesTypeOK
BY InitLikesTypes, NextLikesTypes, PTL DEF LikesSpec
-----------------------------------------------------------------------------
(* One like *)

\* What a toggle's lock tells of the rows and of its rivals.
ToggleInOrder(t) ==
    /\ togglePc[t] # "done" => liked[t] = "none"
    /\ togglePc[t] \in {"gap", "written"} => LikesOf(LikeOf[t]) = {}
    /\ togglePc[t] = "found" =>
         \E l \in likes : l.id = held[t] /\ LikesOf(LikeOf[t]) = {l}
    /\ togglePc[t] \in {"found", "written"} => NoRival(t, {"gap", "found", "written"})
    /\ togglePc[t] = "written" =>
         /\ held[t] <= lastLike
         /\ \A l \in likes : l.id # held[t]
         /\ \A q \in Toggles \ {t} : togglePc[q] = "written" => held[q] # held[t]
         /\ reminded[t] => LikeOf[t] \in Broadcasts

LikesInOrder ==
    /\ \A l, m \in likes : l.id = m.id \/ l.of = m.of => l = m
    /\ \A l \in likes : l.id <= lastLike
    /\ \A t \in Toggles : ToggleInOrder(t)
    /\ RemindersFollowLikes

LikesInv == LikesTypeOK /\ LikesInOrder

LEMMA InitLikesInv == LikesInit => LikesInv
<1> SUFFICES ASSUME LikesInit PROVE LikesInOrder
  BY InitLikesTypes DEF LikesInv
<1> QED BY DEF LikesInit, LikesInOrder, ToggleInOrder, RemindersFollowLikes

\* A rival's rival is the toggle itself.
LEMMA RivalsAreMutual ==
    ASSUME NEW t \in Toggles, NEW q \in Toggles PROVE q \in Rivals(t) <=> t \in Rivals(q)
  BY DEF Rivals

\* A toggle that ends without having changed anything.
LEMMA GivingUpKeeps ==
    ASSUME LikesInv, LikesTypeOK', NEW t \in Toggles, NEW reply, AnswerToggle(t, reply),
           UNCHANGED <<likes, reminders, held, reminded, lastLike>>
    PROVE  LikesInv'
<1>1. /\ togglePc'[t] = "done"
      /\ \A q \in Toggles \ {t} : togglePc'[q] = togglePc[q] /\ liked'[q] = liked[q]
  BY DEF AnswerToggle, LikesInv, LikesTypeOK
<1>2. ASSUME NEW q \in Toggles PROVE ToggleInOrder(q)'
  <2>1. CASE q = t
    BY <1>1, <2>1 DEF ToggleInOrder
  <2>2. CASE q # t
    BY <1>1, <2>2 DEF LikesInv, LikesInOrder, ToggleInOrder, LikesOf, NoRival, Rivals
  <2> QED BY <2>1, <2>2
<1> QED BY <1>2 DEF LikesInv, LikesInOrder, RemindersFollowLikes

LEMMA FindKeeps ==
    ASSUME LikesInv, LikesTypeOK', NEW t \in Toggles, FindNone(t) \/ FindOne(t)
    PROVE  LikesInv'
<1>1. /\ UNCHANGED <<likes, reminders, reminded, lastLike, liked>>
      /\ togglePc[t] = "unsent" /\ NoRival(t, {"found", "written"})
      /\ \A q \in Toggles \ {t} : togglePc'[q] = togglePc[q] /\ held'[q] = held[q]
      /\ \/ togglePc'[t] = "gap" /\ LikesOf(LikeOf[t]) = {}
         \/ /\ togglePc'[t] = "found"
            /\ \E l \in likes : LikesOf(LikeOf[t]) = {l} /\ held'[t] = l.id
  BY DEF FindNone, FindOne, LikesOf, LikesInv, LikesTypeOK
<1>2. ASSUME NEW q \in Rivals(t), togglePc[q] = "gap" PROVE LikesOf(LikeOf[t]) = {}
  BY <1>2 DEF Rivals, LikesInv, LikesInOrder, ToggleInOrder
<1>3. ToggleInOrder(t)'
  BY <1>1, <1>2 DEF LikesInv, LikesInOrder, ToggleInOrder, LikesOf, NoRival, Rivals
<1>4. ASSUME NEW q \in Toggles \ {t} PROVE ToggleInOrder(q)'
  <2>1. togglePc[q] \in {"found", "written"} => q \notin Rivals(t)
    BY <1>1 DEF NoRival
  <2>2. togglePc[q] \in {"found", "written"} => t \notin Rivals(q)
    BY <2>1, RivalsAreMutual
  <2> QED BY <1>1, <2>2 DEF LikesInv, LikesInOrder, ToggleInOrder, LikesOf, NoRival, Rivals
<1> QED BY <1>1, <1>3, <1>4 DEF LikesInv, LikesInOrder, RemindersFollowLikes

LEMMA InsertLikeKeeps ==
    ASSUME LikesInv, LikesTypeOK', NEW t \in Toggles, InsertLike(t) PROVE LikesInv'
<1> PICK written \in BOOLEAN :
      /\ reminded' = [reminded EXCEPT ![t] = written]
      /\ written => LikeOf[t] \in Broadcasts
  BY InsertReminds
<1>1. /\ UNCHANGED <<likes, reminders, liked>> /\ lastLike' = lastLike + 1
      /\ togglePc[t] = "gap" /\ NoRival(t, {"gap"})
      /\ togglePc'[t] = "written" /\ held'[t] = lastLike + 1
      /\ \A q \in Toggles \ {t} :
           /\ togglePc'[q] = togglePc[q] /\ held'[q] = held[q]
           /\ reminded'[q] = reminded[q]
      /\ reminded'[t] => LikeOf[t] \in Broadcasts
  BY DEF InsertLike, LikesInv, LikesTypeOK
<1>2. /\ lastLike \in Nat /\ \A l \in likes : l.id \in Nat /\ l.id <= lastLike
      /\ \A q \in Toggles : held[q] \in Nat /\ (togglePc[q] = "written" => held[q] <= lastLike)
  BY DEF LikesInv, LikesInOrder, LikesTypeOK, Like, ToggleInOrder
<1>3. NoRival(t, {"gap", "found", "written"})
  <2>1. ASSUME NEW q \in Rivals(t), togglePc[q] \in {"found", "written"} PROVE FALSE
    BY <1>1, <2>1 DEF LikesInv, LikesInOrder, ToggleInOrder, NoRival, Rivals
  <2> QED BY <1>1, <2>1 DEF NoRival
<1>4. ToggleInOrder(t)'
  <2>1. LikesOf(LikeOf[t])' = {} /\ liked'[t] = "none"
    BY <1>1 DEF LikesInv, LikesInOrder, ToggleInOrder, LikesOf
  <2>2. NoRival(t, {"gap", "found", "written"})'
    BY <1>1, <1>3 DEF NoRival, Rivals
  <2>3. held'[t] <= lastLike' /\ \A l \in likes' : l.id # held'[t]
    BY <1>1, <1>2
  <2>4. \A q \in Toggles \ {t} : togglePc'[q] = "written" => held'[q] # held'[t]
    BY <1>1, <1>2
  <2> QED BY <1>1, <2>1, <2>2, <2>3, <2>4 DEF ToggleInOrder
<1>5. ASSUME NEW q \in Toggles \ {t} PROVE ToggleInOrder(q)'
  <2>1. togglePc[q] \in {"found", "written"} => t \notin Rivals(q)
    BY <1>3, RivalsAreMutual DEF NoRival
  <2>2. held[q] <= lastLike => held[q] <= lastLike' /\ held[q] # held'[t]
    BY <1>1, <1>2
  <2> QED BY <1>1, <2>1, <2>2
          DEF LikesInv, LikesInOrder, ToggleInOrder, LikesOf, NoRival, Rivals
<1>6. \A l \in likes' : l.id <= lastLike'
  BY <1>1, <1>2
<1> QED BY <1>1, <1>4, <1>5, <1>6 DEF LikesInv, LikesInOrder, RemindersFollowLikes

\* What a commit of an insert does to the likes.
LEMMA CommitLikeAdds ==
    ASSUME LikesInv, NEW t \in Toggles, CommitLike(t)
    PROVE  LET new == [id |-> held[t], of |-> LikeOf[t]]
           IN  /\ LikesOf(LikeOf[t]) = {} /\ LikesOf(LikeOf[t])' = {new}
               /\ \A x \in Likeables \ {LikeOf[t]} : LikesOf(x)' = LikesOf(x)
<1> DEFINE new == [id |-> held[t], of |-> LikeOf[t]]
<1>1. likes' = likes \cup {new} /\ new.of = LikeOf[t]
  BY DEF CommitLike
<1>2. LikesOf(LikeOf[t]) = {}
  BY DEF CommitLike, LikesInv, LikesInOrder, ToggleInOrder
<1> HIDE DEF new
<1>3. LikesOf(LikeOf[t])' = {new}
  BY <1>1, <1>2 DEF LikesOf
<1>4. \A x \in Likeables \ {LikeOf[t]} : LikesOf(x)' = LikesOf(x)
  BY <1>1 DEF LikesOf
<1> QED BY <1>2, <1>3, <1>4 DEF new

\* What a commit of a deletion does to the likes.
LEMMA CommitUnlikeRemoves ==
    ASSUME LikesInv, NEW t \in Toggles, CommitUnlike(t)
    PROVE  /\ LikesOf(LikeOf[t]) # {} /\ LikesOf(LikeOf[t])' = {}
           /\ \A x \in Likeables \ {LikeOf[t]} : LikesOf(x)' = LikesOf(x)
<1>1. PICK l \in likes : l.id = held[t] /\ LikesOf(LikeOf[t]) = {l}
  BY DEF CommitUnlike, LikesInv, LikesInOrder, ToggleInOrder
<1>2. likes' = {m \in likes : m.id # held[t]}
  BY DEF CommitUnlike
<1>3. \A m \in likes : m.id = held[t] => m = l
  BY <1>1 DEF LikesInv, LikesInOrder
<1>4. l.of = LikeOf[t]
  BY <1>1 DEF LikesOf
<1>5. likes' = likes \ {l}
  BY <1>1, <1>2, <1>3
<1> QED BY <1>1, <1>4, <1>5 DEF LikesOf

\* A commit ends its toggle; the others' likes are not touched.
LEMMA CommitKeepsOthers ==
    ASSUME LikesInv, NEW t \in Toggles, NEW reply, AnswerToggle(t, reply),
           UNCHANGED <<held, reminded, lastLike>>,
           NoRival(t, {"gap", "found", "written"}),
           \A x \in Likeables \ {LikeOf[t]} : LikesOf(x)' = LikesOf(x),
           \A l \in likes' : l \in likes \/ (l.id = held[t] /\ togglePc[t] = "written"),
           NEW q \in Toggles
    PROVE  ToggleInOrder(q)'
<1>1. /\ togglePc'[t] = "done"
      /\ \A r \in Toggles \ {t} : togglePc'[r] = togglePc[r] /\ liked'[r] = liked[r]
  BY DEF AnswerToggle, LikesInv, LikesTypeOK
<1>2. CASE q = t
  BY <1>1, <1>2 DEF ToggleInOrder
<1>3. CASE q # t /\ togglePc[q] \in {"gap", "found", "written"}
  <2>1. LikeOf[q] \in Likeables \ {LikeOf[t]}
    BY <1>3, LikesParameters DEF NoRival, Rivals
  <2>2. LikesOf(LikeOf[q])' = LikesOf(LikeOf[q])
    BY <2>1
  <2>3. ToggleInOrder(q)
    BY DEF LikesInv, LikesInOrder
  <2>4. NoRival(q, {"gap", "found", "written"}) => NoRival(q, {"gap", "found", "written"})'
    BY <1>1, <1>3 DEF NoRival, Rivals
  <2>5. togglePc[q] = "found" => \E l \in likes' : l.id = held[q] /\ LikesOf(LikeOf[q])' = {l}
    BY <2>2, <2>3 DEF ToggleInOrder, LikesOf
  <2>6. togglePc[q] = "written" => \A l \in likes' : l.id # held[q]
    BY <1>3, <2>3 DEF ToggleInOrder
  <2> QED BY <1>1, <1>3, <2>2, <2>3, <2>4, <2>5, <2>6 DEF ToggleInOrder
<1>4. CASE q # t /\ togglePc[q] \in {"unsent", "done"}
  BY <1>1, <1>4 DEF ToggleInOrder, LikesInv, LikesInOrder
<1> QED BY <1>2, <1>3, <1>4 DEF LikesInv, LikesTypeOK

LEMMA CommitLikeKeeps ==
    ASSUME LikesInv, LikesTypeOK', NEW t \in Toggles, CommitLike(t) PROVE LikesInv'
<1> DEFINE new == [id |-> held[t], of |-> LikeOf[t]]
           note == [like |-> held[t], read |-> FALSE]
<1>1. /\ likes' = likes \cup {new} /\ new.id = held[t] /\ new.of = LikeOf[t]
      /\ reminders' = reminders \cup (IF reminded[t] THEN {note} ELSE {}) /\ note.like = held[t]
      /\ togglePc[t] = "written" /\ \E reply \in {"liked", "error"} : AnswerToggle(t, reply)
      /\ UNCHANGED <<held, reminded, lastLike>>
  BY DEF CommitLike, AnswerCommitted
<1>2. ToggleInOrder(t)
  BY DEF LikesInv, LikesInOrder
<1>3. \A x \in Likeables \ {LikeOf[t]} : LikesOf(x)' = LikesOf(x)
  BY CommitLikeAdds
<1> HIDE DEF new, note
<1>4. \A q \in Toggles : ToggleInOrder(q)'
  BY <1>1, <1>2, <1>3, CommitKeepsOthers DEF ToggleInOrder
<1>5. \A l \in likes : l.id # held[t] /\ l.of # LikeOf[t]
  BY <1>1, <1>2 DEF ToggleInOrder, LikesOf
<1>6. \A l, m \in likes' : l.id = m.id \/ l.of = m.of => l = m
  BY <1>1, <1>5 DEF LikesInv, LikesInOrder
<1>7. \A l \in likes' : l.id <= lastLike'
  BY <1>1, <1>2 DEF LikesInv, LikesInOrder, ToggleInOrder
<1>8. RemindersFollowLikes'
  <2>1. \A n \in reminders : n.like # held[t]
    BY <1>5 DEF LikesInv, LikesInOrder, RemindersFollowLikes
  <2>2. reminded[t] => LikeOf[t] \in Broadcasts
    BY <1>1, <1>2 DEF ToggleInOrder
  <2>3. reminders' = reminders \/ (reminders' = reminders \cup {note} /\ reminded[t])
    BY <1>1
  <2> QED BY <1>1, <2>1, <2>2, <2>3 DEF LikesInv, LikesInOrder, RemindersFollowLikes
<1> QED BY <1>4, <1>6, <1>7, <1>8 DEF LikesInv, LikesInOrder

LEMMA CommitUnlikeKeeps ==
    ASSUME LikesInv, LikesTypeOK', NEW t \in Toggles, CommitUnlike(t) PROVE LikesInv'
<1>1. /\ likes' = {l \in likes : l.id # held[t]}
      /\ reminders' = {n \in reminders : n.like # held[t]}
      /\ togglePc[t] = "found" /\ \E reply \in {"unliked", "error"} : AnswerToggle(t, reply)
      /\ UNCHANGED <<held, reminded, lastLike>>
  BY DEF CommitUnlike, AnswerCommitted
<1>2. NoRival(t, {"gap", "found", "written"})
  BY <1>1 DEF LikesInv, LikesInOrder, ToggleInOrder
<1>3. \A q \in Toggles : ToggleInOrder(q)'
  <2>1. \A l \in likes' : l \in likes
    BY <1>1
  <2>2. \A x \in Likeables \ {LikeOf[t]} : LikesOf(x)' = LikesOf(x)
    BY CommitUnlikeRemoves
  <2> QED BY <1>1, <1>2, <2>1, <2>2, CommitKeepsOthers
<1> QED BY <1>1, <1>3 DEF LikesInv, LikesInOrder, RemindersFollowLikes

LEMMA NextKeepsLikesInv == LikesInv /\ [LikesNext]_likesVars => LikesInv'
<1> SUFFICES ASSUME LikesInv, [LikesNext]_likesVars PROVE LikesInv'
  OBVIOUS
<1>1. LikesTypeOK'
  BY NextLikesTypes DEF LikesInv
<1>2. CASE \E t \in Toggles : FindNone(t) \/ FindOne(t)
  BY <1>1, <1>2, FindKeeps
<1>3. CASE \E t \in Toggles : InsertLike(t)
  BY <1>1, <1>3, InsertLikeKeeps
<1>4. CASE \E t \in Toggles : CommitLike(t) \/ CommitUnlike(t)
  BY <1>1, <1>4, CommitLikeKeeps, CommitUnlikeKeeps
<1>5. CASE \E t \in Toggles : Deadlocked(t) \/ FailToggle(t)
  BY <1>1, <1>5, GivingUpKeeps DEF Deadlocked, FailToggle
<1>6. CASE MarkRead
  <2> PICK n \in reminders : reminders' = (reminders \ {n}) \cup {[n EXCEPT !.read = TRUE]}
    BY <1>6 DEF MarkRead
  <2> DEFINE seen == [n EXCEPT !.read = TRUE]
  <2>1. seen.like = n.like
    BY DEF LikesInv, LikesTypeOK, Reminder
  <2> HIDE DEF seen
  <2>2. reminders' = (reminders \ {n}) \cup {seen}
    BY DEF seen
  <2>3. RemindersFollowLikes'
    BY <1>6, <2>1, <2>2 DEF MarkRead, LikesInv, LikesInOrder, RemindersFollowLikes
  <2> QED BY <1>1, <1>6, <2>3
          DEF MarkRead, LikesInv, LikesInOrder, ToggleInOrder, LikesOf, NoRival
<1>7. CASE UNCHANGED likesVars
  BY <1>1, <1>7 DEF likesVars, LikesInv, LikesInOrder, ToggleInOrder, LikesOf, NoRival,
                    RemindersFollowLikes
<1> QED BY <1>2, <1>3, <1>4, <1>5, <1>6, <1>7 DEF LikesNext

THEOREM LikesInvariance == LikesSpec => []LikesInv
BY InitLikesInv, NextKeepsLikesInv, PTL DEF LikesSpec

(***************************************************************************)
(* RemindersFollowLikes for every instance.                                *)
(***************************************************************************)
THEOREM RemindersHold == LikesSpec => []RemindersFollowLikes
<1>1. LikesInv => RemindersFollowLikes
  BY DEF LikesInv, LikesInOrder
<1> QED BY <1>1, LikesInvariance, PTL
-----------------------------------------------------------------------------
(* Toggles and their answers *)

\* A toggle that ends, having turned the like of x over if it says so.
LEMMA EndsAsTold ==
    ASSUME LikesInv, NEW t \in Toggles, NEW reply, AnswerToggle(t, reply),
           togglePc[t] # "done", reply # "none", NEW x \in Likeables,
           x # LikeOf[t] => LikesOf(x)' = LikesOf(x),
           x = LikeOf[t] =>
               \/ reply \in {"liked", "error"} /\ TurnedOn(x) /\ togglePc[t] = "written"
               \/ reply \in {"unliked", "error"} /\ TurnedOff(x) /\ togglePc[t] = "found"
               \/ reply = "error" /\ LikesOf(x)' = LikesOf(x)
    PROVE  TurnsAsTold(x)
<1>1. /\ liked'[t] = reply /\ liked[t] # reply
      /\ \A q \in Toggles \ {t} : liked'[q] = liked[q]
  BY DEF AnswerToggle, LikesInv, LikesTypeOK, LikesInOrder, ToggleInOrder
<1>2. CASE x = LikeOf[t]
  <2>1. Told(x) = {t}
    BY <1>1, <1>2 DEF Told
  <2> QED BY <1>1, <1>2, <2>1 DEF TurnsAsTold
<1>3. CASE x # LikeOf[t]
  <2>1. Told(x) = {}
    BY <1>1, <1>3 DEF Told
  <2> QED BY <1>3, <2>1 DEF TurnsAsTold
<1> QED BY <1>2, <1>3

LEMMA StepTurnsAsTold ==
    ASSUME LikesInv, [LikesNext]_likesVars, NEW x \in Likeables PROVE TurnsAsTold(x)
<1>1. ASSUME NEW t \in Toggles, CommitLike(t) PROVE TurnsAsTold(x)
  <2>1. PICK reply \in {"liked", "error"} : AnswerToggle(t, reply)
    BY <1>1 DEF CommitLike, AnswerCommitted
  <2>2. togglePc[t] = "written"
    BY <1>1 DEF CommitLike
  <2>3. x = LikeOf[t] => TurnedOn(x)
    BY <1>1, CommitLikeAdds DEF TurnedOn
  <2>4. x # LikeOf[t] => LikesOf(x)' = LikesOf(x)
    BY <1>1, CommitLikeAdds
  <2> QED BY <2>1, <2>2, <2>3, <2>4, EndsAsTold
<1>2. ASSUME NEW t \in Toggles, CommitUnlike(t) PROVE TurnsAsTold(x)
  <2>1. PICK reply \in {"unliked", "error"} : AnswerToggle(t, reply)
    BY <1>2 DEF CommitUnlike, AnswerCommitted
  <2>2. togglePc[t] = "found"
    BY <1>2 DEF CommitUnlike
  <2>3. x = LikeOf[t] => TurnedOff(x)
    BY <1>2, CommitUnlikeRemoves DEF TurnedOff
  <2>4. x # LikeOf[t] => LikesOf(x)' = LikesOf(x)
    BY <1>2, CommitUnlikeRemoves
  <2> QED BY <2>1, <2>2, <2>3, <2>4, EndsAsTold
<1>3. ASSUME NEW t \in Toggles, Deadlocked(t) \/ FailToggle(t) PROVE TurnsAsTold(x)
  <2>1. togglePc[t] # "done" /\ AnswerToggle(t, "error") /\ LikesOf(x)' = LikesOf(x)
    BY <1>3 DEF Deadlocked, FailToggle, LikesOf
  <2> QED BY <2>1, EndsAsTold
<1>4. CASE likes' = likes /\ liked' = liked
  BY <1>4 DEF TurnsAsTold, Told, LikesOf
<1> QED BY <1>1, <1>2, <1>3, <1>4
        DEF LikesNext, FindNone, FindOne, InsertLike, MarkRead, likesVars

LEMMA OneAtMost ==
    ASSUME NEW S, \A l, m \in S : l = m PROVE Cardinality(S) <= 1
<1>1. CASE S = {}
  BY <1>1, FS_EmptySet
<1>2. CASE S # {}
  <2> PICK l \in S : TRUE
    BY <1>2
  <2>1. S = {l}
    OBVIOUS
  <2>2. Cardinality({l}) = 1
    BY FS_Singleton
  <2> QED BY <2>1, <2>2
<1> QED BY <1>1, <1>2

(***************************************************************************)
(* TogglesTurnLikesOver for every instance: the locks leave one toggle of a*)
(* like at a time, however many race and whichever replies are lost.       *)
(***************************************************************************)
THEOREM TogglesHold == LikesSpec => TogglesTurnLikesOver
<1>1. LikesInv /\ LikesInv' /\ [LikesNext]_likesVars
        => [\A x \in Likeables : Cardinality(LikesOf(x)') <= 1 /\ TurnsAsTold(x)]_likesVars
  <2> SUFFICES ASSUME LikesInv, LikesInv', [LikesNext]_likesVars, NEW x \in Likeables
               PROVE  Cardinality(LikesOf(x)') <= 1 /\ TurnsAsTold(x)
    OBVIOUS
  <2>1. Cardinality(LikesOf(x)') <= 1
    <3>1. \A l, m \in LikesOf(x)' : l = m
      BY DEF LikesInv, LikesInOrder, LikesOf
    <3> QED BY <3>1, OneAtMost
  <2> QED BY <2>1, StepTurnsAsTold
<1> QED BY <1>1, LikesInvariance, PTL DEF LikesSpec, TogglesTurnLikesOver
-----------------------------------------------------------------------------
\* Signups and tokens.

LEMMA InitAccountTypes == AccountsInit => AccountsTypeOK
  BY DEF AccountsInit, AccountsTypeOK, At, Visit

LEMMA NextAccountTypes == AccountsTypeOK /\ [AccountsNext]_accountsVars => AccountsTypeOK'
<1> SUFFICES ASSUME AccountsTypeOK, [AccountsNext]_accountsVars PROVE AccountsTypeOK'
  OBVIOUS
<1> USE AccountsParameters
<1>1. ASSUME NEW s \in Signups, CheckEmail(s) PROVE AccountsTypeOK'
  BY <1>1 DEF CheckEmail, AnswerSignup, AccountsTypeOK
<1>2. ASSUME NEW s \in Signups, CreateUser(s) PROVE AccountsTypeOK'
  BY <1>2 DEF CreateUser, AnswerSignup, AccountsTypeOK, User
<1>3. ASSUME NEW u \in users, Login(u) PROVE AccountsTypeOK'
  BY <1>3 DEF Login, AccountsTypeOK, Token
<1>4. ASSUME NEW v \in Visits, NEW seen \in Visit, Set(v, seen),
             blacklist' \in SUBSET Token, UNCHANGED <<users, signupPc, told, issued, moment>>
      PROVE  AccountsTypeOK'
  BY <1>4 DEF Set, AccountsTypeOK
<1>5. \A pc \in {"unsent", "valid", "passed", "in", "out"} : At(pc) \in Visit
  BY DEF At, Visit
<1>6. ASSUME NEW v \in Visits, Show(v) PROVE AccountsTypeOK'
  <2> DEFINE gone(token) == \E w \in Visits :
               visit[w].pc = "in" /\ Purpose[w] = "logout" /\ visit[w].token = {token}
  <2>1. PICK token \in issued :
          IF Expired(token)
          THEN Set(v, At("out"))
          ELSE Set(v, [At("valid") EXCEPT !.token = {token}, !.late = gone(token)])
    BY <1>6 DEF Show
  <2>2. gone(token) \in BOOLEAN /\ token \in Token
    BY DEF AccountsTypeOK
  <2> HIDE DEF gone
  <2>3. [At("valid") EXCEPT !.token = {token}, !.late = gone(token)] \in Visit
    BY <2>2 DEF At, Visit
  <2>4. UNCHANGED <<users, signupPc, told, blacklist, issued, moment>>
    BY <1>6 DEF Show
  <2> QED BY <1>4, <1>5, <2>1, <2>3, <2>4 DEF AccountsTypeOK
<1>7. ASSUME NEW v \in Visits, AskBlacklist(v) PROVE AccountsTypeOK'
  <2>1. ASSUME NEW b \in BOOLEAN
        PROVE  [visit[v] EXCEPT !.pc = "passed", !.over = b] \in Visit
    <3>1. visit[v] \in Visit
      BY DEF AccountsTypeOK
    <3> QED BY <3>1 DEF Visit
  <2>4. [visit[v] EXCEPT !.pc = "passed", !.blind = TRUE] \in Visit
    <3>1. visit[v] \in Visit
      BY DEF AccountsTypeOK
    <3> QED BY <3>1 DEF Visit
  <2>2. \A token : (moment >= token.exp) \in BOOLEAN
    OBVIOUS
  <2>3. /\ \/ Set(v, At("out"))
           \/ \E token : Set(v, [visit[v] EXCEPT !.pc = "passed", !.over = moment >= token.exp])
           \/ Set(v, [visit[v] EXCEPT !.pc = "passed", !.blind = TRUE])
        /\ UNCHANGED <<users, signupPc, told, blacklist, issued, moment>>
    BY <1>7 DEF AskBlacklist
  <2> QED BY <1>4, <1>5, <2>1, <2>2, <2>3, <2>4 DEF AccountsTypeOK
<1>8. ASSUME NEW v \in Visits, Enter(v) \/ EnterOptional(v) \/ TurnAway(v) \/ Logout(v)
      PROVE  AccountsTypeOK'
  <2>1. [visit[v] EXCEPT !.pc = "in"] \in Visit
    BY DEF AccountsTypeOK, Visit
  <2>2. blacklist' \in SUBSET Token
    BY <1>8 DEF Enter, EnterOptional, TurnAway, Logout, AddToBlacklist, AccountsTypeOK, Visit
  <2> QED BY <1>4, <1>5, <1>8, <2>1, <2>2 DEF Enter, EnterOptional, TurnAway, Logout
<1>9. CASE Cleanup \/ Elapse \/ UNCHANGED accountsVars
  BY <1>9 DEF Cleanup, Elapse, accountsVars, AccountsTypeOK
<1> QED BY <1>1, <1>2, <1>3, <1>6, <1>7, <1>8, <1>9 DEF AccountsNext

THEOREM AccountTypes == AccountsSpec => []AccountsTypeOK
BY InitAccountTypes, NextAccountTypes, PTL DEF AccountsSpec
-----------------------------------------------------------------------------
(* Signups *)

\* One account per address, and none by a signup that is still under way.
AccountsInOrder ==
    /\ \A u, w \in users : u.email = w.email => u = w
    /\ \A u \in users : signupPc[u.by] = "done"
    /\ \A s \in Signups :
        /\ told[s] = 201 => [email |-> EmailOf[s], by |-> s] \in users
        /\ told[s] = 409 => \E u \in users : u.email = EmailOf[s] /\ u.by # s

LEMMA InitAccountsInOrder == AccountsInit => AccountsInOrder
  BY DEF AccountsInit, AccountsInOrder

LEMMA NextAccountsInOrder ==
    AccountsTypeOK /\ AccountsInOrder /\ [AccountsNext]_accountsVars => AccountsInOrder'
<1> SUFFICES ASSUME AccountsTypeOK, AccountsInOrder, [AccountsNext]_accountsVars
             PROVE  AccountsInOrder'
  OBVIOUS
<1>1. \A s \in Signups : signupPc[s] # "done" => \A u \in users : u.by # s
  BY DEF AccountsInOrder
<1>2. ASSUME NEW s \in Signups, CheckEmail(s) PROVE AccountsInOrder'
  <2>1. signupPc[s] = "unsent" /\ users' = users
    BY <1>2 DEF CheckEmail
  <2>2. \A q \in Signups : signupPc[q] = "done" => signupPc'[q] = "done"
    BY <1>2 DEF CheckEmail, AnswerSignup, AccountsTypeOK
  <2>3. \A q \in Signups \ {s} : told'[q] = told[q]
    BY <1>2 DEF CheckEmail, AnswerSignup, AccountsTypeOK
  <2>4. \/ told'[s] = told[s]
        \/ told'[s] = 409 /\ \E u \in users : u.email = EmailOf[s]
    <3>1. CASE Taken(EmailOf[s])
      <4>1. told'[s] = 409
        BY <1>2, <3>1 DEF CheckEmail, AnswerSignup, AccountsTypeOK
      <4> QED BY <3>1, <4>1 DEF Taken
    <3>2. CASE ~ Taken(EmailOf[s])
      <4>1. told' = told
        BY <1>2, <3>2 DEF CheckEmail, AnswerSignup
      <4> QED BY <4>1
    <3> QED BY <3>1, <3>2
  <2> QED BY <1>1, <2>1, <2>2, <2>3, <2>4 DEF AccountsInOrder, AccountsTypeOK, User
<1>3. ASSUME NEW s \in Signups, CreateUser(s) PROVE AccountsInOrder'
  <2> DEFINE new == [email |-> EmailOf[s], by |-> s]
  <2>1. signupPc[s] = "free" /\ new.email = EmailOf[s] /\ new.by = s
    BY <1>3 DEF CreateUser
  <2> HIDE DEF new
  <2>2. \A q \in Signups : signupPc[q] = "done" \/ q = s => signupPc'[q] = "done"
    BY <1>3 DEF CreateUser, AnswerSignup, AccountsTypeOK
  <2>3. \A q \in Signups \ {s} : told'[q] = told[q]
    BY <1>3 DEF CreateUser, AnswerSignup, AccountsTypeOK
  <2>4. \/ /\ users' = users \cup {new}
           /\ \A u \in users : u.email # EmailOf[s]
           /\ told'[s] \in {201, 500}
        \/ users' = users /\ told'[s] = 500
    BY <1>3 DEF CreateUser, AnswerSignup, AccountsTypeOK, Taken, new
  <2>5. \A u, w \in users' : u.email = w.email => u = w
    BY <2>1, <2>4 DEF AccountsInOrder
  <2>6. \A u \in users' : signupPc'[u.by] = "done"
    BY <2>1, <2>2, <2>4 DEF AccountsInOrder, AccountsTypeOK, User
  <2>7. told'[s] = 201 => [email |-> EmailOf[s], by |-> s] \in users'
    BY <2>4 DEF new
  <2>8. told'[s] # 409
    BY <2>4
  <2> QED BY <2>3, <2>4, <2>5, <2>6, <2>7, <2>8 DEF AccountsInOrder
<1>4. CASE UNCHANGED <<users, signupPc, told>>
  BY <1>4 DEF AccountsInOrder
<1> QED BY <1>2, <1>3, <1>4
        DEF AccountsNext, Login, Show, AskBlacklist, Enter, EnterOptional, Logout, TurnAway,
            Set, Cleanup, Elapse, accountsVars

(***************************************************************************)
(* SignupsAreTrue for every instance, however many signups race.           *)
(***************************************************************************)
THEOREM SignupsHold == AccountsSpec => []SignupsAreTrue
<1>1. AccountsInOrder => SignupsAreTrue
  <2> SUFFICES ASSUME AccountsInOrder, NEW s \in Signups, told[s] = 201
               PROVE  {u \in users : u.email = EmailOf[s]} = {[email |-> EmailOf[s], by |-> s]}
    BY DEF AccountsInOrder, SignupsAreTrue
  <2> DEFINE own == [email |-> EmailOf[s], by |-> s]
  <2>1. own \in users /\ own.email = EmailOf[s]
    BY DEF AccountsInOrder
  <2> HIDE DEF own
  <2>2. \A u \in users : u.email = EmailOf[s] => u = own
    BY <2>1 DEF AccountsInOrder
  <2>3. {u \in users : u.email = EmailOf[s]} = {own}
    BY <2>1, <2>2
  <2> QED BY <2>3 DEF own
<1>2. AccountsSpec => []AccountsInOrder
  BY InitAccountsInOrder, NextAccountsInOrder, AccountTypes, PTL DEF AccountsSpec
<1> QED BY <1>1, <1>2, PTL
-----------------------------------------------------------------------------
(* Logouts *)

\* The blacklist keeps a token until its time is over.
Blocked(token) == token \in blacklist \/ token.exp < moment

VisitInOrder(v) ==
    /\ visit[v].pc \in {"valid", "passed"} =>
         \E token \in Token : visit[v].token = {token}
    /\ visit[v].pc = "in" /\ Purpose[v] = "logout" =>
         \A token \in visit[v].token : Blocked(token)
    /\ visit[v].late /\ visit[v].pc = "valid" =>
         \A token \in visit[v].token : Blocked(token)
    /\ visit[v].late /\ visit[v].pc \in {"passed", "in"} =>
         Purpose[v] = "optional" \/ visit[v].blind \/ visit[v].over

VisitsInOrder == \A v \in Visits : VisitInOrder(v)

\* Nothing brings a token back.
LEMMA StillBlocked ==
    ASSUME AccountsTypeOK, [AccountsNext]_accountsVars, NEW token \in Token, Blocked(token)
    PROVE  Blocked(token)'
<1>1. CASE Cleanup
  BY <1>1 DEF Cleanup, Blocked, AccountsTypeOK, Token
<1>2. CASE Elapse
  BY <1>2 DEF Elapse, Blocked, AccountsTypeOK, Token
<1>3. CASE blacklist \subseteq blacklist' /\ moment' = moment
  BY <1>3 DEF Blocked
<1> QED BY <1>1, <1>2, <1>3
        DEF AccountsNext, CheckEmail, CreateUser, AnswerSignup, Login, Show, AskBlacklist,
            Enter, EnterOptional, Logout, AddToBlacklist, TurnAway, accountsVars

\* A step of one visit.
LEMMA OneVisitMoves ==
    ASSUME AccountsTypeOK, VisitsInOrder, [AccountsNext]_accountsVars, NEW v \in Visits,
           \A w \in Visits \ {v} : visit'[w] = visit[w], VisitInOrder(v)'
    PROVE  VisitsInOrder'
<1>1. \A w \in Visits : visit[w].token \subseteq Token
  BY DEF AccountsTypeOK, Visit
<1>2. ASSUME NEW w \in Visits \ {v} PROVE VisitInOrder(w)'
  BY <1>1, <1>2, StillBlocked DEF VisitsInOrder, VisitInOrder
<1> QED BY <1>2 DEF VisitsInOrder

LEMMA NextVisitsInOrder ==
    AccountsTypeOK /\ VisitsInOrder /\ [AccountsNext]_accountsVars => VisitsInOrder'
<1> SUFFICES ASSUME AccountsTypeOK, VisitsInOrder, [AccountsNext]_accountsVars
             PROVE  VisitsInOrder'
  OBVIOUS
<1>1. \A w \in Visits : visit[w].token \subseteq Token
  BY DEF AccountsTypeOK, Visit
<1>2. ASSUME NEW v \in Visits, NEW seen, Set(v, seen)
      PROVE  visit'[v] = seen /\ \A w \in Visits \ {v} : visit'[w] = visit[w]
  BY <1>2 DEF Set, AccountsTypeOK
<1>3. ASSUME NEW v \in Visits, Set(v, At("out")) PROVE VisitsInOrder'
  <2>1. At("out").pc = "out"
    BY DEF At
  <2>2. VisitInOrder(v)'
    BY <1>2, <1>3, <2>1 DEF VisitInOrder
  <2> QED BY <1>2, <1>3, <2>2, OneVisitMoves
<1>4. ASSUME NEW v \in Visits, Show(v) PROVE VisitsInOrder'
  <2> DEFINE gone(token) == \E w \in Visits :
               visit[w].pc = "in" /\ Purpose[w] = "logout" /\ visit[w].token = {token}
             seen(token) == [At("valid") EXCEPT !.token = {token}, !.late = gone(token)]
  <2>1. PICK token \in issued :
          IF Expired(token) THEN Set(v, At("out")) ELSE Set(v, seen(token))
    BY <1>4 DEF Show
  <2>2. token \in Token /\ (gone(token) => Blocked(token))
    BY DEF VisitsInOrder, VisitInOrder, AccountsTypeOK
  <2> HIDE DEF gone
  <2>3. seen(token).pc = "valid" /\ seen(token).token = {token} /\ seen(token).late = gone(token)
    BY DEF At
  <2> HIDE DEF seen
  <2>4. Blocked(token) => Blocked(token)'
    BY <2>2, StillBlocked
  <2>5. CASE Set(v, seen(token))
    <3>1. VisitInOrder(v)'
      BY <1>2, <2>2, <2>3, <2>4, <2>5 DEF VisitInOrder
    <3> QED BY <1>2, <2>5, <3>1, OneVisitMoves
  <2> QED BY <1>3, <2>1, <2>5
<1>5. ASSUME NEW v \in Visits, AskBlacklist(v) PROVE VisitsInOrder'
  <2>1. visit[v].pc = "valid"
    BY <1>5 DEF AskBlacklist
  <2>2. PICK token \in visit[v].token :
          \/ IF Blacklisted(token)
             THEN Set(v, At("out"))
             ELSE Set(v, [visit[v] EXCEPT !.pc = "passed", !.over = moment >= token.exp])
          \/ Set(v, [visit[v] EXCEPT !.pc = "passed", !.blind = TRUE])
    BY <1>5 DEF AskBlacklist
  <2>3. visit[v] \in Visit /\ visit[v].token = {token} /\ token \in Token
    BY <2>1 DEF VisitsInOrder, VisitInOrder, AccountsTypeOK, Visit
  <2>4. CASE ~ Blacklisted(token)
             /\ Set(v, [visit[v] EXCEPT !.pc = "passed", !.over = moment >= token.exp])
    <3> DEFINE over == moment >= token.exp
               seen == [visit[v] EXCEPT !.pc = "passed", !.over = over]
    <3>1. visit[v].late => over
      <4>1. moment \in Nat /\ token.exp \in Nat
        BY <2>3 DEF AccountsTypeOK, Token
      <4>2. visit[v].late => Blocked(token)
        BY <2>1, <2>3 DEF VisitsInOrder, VisitInOrder
      <4> QED BY <2>4, <4>1, <4>2 DEF Blocked, Blacklisted
    <3> HIDE DEF over
    <3>2. /\ seen.pc = "passed" /\ seen.token = visit[v].token
          /\ seen.late = visit[v].late /\ seen.over = over
      BY <2>3 DEF Visit
    <3>3. Set(v, seen)
      BY <2>4 DEF over
    <3> HIDE DEF seen
    <3>4. VisitInOrder(v)'
      BY <1>2, <2>3, <3>1, <3>2, <3>3 DEF VisitInOrder
    <3> QED BY <1>2, <3>3, <3>4, OneVisitMoves
  <2>5. CASE Set(v, [visit[v] EXCEPT !.pc = "passed", !.blind = TRUE])
    <3> DEFINE seen == [visit[v] EXCEPT !.pc = "passed", !.blind = TRUE]
    <3>1. seen.pc = "passed" /\ seen.token = visit[v].token /\ seen.blind
      BY <2>3 DEF Visit
    <3> HIDE DEF seen
    <3>2. VisitInOrder(v)'
      BY <1>2, <2>3, <2>5, <3>1 DEF VisitInOrder, seen
    <3> QED BY <1>2, <2>5, <3>2, OneVisitMoves
  <2> QED BY <1>3, <2>2, <2>4, <2>5
<1>6. ASSUME NEW v \in Visits, Enter(v) \/ EnterOptional(v) \/ Logout(v) PROVE VisitsInOrder'
  <2> DEFINE seen == [visit[v] EXCEPT !.pc = "in"]
  <2>1. /\ Set(v, seen) \/ Set(v, At("out"))
        /\ visit[v].pc \in {"valid", "passed"}
        /\ visit[v].pc = "passed" \/ Purpose[v] = "optional"
    BY <1>6 DEF Enter, EnterOptional, Logout
  <2>2. visit[v] \in Visit
    BY DEF AccountsTypeOK
  <2>3. /\ seen.pc = "in" /\ seen.token = visit[v].token /\ seen.late = visit[v].late
        /\ seen.blind = visit[v].blind /\ seen.over = visit[v].over
    BY <2>2 DEF Visit
  <2> HIDE DEF seen
  <2>4. Purpose[v] = "logout" => \A token \in visit[v].token : token \in blacklist'
    BY <1>6, <2>1 DEF Enter, EnterOptional, Logout, AddToBlacklist, VisitsInOrder, VisitInOrder
  <2>5. CASE Set(v, seen)
    <3>1. VisitInOrder(v)'
      BY <1>2, <2>1, <2>3, <2>4, <2>5 DEF VisitsInOrder, VisitInOrder, Blocked
    <3> QED BY <1>2, <2>5, <3>1, OneVisitMoves
  <2> QED BY <1>3, <2>1, <2>5
<1>7. ASSUME NEW v \in Visits, TurnAway(v) PROVE VisitsInOrder'
  BY <1>3, <1>7 DEF TurnAway
<1>8. CASE visit' = visit
  BY <1>1, <1>8, StillBlocked DEF VisitsInOrder, VisitInOrder
<1> QED BY <1>4, <1>5, <1>6, <1>7, <1>8
        DEF AccountsNext, CheckEmail, CreateUser, Login, Cleanup, Elapse, accountsVars

(***************************************************************************)
(* LoggedOutStayOut for every instance: only the three gaps of the code    *)
(* let a token in that was logged out before it was shown.                 *)
(***************************************************************************)
THEOREM LogoutsHold == AccountsSpec => []LoggedOutStayOut
<1>1. AccountsInit => VisitsInOrder
  BY DEF AccountsInit, VisitsInOrder, VisitInOrder, At
<1>2. AccountsSpec => []VisitsInOrder
  BY <1>1, NextVisitsInOrder, AccountTypes, PTL DEF AccountsSpec
<1>3. VisitsInOrder => LoggedOutStayOut
  BY DEF VisitsInOrder, VisitInOrder, LoggedOutStayOut
<1> QED BY <1>2, <1>3, PTL
-----------------------------------------------------------------------------
\* The user log.

LogInv == UserLogTypeOK /\ OnlyPostsAreKept

LEMMA LogInvInductive == LogInv /\ [UserLogNext]_userLogVars => LogInv'
<1> SUFFICES ASSUME LogInv, [UserLogNext]_userLogVars PROVE LogInv'
  OBVIOUS
<1> USE UserLogParameters DEF LogInv, UserLogTypeOK, OnlyPostsAreKept, Writers, Report
<1>1. ASSUME NEW w \in Writers, FlushLog(w) PROVE LogInv'
  BY <1>1 DEF FlushLog
<1>2. ASSUME NEW p \in Posts, FailPost(p) PROVE LogInv'
  BY <1>2 DEF FailPost
<1>3. ASSUME NEW p \in Posts, CommitPost(p) PROVE LogInv'
  BY <1>3 DEF CommitPost
<1>4. ASSUME NEW t \in LogTasks, RetryTask(t) PROVE LogInv'
  BY <1>4 DEF RetryTask
<1>5. ASSUME NEW t \in LogTasks, CloseTask(t) PROVE LogInv'
  BY <1>5 DEF CloseTask
<1>6. CASE UNCHANGED userLogVars
  BY <1>6 DEF userLogVars
<1> QED BY <1>1, <1>2, <1>3, <1>4, <1>5, <1>6 DEF UserLogNext

\* The log's rows, types and answers stay in order.
THEOREM LogInvariance == UserLogSpec => []LogInv
<1>1. UserLogInit => LogInv
  BY UserLogParameters DEF UserLogInit, LogInv, UserLogTypeOK, OnlyPostsAreKept, Writers
<1> QED BY <1>1, LogInvInductive, PTL DEF UserLogSpec

(***************************************************************************)
(* An event that a route says is recorded has a row, and nothing that a    *)
(* background task reports ever has.                                       *)
(***************************************************************************)
THEOREM PostsAreKept == UserLogSpec => []OnlyPostsAreKept
<1>1. LogInv => OnlyPostsAreKept
  BY DEF LogInv
<1> QED BY <1>1, LogInvariance, PTL
-----------------------------------------------------------------------------
\* Search histories.

\* A row's posting is over; a row that a removal has found was posted by the
\* removal's user; what has been answered is over.
RowsArePosted ==
    /\ \A h \in histories :
        h.id \in Postings /\ h.of = SearcherOf[h.id] /\ historyPc[h.id] = "done"
    /\ \A r \in Removals :
        /\ historyPc[r] = "found" => removed[r] # NoHistory
        /\ removed[r] # NoHistory =>
            \E p \in Postings :
                /\ removed[r] = HistoryOf(p)
                /\ SearcherOf[p] = SearcherOf[r]
                /\ historyPc[p] = "done"
    /\ \A r \in Postings \cup Removals : historyTold[r] # "none" => historyPc[r] = "done"
    /\ \A r \in HistoryRequests : historyPc[r] = "found" => r \in Removals

HistoryInv == SearchHistoryTypeOK /\ HistoryIsTheUsers /\ RowsArePosted

LEMMA RowsDiffer ==
    \A p, q \in HistoryRequests :
        /\ HistoryOf(p) # NoHistory
        /\ HistoryOf(p) = HistoryOf(q) => p = q
        /\ HistoryOf(p).id = p /\ HistoryOf(p).of = SearcherOf[p]
  BY DEF HistoryOf, NoHistory

LEMMA InitHistoryInv == SearchHistoryInit => HistoryInv
  BY SearchHistoryParameters
  DEF SearchHistoryInit, HistoryInv, SearchHistoryTypeOK, HistoryIsTheUsers, RowsArePosted,
      HistoryRequests, History

\* A request that leaves the rows alone, and what removals have found.
LEMMA OtherStep ==
    ASSUME HistoryInv, NEW r \in HistoryRequests,
           UNCHANGED <<histories, removed>>,
           historyPc[r] # "done",
           \/ FlushHistory(r) \/ DropSearch(r) \/ MissHistory(r) \/ FailHistory(r)
    PROVE  HistoryInv'
<1> USE SearchHistoryParameters DEF HistoryRequests
<1>1. SearchHistoryTypeOK'
  BY DEF HistoryInv, SearchHistoryTypeOK, FlushHistory, DropSearch, MissHistory, FailHistory, Tell
<1>2. /\ \A q \in HistoryRequests \ {r} :
           historyPc'[q] = historyPc[q] /\ historyTold'[q] = historyTold[q]
      /\ r \in Postings \cup Removals => historyTold'[r] # "ok"
      /\ historyTold'[r] # "none" /\ r \in Postings \cup Removals => historyPc'[r] = "done"
      /\ historyPc'[r] # "found"
  BY DEF HistoryInv, SearchHistoryTypeOK, FlushHistory, DropSearch, MissHistory, FailHistory, Tell
<1>3. r \in Postings \cup Removals => historyTold[r] = "none"
  BY DEF HistoryInv, RowsArePosted
<1>4. HistoryIsTheUsers'
  BY <1>2, <1>3 DEF HistoryInv, HistoryIsTheUsers, HistoryOf
<1>5. RowsArePosted'
  BY <1>2 DEF HistoryInv, RowsArePosted, HistoryIsTheUsers, HistoryOf
<1> QED BY <1>1, <1>4, <1>5 DEF HistoryInv

LEMMA CommitKeepsInv ==
    ASSUME HistoryInv, NEW p \in Postings, CommitHistory(p)
    PROVE  HistoryInv'
<1> USE SearchHistoryParameters DEF HistoryRequests
<1>1. /\ histories' = histories \cup {HistoryOf(p)} /\ removed' = removed
      /\ historyPc[p] = "flushed" /\ historyPc'[p] = "done" /\ historyTold'[p] \in {"ok", "error"}
      /\ \A q \in HistoryRequests \ {p} :
           historyPc'[q] = historyPc[q] /\ historyTold'[q] = historyTold[q]
  BY DEF HistoryInv, SearchHistoryTypeOK, CommitHistory, TellCommitted, Tell
<1>2. SearchHistoryTypeOK'
  BY DEF HistoryInv, SearchHistoryTypeOK, CommitHistory, TellCommitted, Tell, History, HistoryOf
<1>3. \A r \in Removals : removed[r] # HistoryOf(p)
  BY <1>1, RowsDiffer DEF HistoryInv, RowsArePosted
<1>4. HistoryIsTheUsers'
  <2>2. \A r \in Removals : historyTold'[r] = "ok" => removed'[r] \notin histories'
    BY <1>1, <1>3 DEF HistoryInv, HistoryIsTheUsers
  <2>3. ASSUME NEW q \in Postings, historyTold'[q] = "ok"
        PROVE  \/ HistoryOf(q) \in histories'
               \/ \E r \in Removals : /\ removed'[r] = HistoryOf(q)
                                      /\ SearcherOf[r] = SearcherOf[q]
                                      /\ historyTold'[r] \in {"ok", "error"}
    BY <1>1, <2>3 DEF HistoryInv, HistoryIsTheUsers
  <2> QED BY <2>2, <2>3 DEF HistoryIsTheUsers, HistoryOf
<1>5. RowsArePosted'
  <2>1. \A h \in histories' :
          h.id \in Postings /\ h.of = SearcherOf[h.id] /\ historyPc'[h.id] = "done"
    BY <1>1, RowsDiffer DEF HistoryInv, RowsArePosted, HistoryIsTheUsers
  <2>2. ASSUME NEW r \in Removals, removed'[r] # NoHistory
        PROVE  \E q \in Postings : /\ removed'[r] = HistoryOf(q) /\ SearcherOf[q] = SearcherOf[r]
                                   /\ historyPc'[q] = "done"
    BY <1>1, <2>2 DEF HistoryInv, RowsArePosted
  <2> QED BY <1>1, <2>1, <2>2 DEF HistoryInv, RowsArePosted, HistoryOf, NoHistory
<1> QED BY <1>2, <1>4, <1>5 DEF HistoryInv

LEMMA FindKeepsInv ==
    ASSUME HistoryInv, NEW r \in Removals, FindHistory(r)
    PROVE  HistoryInv'
<1> USE SearchHistoryParameters DEF HistoryRequests
<1>1. PICK h \in Own(r) : removed' = [removed EXCEPT ![r] = h]
  BY DEF FindHistory
<1>2. /\ histories' = histories /\ historyTold' = historyTold
      /\ historyPc[r] = "unsent" /\ historyPc'[r] = "found"
      /\ \A q \in HistoryRequests \ {r} : historyPc'[q] = historyPc[q]
  BY DEF HistoryInv, SearchHistoryTypeOK, FindHistory
<1>3. /\ h \in histories /\ h \in History /\ h.id \in Postings
      /\ h.of = SearcherOf[h.id] /\ h.of = SearcherOf[r] /\ historyPc[h.id] = "done"
  BY DEF Own, HistoryInv, SearchHistoryTypeOK, HistoryIsTheUsers, RowsArePosted
<1>4. h = HistoryOf(h.id)
  BY <1>3 DEF History, HistoryOf
<1>5. removed'[r] = h /\ \A q \in Removals \ {r} : removed'[q] = removed[q]
  BY <1>1 DEF HistoryInv, SearchHistoryTypeOK
<1>6. SearchHistoryTypeOK'
  BY <1>1, <1>3 DEF HistoryInv, SearchHistoryTypeOK, FindHistory
<1>7. HistoryIsTheUsers'
  <2>1. historyTold[r] = "none"
    BY <1>2 DEF HistoryInv, RowsArePosted
  <2>2. \A q \in Removals : historyTold'[q] = "ok" => removed'[q] \notin histories'
    BY <1>2, <1>5, <2>1 DEF HistoryInv, HistoryIsTheUsers
  <2>3. ASSUME NEW p \in Postings, historyTold'[p] = "ok"
        PROVE  \/ HistoryOf(p) \in histories'
               \/ \E q \in Removals : /\ removed'[q] = HistoryOf(p)
                                      /\ SearcherOf[q] = SearcherOf[p]
                                      /\ historyTold'[q] \in {"ok", "error"}
    BY <1>2, <1>5, <2>1, <2>3 DEF HistoryInv, HistoryIsTheUsers
  <2> QED BY <1>2, <2>2, <2>3 DEF HistoryInv, HistoryIsTheUsers, HistoryOf
<1>8. RowsArePosted'
  <2>1. \A g \in histories' :
          g.id \in Postings /\ g.of = SearcherOf[g.id] /\ historyPc'[g.id] = "done"
    BY <1>2 DEF HistoryInv, RowsArePosted, HistoryIsTheUsers
  <2>2. ASSUME NEW q \in Removals, removed'[q] # NoHistory
        PROVE  \E p \in Postings : /\ removed'[q] = HistoryOf(p) /\ SearcherOf[p] = SearcherOf[q]
                                   /\ historyPc'[p] = "done"
    <3>1. CASE q = r
      BY <1>2, <1>3, <1>4, <1>5, <3>1
    <3>2. CASE q # r
      BY <1>2, <1>5, <2>2, <3>2 DEF HistoryInv, RowsArePosted
    <3> QED BY <3>1, <3>2
  <2>3. ASSUME NEW q \in Removals, historyPc'[q] = "found" PROVE removed'[q] # NoHistory
    BY <1>2, <1>3, <1>4, <1>5, <2>3, RowsDiffer DEF HistoryInv, RowsArePosted
  <2>4. \A q \in Postings \cup Removals : historyTold'[q] # "none" => historyPc'[q] = "done"
    BY <1>2 DEF HistoryInv, RowsArePosted
  <2>5. \A q \in HistoryRequests : historyPc'[q] = "found" => q \in Removals
    BY <1>2 DEF HistoryInv, RowsArePosted
  <2> QED BY <2>1, <2>2, <2>3, <2>4, <2>5 DEF RowsArePosted, HistoryOf, NoHistory
<1> QED BY <1>6, <1>7, <1>8 DEF HistoryInv

LEMMA RemoveKeepsInv ==
    ASSUME HistoryInv, NEW r \in HistoryRequests, RemoveHistory(r)
    PROVE  HistoryInv'
<1> USE SearchHistoryParameters DEF HistoryRequests
<1>1. SearchHistoryTypeOK'
  BY DEF HistoryInv, SearchHistoryTypeOK, RemoveHistory, TellCommitted, Tell
<1>2. /\ histories' = histories \ {removed[r]} /\ removed' = removed
      /\ historyPc[r] = "found" /\ historyPc'[r] = "done" /\ historyTold'[r] \in {"ok", "error"}
      /\ \A q \in HistoryRequests \ {r} :
           historyPc'[q] = historyPc[q] /\ historyTold'[q] = historyTold[q]
  BY DEF HistoryInv, SearchHistoryTypeOK, RemoveHistory, TellCommitted, Tell
<1>3. r \in Removals
  BY <1>2 DEF HistoryInv, RowsArePosted
<1>4. PICK p \in Postings : removed[r] = HistoryOf(p) /\ SearcherOf[p] = SearcherOf[r]
  BY <1>2, <1>3 DEF HistoryInv, RowsArePosted
<1>5. HistoryIsTheUsers'
  <2>1. \A q \in Removals : historyTold'[q] = "ok" => removed'[q] \notin histories'
    BY <1>2 DEF HistoryInv, HistoryIsTheUsers
  <2>2. ASSUME NEW q \in Postings, historyTold'[q] = "ok"
        PROVE  \/ HistoryOf(q) \in histories'
               \/ \E k \in Removals : /\ removed'[k] = HistoryOf(q)
                                      /\ SearcherOf[k] = SearcherOf[q]
                                      /\ historyTold'[k] \in {"ok", "error"}
    <3>1. historyTold[q] = "ok"
      BY <1>2, <1>3, <2>2
    <3>2. CASE q = p
      BY <1>2, <1>3, <1>4, <3>2
    <3>3. CASE q # p
      <4>1. HistoryOf(q) # removed[r]
        BY <1>4, <3>3, RowsDiffer
      <4>2. CASE HistoryOf(q) \in histories
        BY <1>2, <4>1, <4>2
      <4>3. ASSUME NEW k \in Removals, removed[k] = HistoryOf(q),
                   SearcherOf[k] = SearcherOf[q], historyTold[k] \in {"ok", "error"}
            PROVE  removed'[k] = HistoryOf(q) /\ historyTold'[k] \in {"ok", "error"}
        BY <1>2, <4>3
      <4> QED BY <3>1, <4>2, <4>3 DEF HistoryInv, HistoryIsTheUsers
    <3> QED BY <3>2, <3>3
  <2> QED BY <1>2, <2>1, <2>2 DEF HistoryInv, HistoryIsTheUsers, HistoryOf
<1>6. RowsArePosted'
  <2>1. \A h \in histories' :
          h.id \in Postings /\ h.of = SearcherOf[h.id] /\ historyPc'[h.id] = "done"
    BY <1>2 DEF HistoryInv, RowsArePosted, HistoryIsTheUsers
  <2>2. ASSUME NEW k \in Removals, removed'[k] # NoHistory
        PROVE  \E q \in Postings : /\ removed'[k] = HistoryOf(q) /\ SearcherOf[q] = SearcherOf[k]
                                   /\ historyPc'[q] = "done"
    BY <1>2, <2>2 DEF HistoryInv, RowsArePosted
  <2>3. \A k \in HistoryRequests :
           /\ historyPc'[k] = "found" => k \in Removals /\ removed'[k] # NoHistory
           /\ k \notin Searches /\ historyTold'[k] # "none" => historyPc'[k] = "done"
    BY <1>2, <1>3 DEF HistoryInv, RowsArePosted
  <2> QED BY <2>1, <2>2, <2>3 DEF RowsArePosted, HistoryOf, NoHistory
<1> QED BY <1>1, <1>5, <1>6 DEF HistoryInv

LEMMA StepHistoryInv == HistoryInv /\ [SearchHistoryNext]_searchHistoryVars => HistoryInv'
<1> SUFFICES ASSUME HistoryInv, [SearchHistoryNext]_searchHistoryVars PROVE HistoryInv'
  OBVIOUS
<1>1. ASSUME NEW r \in HistoryRequests,
             \/ FlushHistory(r) \/ DropSearch(r) \/ MissHistory(r) \/ FailHistory(r)
      PROVE  HistoryInv'
  BY <1>1, OtherStep DEF FlushHistory, DropSearch, MissHistory, FailHistory
<1>2. ASSUME NEW r \in HistoryRequests, CommitHistory(r) PROVE HistoryInv'
  BY <1>2, CommitKeepsInv DEF CommitHistory
<1>3. ASSUME NEW r \in HistoryRequests, FindHistory(r) PROVE HistoryInv'
  BY <1>3, FindKeepsInv DEF FindHistory
<1>4. CASE UNCHANGED searchHistoryVars
  BY <1>4 DEF searchHistoryVars, HistoryInv, SearchHistoryTypeOK, HistoryIsTheUsers, RowsArePosted
<1> QED BY <1>1, <1>2, <1>3, <1>4, RemoveKeepsInv DEF SearchHistoryNext

\* The histories' rows, types and answers stay in order.
THEOREM HistoryInvariance == SearchHistorySpec => []HistoryInv
BY InitHistoryInv, StepHistoryInv, PTL DEF SearchHistorySpec

(***************************************************************************)
(* A saved row stays until its user removes it, a removed one stays away,  *)
(* and searching leaves none, whichever requests fail on the way.          *)
(***************************************************************************)
THEOREM HistoryKept == SearchHistorySpec => []HistoryIsTheUsers
<1>1. HistoryInv => HistoryIsTheUsers
  BY DEF HistoryInv
<1> QED BY <1>1, HistoryInvariance, PTL
=============================================================================
