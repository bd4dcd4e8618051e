-------------------------- MODULE FeedFanout_proofs --------------------------
(***************************************************************************)
(* FeedFanout's type invariant and its two promises, for any users, any    *)
(* page size and any number of changes.                                    *)
(*                                                                         *)
(* That nobody is skipped is not inductive: a page only adds the users     *)
(* after the cursor, so the invariant must say that everyone up to the     *)
(* cursor who stayed has been served (ServedToCursor), and that whoever    *)
(* stayed is in today's audience (SteadyInAudience).  That only existing   *)
(* followers are told needs that those who now follow since before the     *)
(* publication followed then (NoNewEarlyFollower).                         *)
(***************************************************************************)
EXTENDS FeedFanout, TLAPS

\* Whoever stayed is in the audience a page is computed from.
SteadyInAudience == event.status # "none" => history.steady \subseteq Audience

\* Everyone who stayed and comes before the cursor has a delivery.
ServedToCursor ==
    event.status # "none" =>
        \A u \in Users : (u \in history.steady /\ u <= event.cursor) => rows[u] # "none"

\* No one comes to follow since before the publication once it happened.
NoNewEarlyFollower ==
    article.announced => Followers(event.subjects, follows) \subseteq history.first

\* Nothing is announced, and no one told, before the publication.
QuietBefore ==
    ~article.announced =>
        /\ event = NoEvent
        /\ \A u \in Users : rows[u] = "none"

IInv ==
    /\ TypeOK
    /\ SteadyInAudience
    /\ ServedToCursor
    /\ NoNewEarlyFollower
    /\ QuietBefore
    /\ NoFollowerSkipped
    /\ ExistingFollowersOnly

\* Following less or fewer subjects in force only shrinks the audience.
LEMMA FollowersMonotone ==
    ASSUME NEW S, NEW T, S \subseteq T, NEW follow
    PROVE  Followers(S, follow) \subseteq Followers(T, follow)
BY DEF Followers

LEMMA InitIInv == Init => IInv
BY DEF Init, IInv, TypeOK, SteadyInAudience, ServedToCursor, NoNewEarlyFollower, QuietBefore,
       NoFollowerSkipped, ExistingFollowersOnly, NoEvent

\* The publication: the event's audience is the followers of this moment.
LEMMA PublishStep ==
    ASSUME IInv, Publish
    PROVE  IInv'
<1>1. TypeOK'
  BY DEF IInv, TypeOK, Publish, NoEvent, Followers
<1>2. SteadyInAudience'
  <2>1. CASE listed = {}
    BY <2>1 DEF Publish, SteadyInAudience, NoEvent
  <2>2. CASE listed # {}
    <3>1. event'.subjects \cap listed' = listed
      BY <2>2 DEF Publish
    <3>2. follows' = follows /\ history'.steady = Followers(listed, follows)
      BY DEF Publish
    <3> QED BY <3>1, <3>2 DEF SteadyInAudience, Audience, Followers
  <2> QED BY <2>1, <2>2
<1>3. ServedToCursor'
  <2>1. event'.cursor = 0
    BY DEF Publish, NoEvent
  <2> QED BY <2>1, FanoutAssumption DEF ServedToCursor
<1>4. NoNewEarlyFollower'
  <2>1. event'.subjects \subseteq listed
    BY DEF Publish, NoEvent
  <2>2. follows' = follows /\ history'.first = Followers(listed, follows)
    BY DEF Publish
  <2> QED BY <2>1, <2>2, FollowersMonotone DEF NoNewEarlyFollower, Followers
<1>5. QuietBefore'
  BY DEF IInv, TypeOK, Publish, QuietBefore
<1>6. NoFollowerSkipped' /\ ExistingFollowersOnly'
  BY DEF IInv, QuietBefore, Publish, NoFollowerSkipped, ExistingFollowersOnly, NoEvent
<1> QED BY <1>1, <1>2, <1>3, <1>4, <1>5, <1>6 DEF IInv

\* The article is shown, hidden or gets old: nothing else is touched.
LEMMA ArticleStep ==
    ASSUME IInv, ShowOrHide \/ Age
    PROVE  IInv'
<1>1. UNCHANGED <<listed, follows, event, rows, history>>
  BY DEF ShowOrHide, Age
<1>2. article'.announced = article.announced
  BY DEF IInv, TypeOK, ShowOrHide, Age
<1>3. TypeOK'
  <2>1. article' \in [shown : BOOLEAN, announced : BOOLEAN, aged : BOOLEAN]
    <3>1. article \in [shown : BOOLEAN, announced : BOOLEAN, aged : BOOLEAN]
      BY DEF IInv, TypeOK
    <3>2. CASE ShowOrHide
      BY <3>1, <3>2, Zenon DEF ShowOrHide
    <3>3. CASE Age
      BY <3>1, <3>3 DEF Age
    <3> QED BY <3>2, <3>3
  <2>2. changes' \in Nat
    BY DEF IInv, TypeOK, ShowOrHide, Age, Change
  <2> QED BY <1>1, <2>1, <2>2 DEF IInv, TypeOK
<1>4. SteadyInAudience' /\ ServedToCursor'
  BY <1>1 DEF IInv, SteadyInAudience, ServedToCursor, Audience, Followers
<1>5. NoNewEarlyFollower' /\ QuietBefore'
  BY <1>1, <1>2 DEF IInv, NoNewEarlyFollower, QuietBefore, Followers
<1>6. NoFollowerSkipped' /\ ExistingFollowersOnly'
  BY <1>1 DEF IInv, NoFollowerSkipped, ExistingFollowersOnly
<1> QED BY <1>3, <1>4, <1>5, <1>6 DEF IInv

\* A follow begins: after the publication it is a late one.
LEMMA FollowStep ==
    ASSUME IInv, NEW u \in Users, NEW s \in Subjects, Follow(u, s)
    PROVE  IInv'
<1>1. UNCHANGED <<article, listed, event, rows, history>>
  BY DEF Follow
<1>2. TypeOK'
  BY DEF IInv, TypeOK, Follow, Change
<1>3. \A v \in Users, x \in Subjects : follows[v][x] = "early" => follows'[v][x] = "early"
  BY DEF IInv, TypeOK, Follow
<1>4. article.announced =>
        \A v \in Users, x \in Subjects : follows'[v][x] = "early" => follows[v][x] = "early"
  BY DEF IInv, TypeOK, Follow
<1>5. SteadyInAudience'
  BY <1>1, <1>3 DEF IInv, TypeOK, SteadyInAudience, Audience, Followers
<1>6. NoNewEarlyFollower'
  BY <1>1, <1>4 DEF IInv, TypeOK, NoNewEarlyFollower, Followers
<1>7. ServedToCursor' /\ QuietBefore' /\ NoFollowerSkipped' /\ ExistingFollowersOnly'
  BY <1>1 DEF IInv, ServedToCursor, QuietBefore, NoFollowerSkipped, ExistingFollowersOnly
<1> QED BY <1>2, <1>5, <1>6, <1>7 DEF IInv

\* A follow ends: the audience shrinks, and with it who stayed.
LEMMA UnfollowStep ==
    ASSUME IInv, NEW u \in Users, NEW s \in Subjects, Unfollow(u, s)
    PROVE  IInv'
<1>1. UNCHANGED <<article, listed, event, rows>>
  BY DEF Unfollow
<1>2. /\ history'.first = history.first
      /\ history'.steady = history.steady \cap Followers(event.subjects \cap listed, follows')
  BY DEF IInv, TypeOK, Unfollow, Steady
<1>3. TypeOK'
  BY DEF IInv, TypeOK, Unfollow, Change, Steady
<1>4. \A v \in Users, x \in Subjects : follows'[v][x] = "early" => follows[v][x] = "early"
  BY DEF IInv, TypeOK, Unfollow
<1>5. SteadyInAudience'
  BY <1>1, <1>2 DEF SteadyInAudience, Audience
<1>6. NoNewEarlyFollower'
  BY <1>1, <1>2, <1>4 DEF IInv, TypeOK, NoNewEarlyFollower, Followers
<1>7. ServedToCursor' /\ NoFollowerSkipped'
  BY <1>1, <1>2 DEF IInv, ServedToCursor, NoFollowerSkipped
<1>8. QuietBefore' /\ ExistingFollowersOnly'
  BY <1>1, <1>2 DEF IInv, QuietBefore, ExistingFollowersOnly
<1> QED BY <1>3, <1>5, <1>6, <1>7, <1>8 DEF IInv

\* A subject leaves or enters force: who stayed is computed under both.
LEMMA RelistStep ==
    ASSUME IInv, NEW s \in Subjects, Relist(s)
    PROVE  IInv'
<1>1. UNCHANGED <<article, follows, event, rows>>
  BY DEF Relist
<1>2. /\ history'.first = history.first
      /\ history'.steady = history.steady \cap Followers(event.subjects \cap listed', follows)
  BY DEF IInv, TypeOK, Relist, Steady
<1>3. TypeOK'
  BY DEF IInv, TypeOK, Relist, Change, Steady
<1>4. SteadyInAudience'
  BY <1>1, <1>2 DEF SteadyInAudience, Audience
<1>5. NoNewEarlyFollower'
  BY <1>1, <1>2 DEF IInv, NoNewEarlyFollower, Followers
<1>6. ServedToCursor' /\ NoFollowerSkipped'
  BY <1>1, <1>2 DEF IInv, ServedToCursor, NoFollowerSkipped
<1>7. QuietBefore' /\ ExistingFollowersOnly'
  BY <1>1, <1>2 DEF IInv, QuietBefore, ExistingFollowersOnly
<1> QED BY <1>3, <1>4, <1>5, <1>6, <1>7 DEF IInv

\* A tick: the event ends without a page, or one page is served.
LEMMA ExpandStep ==
    ASSUME IInv, Expand
    PROVE  IInv'
<1>1. UNCHANGED <<article, listed, follows, history>>
  BY DEF Expand
<1>2. CASE event' = [event EXCEPT !.status = "withdrawn"] /\ UNCHANGED rows
  <2>1. TypeOK'
    BY <1>1, <1>2 DEF IInv, TypeOK, Expand
  <2>2. /\ event'.subjects = event.subjects /\ event'.cursor = event.cursor
        /\ event'.status = "withdrawn" /\ event.status = "open"
    BY <1>2 DEF IInv, TypeOK, Expand
  <2>3. SteadyInAudience' /\ ServedToCursor'
    <3>1. SteadyInAudience'
      BY <1>1, <2>2 DEF IInv, SteadyInAudience, Audience, Followers
    <3>2. ServedToCursor'
      BY <1>1, <1>2, <2>2 DEF IInv, ServedToCursor
    <3> QED BY <3>1, <3>2
  <2>4. NoNewEarlyFollower' /\ NoFollowerSkipped' /\ ExistingFollowersOnly'
    BY <1>1, <1>2, <2>2 DEF IInv, NoNewEarlyFollower, NoFollowerSkipped,
                            ExistingFollowersOnly, Followers
  <2>5. QuietBefore'
    BY <1>1, <2>2 DEF IInv, QuietBefore, NoEvent
  <2> QED BY <2>1, <2>3, <2>4, <2>5 DEF IInv
<1>3. ASSUME NEW page \in SUBSET Candidates, NEW last \in NextCursor(page),
             IsPage(page, Candidates),
             rows' = [u \in Users |-> IF u \in page /\ rows[u] = "none"
                                      THEN "queued" ELSE rows[u]],
             event' = [event EXCEPT !.cursor = last,
                                    !.status = IF Cardinality(page) < Batch
                                               THEN "exhausted" ELSE @]
      PROVE  IInv'
  <2>1. page \subseteq Users
    BY <1>3 DEF Candidates, Audience, Followers
  <2>2. last \in Users \cup {0}
    BY <1>3, <2>1 DEF NextCursor, IInv, TypeOK
  <2>3. /\ event'.subjects = event.subjects /\ event'.cursor = last
        /\ event'.status \in {event.status, "exhausted"}
        /\ event'.status # event.status => Cardinality(page) < Batch
        /\ event.status = "open"
    BY <1>3 DEF IInv, TypeOK, Expand
  <2>4. \A u \in Users : /\ rows[u] # "none" => rows'[u] = rows[u]
                         /\ u \in page => rows'[u] # "none"
                         /\ u \notin page => rows'[u] = rows[u]
    BY <1>3 DEF IInv, TypeOK
  <2>5. TypeOK'
    BY <1>1, <1>3, <2>2, <2>3 DEF IInv, TypeOK, Expand
  <2>6. SteadyInAudience'
    BY <1>1, <2>3 DEF IInv, SteadyInAudience, Audience, Followers
  <2>7. history.steady \subseteq Audience
    BY <2>3 DEF IInv, SteadyInAudience
  <2>8. event.cursor \in Users \cup {0}
    BY DEF IInv, TypeOK
  <2>9. \A n \in Users \cup {0} : n \in Nat
    BY FanoutAssumption
  <2>10. ServedToCursor'
    <3> SUFFICES ASSUME NEW u \in Users, u \in history.steady, u <= last
                 PROVE  rows'[u] # "none"
      BY <1>1, <2>3 DEF ServedToCursor
    <3>1. u \in Nat /\ last \in Nat /\ event.cursor \in Nat
      BY <2>2, <2>8, <2>9, Zenon
    <3>2. CASE u <= event.cursor
      BY <2>3, <2>4, <3>2 DEF IInv, ServedToCursor
    <3>3. CASE ~(u <= event.cursor)
      <4>1. u \in Candidates
        BY <2>7, <3>1, <3>3 DEF Candidates
      <4>2. page # {} /\ last \in page
        BY <1>3, <3>3 DEF NextCursor
      <4>3. u \in page
        BY <1>3, <3>1, <4>1, <4>2 DEF IsPage
      <4> QED BY <2>4, <4>3
    <3> QED BY <3>2, <3>3
  <2>11. NoFollowerSkipped'
    <3> SUFFICES ASSUME event'.status = "exhausted", NEW u \in history.steady
                 PROVE  rows'[u] # "none"
      BY <1>1 DEF NoFollowerSkipped
    <3>1. u \in Users
      BY DEF IInv, TypeOK
    <3>2. u \in Nat /\ event.cursor \in Nat
      BY <2>8, <2>9, <3>1, Zenon
    <3>3. Cardinality(page) < Batch
      BY <2>3
    <3>4. page = Candidates
      BY <1>3, <3>3 DEF IsPage
    <3>5. CASE u <= event.cursor
      BY <2>3, <2>4, <3>1, <3>5 DEF IInv, ServedToCursor
    <3>6. CASE ~(u <= event.cursor)
      <4>1. u \in page
        BY <2>7, <3>4, <3>6, <3>2 DEF Candidates
      <4> QED BY <2>4, <3>1, <4>1
    <3> QED BY <3>5, <3>6
  <2>12. article.announced
    BY <2>3 DEF IInv, QuietBefore, NoEvent
  <2>13. ExistingFollowersOnly'
    <3>1. page \subseteq history.first
      BY <1>3, <2>12, FollowersMonotone
         DEF IInv, NoNewEarlyFollower, Candidates, Audience, Followers
    <3> QED BY <1>1, <2>4, <3>1 DEF IInv, ExistingFollowersOnly
  <2>14. NoNewEarlyFollower' /\ QuietBefore'
    BY <1>1, <2>3, <2>12 DEF IInv, NoNewEarlyFollower, QuietBefore, Followers
  <2> QED BY <2>5, <2>6, <2>10, <2>11, <2>13, <2>14 DEF IInv
<1> QED BY <1>2, <1>3 DEF Expand

\* A delivery goes its way: a row that exists goes on existing.
LEMMA DeliveryStep ==
    ASSUME IInv, NEW u \in Users, Claim(u) \/ Settle(u)
    PROVE  IInv'
<1>1. UNCHANGED <<article, listed, follows, event, history>>
  BY DEF Claim, Settle
<1>2. rows[u] # "none"
  BY DEF Claim, Settle
<1>3. \A v \in Users : rows'[v] = "none" <=> rows[v] = "none"
  BY <1>2 DEF IInv, TypeOK, Claim, Settle
<1>4. TypeOK'
  BY DEF IInv, TypeOK, Claim, Settle
<1>5. SteadyInAudience' /\ NoNewEarlyFollower'
  BY <1>1 DEF IInv, SteadyInAudience, NoNewEarlyFollower, Audience, Followers
<1>6. ServedToCursor' /\ ExistingFollowersOnly'
  BY <1>1, <1>3 DEF IInv, ServedToCursor, ExistingFollowersOnly
<1>7. QuietBefore'
  BY <1>1, <1>3 DEF IInv, QuietBefore
<1>8. NoFollowerSkipped'
  BY <1>1, <1>3 DEF IInv, TypeOK, NoFollowerSkipped
<1> QED BY <1>4, <1>5, <1>6, <1>7, <1>8 DEF IInv

LEMMA StutterStep ==
    ASSUME IInv, UNCHANGED vars
    PROVE  IInv'
BY DEF IInv, vars, TypeOK, SteadyInAudience, ServedToCursor, NoNewEarlyFollower, QuietBefore,
       NoFollowerSkipped, ExistingFollowersOnly, Audience, Followers

\* The inductive invariant behind the three theorems.
THEOREM Invariance == Spec => []IInv
<1>1. IInv /\ [Next]_vars => IInv'
  <2> SUFFICES ASSUME IInv, [Next]_vars PROVE IInv'
    OBVIOUS
  <2>1. CASE Publish \/ ShowOrHide \/ Age \/ Expand
    BY <2>1, PublishStep, ArticleStep, ExpandStep
  <2>2. CASE \E u \in Users, s \in Subjects : Follow(u, s) \/ Unfollow(u, s)
    BY <2>2, FollowStep, UnfollowStep
  <2>3. CASE \E s \in Subjects : Relist(s)
    BY <2>3, RelistStep
  <2>4. CASE \E u \in Users : Claim(u) \/ Settle(u)
    BY <2>4, DeliveryStep
  <2>5. CASE UNCHANGED vars
    BY <2>5, StutterStep
  <2> QED BY <2>1, <2>2, <2>3, <2>4, <2>5 DEF Next
<1> QED BY <1>1, InitIInv, PTL DEF Spec

\* The variables keep their types.
THEOREM TypeCorrect == Spec => []TypeOK
<1>1. IInv => TypeOK
  BY DEF IInv
<1> QED BY <1>1, Invariance, PTL

\* Nobody who stayed is skipped between two pages, whatever the page size and
\* however many others come and go (expand_feed_notifications).
THEOREM NobodySkipped == Spec => []NoFollowerSkipped
<1>1. IInv => NoFollowerSkipped
  BY DEF IInv
<1> QED BY <1>1, Invariance, PTL

\* Only those who followed at the publication are told (recipient_ids).
THEOREM OnlyExistingFollowers == Spec => []ExistingFollowersOnly
<1>1. IInv => ExistingFollowersOnly
  BY DEF IInv
<1> QED BY <1>1, Invariance, PTL

=============================================================================
