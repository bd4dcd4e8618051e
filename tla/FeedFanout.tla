----------------------------- MODULE FeedFanout -----------------------------
(***************************************************************************)
(* The announcement of one article's first publication to those who follow *)
(* its topics or sources (packages/core/src/feed_notifications.py).  The   *)
(* audience is not stored: every tick of the scheduler computes it anew    *)
(* and inserts one page of deliveries after a cursor, while users follow   *)
(* and unfollow, topics are archived and the article is withdrawn.         *)
(*                                                                         *)
(* Leases and retries of a delivery are the subject of                     *)
(* NotificationDelivery; here a claimed delivery ends in any way.          *)
(***************************************************************************)
EXTENDS Naturals, FiniteSets

CONSTANTS
    Users,          \* user ids, compared by the page order
    Subjects,       \* topics and sources of the article
    Batch,          \* recipients of one page
    MaxChanges      \* bound: changes by users, editors and time

ASSUME FanoutAssumption ==
    /\ Users \subseteq Nat \ {0} /\ IsFiniteSet(Users)
    /\ Batch \in Nat \ {0} /\ MaxChanges \in Nat

VARIABLES
    article,    \* whether it is shown, was announced, and is 28 days past that
    listed,     \* the subjects in force: active or approved, and of the article
    follows,    \* when each user began to follow each subject, if at all
    event,      \* FeedNotificationEvent
    rows,       \* the NotificationDelivery of each user
    history,    \* who followed at the announcement, and who still does
    changes

vars == <<article, listed, follows, event, rows, history, changes>>

NoEvent == [status |-> "none", subjects |-> {}, cursor |-> 0]

Init ==
    /\ article = [shown |-> FALSE, announced |-> FALSE, aged |-> FALSE]
    /\ listed = Subjects
    /\ follows \in [Users -> [Subjects -> {"none", "early"}]]
    /\ event = NoEvent
    /\ rows = [u \in Users |-> "none"]
    /\ history = [first |-> {}, steady |-> {}]
    /\ changes = 0

\* Mutant: follows that began after the publication count as well.
AnyFollower(subjects, follow) == {u \in Users : \E s \in subjects : follow[u][s] # "none"}

\* recipient_ids without its joins: who follows one of these subjects since
\* before the publication.
Followers(subjects, follow) == {u \in Users : \E s \in subjects : follow[u][s] = "early"}

Audience == Followers(event.subjects \cap listed, follows)

\* What the history keeps of those who followed at the announcement.
Steady(kept, follow) == history.steady \cap Followers(event.subjects \cap kept, follow)

Change ==
    /\ changes < MaxChanges
    /\ changes' = changes + 1

-----------------------------------------------------------------------------

\* decide_article's first publication and record_publication within it.
Publish ==
    /\ ~article.announced
    /\ article' = [article EXCEPT !.shown = TRUE, !.announced = TRUE]
    /\ event' = IF listed = {} THEN NoEvent
                ELSE [status |-> "open", subjects |-> listed, cursor |-> 0]
    /\ history' = [first |-> Followers(listed, follows), steady |-> Followers(listed, follows)]
    /\ UNCHANGED <<listed, follows, rows, changes>>

\* Withdrawn or published once more; the second time announces nothing.
ShowOrHide ==
    /\ article.announced /\ Change
    /\ article' = [article EXCEPT !.shown = ~@]
    /\ UNCHANGED <<listed, follows, event, rows, history>>

Follow(u, s) ==
    /\ follows[u][s] = "none" /\ Change
    /\ follows' = [follows EXCEPT ![u][s] = IF article.announced THEN "late" ELSE "early"]
    /\ UNCHANGED <<article, listed, event, rows, history>>

Unfollow(u, s) ==
    /\ follows[u][s] # "none" /\ Change
    /\ follows' = [follows EXCEPT ![u][s] = "none"]
    /\ history' = [history EXCEPT !.steady = Steady(listed, follows')]
    /\ UNCHANGED <<article, listed, event, rows>>

\* A topic is archived or restored, a source withdrawn or approved, a topic
\* taken off the article or put back.
Relist(s) ==
    /\ Change
    /\ listed' = IF s \in listed THEN listed \ {s} ELSE listed \cup {s}
    /\ history' = [history EXCEPT !.steady = Steady(listed', follows)]
    /\ UNCHANGED <<article, follows, event, rows>>

Age ==
    /\ event.status = "open" /\ ~article.aged /\ Change
    /\ article' = [article EXCEPT !.aged = TRUE]
    /\ UNCHANGED <<listed, follows, event, rows, history>>

-----------------------------------------------------------------------------

\* ORDER BY user id LIMIT batch.
IsPage(page, candidates) ==
    /\ page \subseteq candidates /\ Cardinality(page) <= Batch
    /\ \A u \in page, v \in candidates \ page : u < v
    /\ Cardinality(page) < Batch => page = candidates

\* Mutant: the cursor stays where it is and the unique key hides it.
SameCursor(page) == {event.cursor}

\* The id of the page's last user, as a singleton.
NextCursor(page) ==
    IF page = {} THEN {event.cursor} ELSE {u \in page : \A v \in page : v <= u}

\* Mutant: the page is the next in number, whoever has left before it.
PageByOffset ==
    {u \in Audience : Cardinality({v \in Audience : v < u})
                          >= Cardinality({v \in Users : rows[v] # "none"})}

Candidates == {u \in Audience : u > event.cursor}

\* expand_feed_notifications: a page of deliveries, the cursor and the end of
\* the event in one transaction; the code has one mark for both ends.
Expand ==
    /\ event.status = "open"
    /\ \/ /\ ~article.shown \/ article.aged
          /\ event' = [event EXCEPT !.status = "withdrawn"]
          /\ UNCHANGED rows
       \/ /\ article.shown /\ ~article.aged
          /\ \E page \in SUBSET Candidates : \E last \in NextCursor(page) :
                /\ IsPage(page, Candidates)
                /\ rows' = [u \in Users |-> IF u \in page /\ rows[u] = "none"
                                            THEN "queued" ELSE rows[u]]
                /\ event' = [event EXCEPT !.cursor = last,
                                          !.status = IF Cardinality(page) < Batch
                                                     THEN "exhausted" ELSE @]
    /\ UNCHANGED <<article, listed, follows, history, changes>>

\* _deliver asks again whether the delivery is still current.
Claim(u) ==
    /\ rows[u] = "queued"
    /\ rows' = [rows EXCEPT ![u] = IF u \in Audience /\ article.shown
                                   THEN "claimed" ELSE "skipped"]
    /\ UNCHANGED <<article, listed, follows, event, history, changes>>

\* Sent, to be tried again, or given up.
Settle(u) ==
    /\ rows[u] = "claimed"
    /\ rows' \in {[rows EXCEPT ![u] = end] : end \in {"sent", "queued", "failed"}}
    /\ UNCHANGED <<article, listed, follows, event, history, changes>>

Next ==
    \/ Publish \/ ShowOrHide \/ Age \/ Expand
    \/ \E u \in Users, s \in Subjects : Follow(u, s) \/ Unfollow(u, s)
    \/ \E s \in Subjects : Relist(s)
    \/ \E u \in Users : Claim(u) \/ Settle(u)

Spec == Init /\ [][Next]_vars

\* The scheduler's tick comes round.
Fairness == WF_vars(Expand)

FairSpec == Spec /\ Fairness

-----------------------------------------------------------------------------

TypeOK ==
    /\ article \in [shown : BOOLEAN, announced : BOOLEAN, aged : BOOLEAN]
    /\ listed \in SUBSET Subjects
    /\ follows \in [Users -> [Subjects -> {"none", "early", "late"}]]
    /\ event \in [status : {"none", "open", "exhausted", "withdrawn"},
                  subjects : SUBSET Subjects, cursor : Users \cup {0}]
    /\ rows \in [Users -> {"none", "queued", "claimed", "sent", "skipped", "failed"}]
    /\ history \in [first : SUBSET Users, steady : SUBSET Users]
    /\ changes \in Nat

\* Nobody is skipped between two pages: when the audience is exhausted, every
\* user who followed at the publication and ever since has a delivery, however
\* many others came and went meanwhile (recipient_cursor).
NoFollowerSkipped ==
    event.status = "exhausted" => \A u \in history.steady : rows[u] # "none"

\* Only existing followers are told: whoever began, or began again, to follow
\* after the publication is not, at whichever tick their page is computed
\* (the module's promise, recipient_ids).
ExistingFollowersOnly == \A u \in Users : rows[u] # "none" => u \in history.first

\* Expansion ends, though followers change between the pages.
ExpansionEnds == event.status = "open" ~> event.status # "open"

=============================================================================
