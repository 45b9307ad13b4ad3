------------------------------ MODULE Outreach -------------------------------
(***************************************************************************)
(* The outreach runtime of packages/outreach for one tenant: contacts with *)
(* consent and suppression, deduplicated messages, follow-ups, and the     *)
(* pass over the queue that sends, retries, dead-letters or skips.  Every  *)
(* exported operation is synchronous, so each is one action.  A message    *)
(* stands for what its dedupe key holds: template, contact, channel and    *)
(* campaign.  Time is counted in ticks; an hour is Hour ticks, a day Day.  *)
(* processQueue may be told the time: here it is told the clock's.         *)
(***************************************************************************)
EXTENDS Integers, SequencesExt

CONSTANTS
    Messages,         \* what can be sent
    ContactOf,        \* the contact a message addresses
    ChannelOf,        \* the channel it takes
    SendAttempts,     \* bound on the attempts that are enqueued
    FollowUpLimit,    \* bound on the follow-ups that are scheduled
    Hour, Day,        \* ticks of an hour and of a day
    QuietStart, QuietEnd,
    SendTries,        \* maxAttempts
    DailyBudget,      \* dailyBudgetPerChannel
    HourlyCap,        \* hourlySendCapPerContact
    Retention,        \* dedupeRetentionMs, in ticks
    OutreachEnd       \* bound on the clock

\* createOutreachRuntime refuses other settings; caps and budgets are counts.
ASSUME OutreachAssumption ==
    /\ Hour \in Nat \ {0} /\ Day \in Nat \ {0} /\ SendTries \in Nat \ {0}
    /\ DailyBudget \in Nat /\ HourlyCap \in Nat /\ Retention \in Nat /\ OutreachEnd \in Nat
    /\ SendAttempts \in Nat

Contacts == {ContactOf[m] : m \in Messages}
Channels == {ChannelOf[m] : m \in Messages}
Days == {t \div Day : t \in 0..OutreachEnd}   \* utcDay of each tick

VARIABLES
    contacts,    \* tenant.contacts
    attempts,    \* tenant.attempts, in creation order
    dedupe,      \* tenant.dedupe: the attempt a message's key names, or 0
    followUps,   \* tenant.followUps
    channelBudget, \* by channel and day
    sendLog,     \* sendLog: [nth, at] of what each contact was sent within the hour
    hour,        \* the clock, in ticks
    optedOut,    \* history: contacts that were ever suppressed
    refused,     \* history: contacts whose last word on consent was no
    sends        \* history: every call of the transport

outreachVars == <<contacts, attempts, dedupe, followUps, channelBudget, sendLog, hour,
                  optedOut, refused, sends>>

Settled == {"sent", "dead_letter", "skipped_suppressed", "skipped_budget",
            "skipped_guardrail"}

OutreachInit ==
    /\ contacts = [c \in Contacts |->
         [known |-> FALSE, granted |-> FALSE, suppressed |-> FALSE, channels |-> {}]]
    /\ attempts = <<>>
    /\ dedupe = [m \in Messages |-> 0]
    /\ followUps = <<>>
    /\ channelBudget = [k \in Channels \X Days |-> 0]
    /\ sendLog = [c \in Contacts |-> {}]
    /\ hour = 0
    /\ optedOut = {}
    /\ refused = {}
    /\ sends = <<>>

-----------------------------------------------------------------------------
(* Contacts.                                                               *)

\* A contact's last word on consent, whoever brings it.
Refusing(c, granted) == IF granted THEN refused \ {c} ELSE refused \cup {c}

\* (mutation) A new import of a contact forgets that it was suppressed.
upsertContactAnew(c, granted, channels) ==
    /\ contacts' = [contacts EXCEPT ![c] =
         [known |-> TRUE, granted |-> granted, suppressed |-> FALSE, channels |-> channels]]
    /\ refused' = Refusing(c, granted)
    /\ UNCHANGED <<attempts, dedupe, followUps, channelBudget, sendLog, hour, optedOut, sends>>

\* Consent and channels are overwritten, suppression is kept.
upsertContact(c, granted, channels) ==
    /\ contacts' = [contacts EXCEPT ![c] =
         [known |-> TRUE, granted |-> granted, suppressed |-> @.suppressed, channels |-> channels]]
    /\ refused' = Refusing(c, granted)
    /\ UNCHANGED <<attempts, dedupe, followUps, channelBudget, sendLog, hour, optedOut, sends>>

suppress(c) ==
    /\ contacts[c].known
    /\ contacts' = [contacts EXCEPT ![c].suppressed = TRUE]
    /\ optedOut' = optedOut \cup {c}
    /\ UNCHANGED <<attempts, dedupe, followUps, channelBudget, sendLog, hour, refused, sends>>

setConsent(c, granted) ==
    /\ contacts[c].known
    /\ contacts' = [contacts EXCEPT ![c].granted = granted]
    /\ refused' = Refusing(c, granted)
    /\ UNCHANGED <<attempts, dedupe, followUps, channelBudget, sendLog, hour, optedOut, sends>>

-----------------------------------------------------------------------------
(* Enqueue and follow-ups.                                                 *)

Reachable(m) ==
    contacts[ContactOf[m]].known /\ ChannelOf[m] \in contacts[ContactOf[m]].channels

\* (mutation) An attempt that has come to an end gives its key back.
PrunedSettled(d, atts) ==
    [m \in Messages |-> IF d[m] # 0 /\ atts[d[m]].state \notin Settled THEN d[m] ELSE 0]

\* pruneDedupe: keys older than the retention are forgotten, whatever became
\* of their attempts.
Pruned(d, atts) ==
    [m \in Messages |-> IF d[m] # 0 /\ hour - atts[d[m]].created <= Retention THEN d[m] ELSE 0]

\* enqueueInternal on a reachable contact: the attempt a live key names, or a
\* new one.  q is the part of the state it may change.
Enqueued(q, m, due) ==
    LET live == Pruned(q.dedupe, q.attempts) IN
    IF live[m] # 0 THEN [q EXCEPT !.dedupe = live]
    ELSE [attempts |-> Append(q.attempts,
            [message |-> m, state |-> "queued", tries |-> 0, created |-> hour,
             due |-> due, settled |-> 0, replied |-> FALSE]),
          dedupe |-> [live EXCEPT ![m] = Len(q.attempts) + 1],
          followUps |-> q.followUps]

Queues == [attempts |-> attempts, dedupe |-> dedupe, followUps |-> followUps]

enqueueMessage(m, due) ==
    /\ Reachable(m)
    /\ Len(attempts) < SendAttempts
    /\ LET q == Enqueued(Queues, m, due) IN attempts' = q.attempts /\ dedupe' = q.dedupe
    /\ UNCHANGED <<contacts, followUps, channelBudget, sendLog, hour, optedOut, refused, sends>>

\* A follow-up goes to its parent's contact, whose reply calls it off.
scheduleFollowUp(i, m, delay) ==
    /\ Len(followUps) < FollowUpLimit
    /\ ContactOf[m] = ContactOf[attempts[i].message]
    /\ followUps' = Append(followUps,
         [parent |-> i, message |-> m, delay |-> delay, state |-> "contingent"])
    /\ UNCHANGED <<contacts, attempts, dedupe, channelBudget, sendLog, hour, optedOut, refused, sends>>

Becoming(q, f, state) ==
    [q EXCEPT !.followUps = [q.followUps EXCEPT ![f] = [q.followUps[f] EXCEPT !.state = state]]]

\* One step of materializeFollowUps.  A key that is still live "materialises"
\* the attempt that exists already.
Materialized(q, f) ==
    LET up == q.followUps[f]
        parent == q.attempts[up.parent]
    IN
    IF up.state # "contingent" \/ parent.state \notin Settled THEN q
    ELSE IF parent.replied THEN Becoming(q, f, "not_met")
    ELSE IF hour < parent.settled + up.delay * Hour THEN q
    ELSE IF Reachable(up.message) THEN Becoming(Enqueued(q, up.message, 0), f, "materialized")
    ELSE Becoming(q, f, "cancelled")

\* materializeFollowUps: one after the other, in creation order.
materializeFollowUps ==
    LET done[f \in 0..Len(followUps)] ==
          IF f = 0 THEN Queues ELSE Materialized(done[f - 1], f)
    IN done[Len(followUps)]

-----------------------------------------------------------------------------
(* The pass over the queue.                                                *)

IsQuiet ==
    LET h == (hour % Day) \div Hour IN
    IF QuietStart > QuietEnd THEN h >= QuietStart \/ h < QuietEnd
    ELSE h >= QuietStart /\ h < QuietEnd

\* (mutation) The log keeps the last send only.
RecentLast(log) == {e \in log : e.at > hour - Hour /\ \A other \in log : other.nth <= e.nth}

\* The sends of the last hour.
Recent(log) == {e \in log : e.at > hour - Hour}

\* (mutation) Consent is asked for when a message is enqueued only.
VerdictUnasked(s, a) ==
    LET c == ContactOf[a.message] IN
    IF contacts[c].suppressed THEN "skipped_suppressed"
    ELSE IF IsQuiet THEN "queued"
    ELSE IF s.budget[<<ChannelOf[a.message], hour \div Day>>] >= DailyBudget THEN "skipped_budget"
    ELSE IF Cardinality(Recent(s.sendLog[c])) >= HourlyCap THEN "skipped_guardrail"
    ELSE "sending"

\* (mutation) The budget of the day is not asked for.
VerdictFree(s, a) ==
    LET c == ContactOf[a.message] IN
    IF contacts[c].suppressed \/ ~contacts[c].granted THEN "skipped_suppressed"
    ELSE IF IsQuiet THEN "queued"
    ELSE IF Cardinality(Recent(s.sendLog[c])) >= HourlyCap THEN "skipped_guardrail"
    ELSE "sending"

\* Why a due attempt is not sent now, in the order the code asks.
Verdict(s, a) ==
    LET c == ContactOf[a.message] IN
    IF contacts[c].suppressed \/ ~contacts[c].granted THEN "skipped_suppressed"
    ELSE IF IsQuiet THEN "queued"
    ELSE IF s.budget[<<ChannelOf[a.message], hour \div Day>>] >= DailyBudget THEN "skipped_budget"
    ELSE IF Cardinality(Recent(s.sendLog[c])) >= HourlyCap THEN "skipped_guardrail"
    ELSE "sending"

\* (mutation) The count is compared before it is raised.
AfterFailureLate(tries) == IF tries > SendTries THEN "dead_letter" ELSE "queued"

AfterFailure(tries) == IF tries >= SendTries THEN "dead_letter" ELSE "queued"

\* transitionAttempt.
Transitioned(a, next) ==
    [a EXCEPT !.state = next, !.settled = IF next \in Settled THEN hour ELSE a.settled]

\* A send is counted against cap and budget before the transport is called.
Sent(s, i, ok) ==
    LET a == s.attempts[i]
        c == ContactOf[a.message]
        today == <<ChannelOf[a.message], hour \div Day>>
        tries == a.tries + 1
        next == IF ok THEN "sent" ELSE AfterFailure(tries)
    IN [attempts |-> [s.attempts EXCEPT ![i] = Transitioned([a EXCEPT !.tries = tries], next)],
        budget   |-> [s.budget EXCEPT ![today] = s.budget[today] + 1],
        sendLog  |-> [s.sendLog EXCEPT ![c] =
                        Recent(s.sendLog[c]) \cup {[nth |-> Len(s.sends) + 1, at |-> hour]}],
        sends    |-> Append(s.sends, [attempt |-> i, at |-> hour, 
                                    optedOut |-> c \in optedOut \cup refused])]

\* One due attempt of the pass.
Processed(s, i, ok) ==
    LET answer == Verdict(s, s.attempts[i]) IN
    IF answer = "sending" THEN Sent(s, i, ok)
    ELSE IF answer = "queued" THEN s
    ELSE [s EXCEPT !.attempts = [s.attempts EXCEPT ![i] = Transitioned(s.attempts[i], answer)]]

Due(a, channels) == a.state = "queued" /\ ChannelOf[a.message] \in channels /\ a.due <= hour

\* The attempts that are due before the first is sent, in creation order (of ten
\* and more of one tick the code goes by the text of their numbers); accepts says
\* for which of them the transport answers ok.
Pass(atts, channels, accepts) ==
    LET done[i \in 0..Len(atts)] ==
          IF i = 0 THEN [attempts |-> atts, budget |-> channelBudget, sendLog |-> sendLog, sends |-> sends]
          ELSE IF Due(atts[i], channels) THEN Processed(done[i - 1], i, i \in accepts)
          ELSE done[i - 1]
    IN done[Len(atts)]

\* The whole call: follow-ups first, then the pass.
processQueue(channels, accepts) ==
    LET q == materializeFollowUps
        s == Pass(q.attempts, channels, accepts)
    IN /\ Len(q.attempts) <= SendAttempts
       /\ attempts' = s.attempts
       /\ dedupe' = q.dedupe
       /\ followUps' = q.followUps
       /\ channelBudget' = s.budget
       /\ sendLog' = s.sendLog
       /\ sends' = s.sends
       /\ UNCHANGED <<contacts, hour, optedOut, refused>>

\* recordReply; deliveries and conversions fill fields nothing reads again.
recordAttribution(i) ==
    /\ attempts[i].state = "sent"
    /\ attempts' = [attempts EXCEPT ![i] = [attempts[i] EXCEPT !.replied = TRUE]]
    /\ UNCHANGED <<contacts, dedupe, followUps, channelBudget, sendLog, hour, optedOut, refused, sends>>

hourPasses ==
    /\ hour < OutreachEnd
    /\ hour' = hour + 1
    /\ UNCHANGED <<contacts, attempts, dedupe, followUps, channelBudget, sendLog, optedOut, refused, sends>>

OutreachNext ==
    \/ \E c \in Contacts, granted \in BOOLEAN, channels \in {{}, Channels} :
          upsertContact(c, granted, channels)
    \/ \E c \in Contacts : suppress(c)
    \/ \E c \in Contacts, granted \in BOOLEAN : setConsent(c, granted)
    \/ \E m \in Messages, due \in {0, hour + 1} : enqueueMessage(m, due)
    \/ \E i \in DOMAIN attempts, m \in Messages : scheduleFollowUp(i, m, 1)
    \/ \E channels \in {Channels} \cup {{ch} : ch \in Channels}, accepts \in SUBSET (1..SendAttempts) :
          processQueue(channels, accepts)
    \/ \E i \in DOMAIN attempts : recordAttribution(i)
    \/ hourPasses

OutreachSpec == OutreachInit /\ [][OutreachNext]_outreachVars

-----------------------------------------------------------------------------
(* Properties.                                                             *)

OutreachTypeOK ==
    /\ contacts \in [Contacts -> [known : BOOLEAN, granted : BOOLEAN, suppressed : BOOLEAN,
                                  channels : SUBSET Channels]]
    /\ attempts \in Seq([message : Messages, state : Settled \cup {"queued"}, tries : 0..SendTries,
                         created : 0..OutreachEnd, due : 0..(OutreachEnd + 1),
                         settled : 0..OutreachEnd, replied : BOOLEAN])
    /\ dedupe \in [Messages -> 0..SendAttempts]

\* The sends of a contact in the hour that ends at t, and of a channel on a day.
SentInHour(c, t) ==
    {k \in DOMAIN sends : /\ ContactOf[attempts[sends[k].attempt].message] = c
                          /\ sends[k].at <= t /\ sends[k].at > t - Hour}
SentOnDay(ch, day) ==
    {k \in DOMAIN sends : /\ ChannelOf[attempts[sends[k].attempt].message] = ch
                          /\ sends[k].at \div Day = day}

\* While the clock does not go back, in any hour a contact is sent to at most
\* HourlyCap times and on any day a channel carries at most DailyBudget messages,
\* retries and failures included, although the log of a contact is cut back at
\* every send.
SendsWithinCaps ==
    /\ \A t \in 0..hour, c \in Contacts : Cardinality(SentInHour(c, t)) <= HourlyCap
    /\ \A day \in Days, ch \in Channels : Cardinality(SentOnDay(ch, day)) <= DailyBudget

\* A contact that was suppressed once is never sent to again, and one that took
\* its consent back is not sent to before it grants it anew: not by a retry, a
\* follow-up or a message that was enqueued while it was given, or after the
\* contact was imported anew.
NothingAfterOptOut == \A k \in DOMAIN sends : ~sends[k].optedOut

\* One message is not enqueued twice within the retention, so what a contact
\* receives of it in that time are the tries of one attempt, and those end.
DuplicatesAreApart ==
    /\ \A i, k \in DOMAIN attempts :
          i < k /\ attempts[i].message = attempts[k].message =>
             attempts[k].created - attempts[i].created > Retention
    /\ \A i \in DOMAIN attempts :
          Cardinality({k \in DOMAIN sends : sends[k].attempt = i}) <= SendTries

\* What a contact is promised, whatever is queued, retried or followed up.
OutreachKeepsLimits == SendsWithinCaps /\ NothingAfterOptOut /\ DuplicatesAreApart
=============================================================================
