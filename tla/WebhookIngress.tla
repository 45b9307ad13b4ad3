--------------------------- MODULE WebhookIngress ----------------------------
(***************************************************************************)
(* Conversions that arrive by webhook: ingestWebhookAsync behind the       *)
(* replay guard of one server process, over AffiliateCore or over the      *)
(* in-memory runtime.  A provider sends the event of an order again until  *)
(* it is answered with a 2xx status.  Signatures, time stamps and the rate *)
(* limiter are left out: what they refuse changes nothing.                 *)
(***************************************************************************)
EXTENDS AffiliateCore

CONSTANT Backend  \* AFFILIATE_RUNTIME_BACKEND: "memory" or "postgres"

VARIABLES
    known,     \* events the replay guard remembers
    delivery,  \* the step of the delivery that is being processed, per order
    reply      \* the answer to the last delivery

webhookVars == <<known, delivery, reply>>

WebhookInit ==
    /\ Init
    /\ known = {}
    /\ delivery = [o \in Orders |-> "none"]
    /\ reply = [o \in Orders |-> "none"]

Reply(o, answer) ==
    /\ reply' = [reply EXCEPT ![o] = answer]
    /\ delivery' = [delivery EXCEPT ![o] = "none"]

Acknowledged(o) == reply[o] \in {"accepted", "duplicate"}

\* guard.decide records the event in the same step that accepts it.
decide(o) ==
    /\ delivery[o] = "none"
    /\ ~Acknowledged(o)
    /\ o \notin known
    /\ known' = known \cup {o}
    /\ delivery' = [delivery EXCEPT ![o] = "lookup"]
    /\ UNCHANGED <<vars, reply>>

decideDuplicate(o) ==
    /\ ~Acknowledged(o)
    /\ o \in known
    /\ delivery[o] = "none"
    /\ Reply(o, "duplicate")
    /\ UNCHANGED <<vars, known>>

findLink(o) ==
    /\ delivery[o] = "lookup"
    /\ \/ /\ \E g \in Campaigns : links[g] > 0
          /\ delivery' = [delivery EXCEPT ![o] = "record"]
          /\ UNCHANGED reply
       \/ Reply(o, "unresolvable")
    /\ UNCHANGED <<vars, known>>

\* The in-memory runtime takes the commission from the offer.
recordInMemory(o) ==
    /\ delivery[o] = "record"
    /\ Backend = "memory"
    /\ IF status[o] = "absent"
       THEN /\ status' = [status EXCEPT ![o] = "pending"]
            /\ recorded' = [recorded EXCEPT ![o] = @ + 1]
       ELSE UNCHANGED <<status, recorded>>
    /\ Reply(o, "accepted")
    /\ UNCHANGED <<source, clicked, links, margins, moves, corrections, lock,
                   tx, known>>

\* The repository asks its caller for the commission, and throws: a 500.
recordThrows(o) ==
    /\ delivery[o] = "record"
    /\ Backend = "postgres"
    /\ Reply(o, "failed")
    /\ UNCHANGED <<vars, known>>

\* An entry of the guard lives for a day.
expire(o) ==
    /\ known' = known \ {o}
    /\ UNCHANGED <<vars, delivery, reply>>

\* The server restarts: the guard is its memory.
restart ==
    /\ known' = {}
    /\ delivery' = [o \in Orders |-> "none"]
    /\ UNCHANGED <<vars, reply>>

Webhook ==
    \/ \E o \in Orders :
          \/ decide(o) \/ decideDuplicate(o) \/ findLink(o)
          \/ recordInMemory(o) \/ recordThrows(o) \/ expire(o)
    \/ restart

WebhookSpec ==
    WebhookInit /\ [][\/ Webhook
                      \/ Next /\ UNCHANGED webhookVars]_<<vars, webhookVars>>

\* docs/operator/financial-reconciliation.md:7: "duplicate deliveries collapse
\* to a single effect", so what is answered as a duplicate had one.
DuplicateHadEffect ==
    \A o \in Orders : reply[o] = "duplicate" => status[o] # "absent"
=============================================================================
