---------------------------- MODULE TenantBilling ----------------------------
(***************************************************************************)
(* The billing half of packages/identity-billing for one tenant and one    *)
(* metric: plans, entitlements, metered usage under a quota, invoices      *)
(* drafted over a period, issued and paid, and the double-entry ledger.    *)
(* Every operation is synchronous; the callers decide the order.           *)
(***************************************************************************)
EXTENDS Integers, Sequences, FiniteSetsExt, Functions

CONSTANTS
    Plans,           \* planId
    Quota, Price,    \* what a plan allows and charges; no price is Unpriced
    Unpriced,
    Quantities,      \* quantities callers meter
    Amounts,         \* amounts callers pay and post
    UsageTimes,      \* times that callers name
    Periods,         \* periods they draft invoices for: pairs of times
    UsageLimit, InvoiceLimit, PaymentLimit, EntryLimit   \* bounds

\* What requirePositiveInteger, requireNonNegativeInteger and toTimestamp let in.
ASSUME BillingAssumption ==
    /\ Quantities \subseteq Nat /\ Amounts \subseteq Nat
    /\ Quota \in [Plans -> Nat]
    /\ \A p \in Plans : Price[p] # Unpriced => Price[p] \in Nat
    /\ UsageTimes \subseteq Int /\ Periods \subseteq Int \X Int

VARIABLES
    plans,          \* the plans that are defined
    entitlement,    \* the latest of state.entitlements
    usage,          \* state.usageEvents
    used,           \* state.usageTotalsByMetric
    ledger,         \* state.ledgerEntries, with state.ledgerSequence their number
    invoices,       \* state.invoicesById, in creation order
    entitledTo      \* history: the plans the tenant ever had

billingVars == <<plans, entitlement, usage, used, ledger, invoices, entitledTo>>

NoPlan == "no plan"

BillingInit ==
    /\ plans = {}
    /\ entitlement = NoPlan
    /\ usage = <<>>
    /\ used = 0
    /\ ledger = <<>>
    /\ invoices = <<>>
    /\ entitledTo = {}

\* A plan is defined once and never changes.
definePlan(p) ==
    /\ p \notin plans
    /\ plans' = plans \cup {p}
    /\ UNCHANGED <<entitlement, usage, used, ledger, invoices, entitledTo>>

\* A new entitlement takes the place of the last; what was used stays used.
assignEntitlement(p) ==
    /\ p \in plans
    /\ entitlement' = p
    /\ entitledTo' = entitledTo \cup {p}
    /\ UNCHANGED <<plans, usage, used, ledger, invoices>>

\* (mutation) The limit is compared with what was used before.
WithinQuotaBefore(quantity) == used <= Quota[entitlement]

WithinQuota(quantity) == used + quantity <= Quota[entitlement]

\* The usage may lie in the past, a drafted period included.
meterUsage(quantity, at) ==
    /\ entitlement # NoPlan
    /\ WithinQuota(quantity)
    /\ usage' = Append(usage, [quantity |-> quantity, at |-> at])
    /\ used' = used + quantity
    /\ UNCHANGED <<plans, entitlement, ledger, invoices, entitledTo>>

\* A posting names one amount twice and takes the next number.
postLedgerEntry(debit, credit) ==
    /\ debit = credit
    /\ ledger' = Append(ledger, [sequence |-> Len(ledger) + 1, debit |-> debit, credit |-> credit])
    /\ UNCHANGED <<plans, entitlement, usage, used, invoices, entitledTo>>

-----------------------------------------------------------------------------
(* Invoices.                                                               *)

InPeriod(from, to) == {i \in DOMAIN usage : usage[i].at >= from /\ usage[i].at <= to}

Quantity(events) == SumFunctionOnSet([i \in DOMAIN usage |-> usage[i].quantity], events)

\* Both ends of the period belong to it; the plan of today sets the price of
\* all of it; a metric without a price is left out.
draftInvoice(from, to) ==
    LET charged == IF Price[entitlement] = Unpriced THEN {} ELSE InPeriod(from, to)
        price == IF Price[entitlement] = Unpriced THEN 0 ELSE Price[entitlement]
    IN /\ from < to
       /\ entitlement # NoPlan
       /\ invoices' = Append(invoices,
            [from |-> from, to |-> to, status |-> "draft", quantity |-> Quantity(charged),
             total |-> Quantity(charged) * price, paid |-> 0, over |-> 0, payments |-> <<>>])
       /\ UNCHANGED <<plans, entitlement, usage, used, ledger, entitledTo>>

issueInvoice(n) ==
    /\ invoices[n].status = "draft"
    /\ invoices' = [invoices EXCEPT ![n].status = "issued"]
    /\ UNCHANGED <<plans, entitlement, usage, used, ledger, entitledTo>>

\* (mutation) A payment settles the invoice, whatever was owed.
PaidAnyhow(invoice, amount) ==
    [invoice EXCEPT !.payments = Append(@, amount), !.paid = @ + amount, !.status = "paid"]

Paid(invoice, amount) ==
    LET paid == invoice.paid + amount IN
    [invoice EXCEPT !.payments = Append(@, amount),
                    !.paid = paid,
                    !.over = IF paid > invoice.total THEN paid - invoice.total ELSE 0,
                    !.status = IF paid >= invoice.total THEN "paid" ELSE "partially_paid"]

\* A payment is not told from its repetition: each one counts.
recordPayment(n, amount) ==
    /\ invoices[n].status # "draft"
    /\ invoices' = [invoices EXCEPT ![n] = Paid(@, amount)]
    /\ UNCHANGED <<plans, entitlement, usage, used, ledger, entitledTo>>

BillingNext ==
    \/ \E p \in Plans : definePlan(p) \/ assignEntitlement(p)
    \/ \E quantity \in Quantities, at \in UsageTimes :
          Len(usage) < UsageLimit /\ meterUsage(quantity, at)
    \/ \E debit, credit \in Amounts : Len(ledger) < EntryLimit /\ postLedgerEntry(debit, credit)
    \/ \E p \in Periods : Len(invoices) < InvoiceLimit /\ draftInvoice(p[1], p[2])
    \/ \E n \in DOMAIN invoices : issueInvoice(n)
    \/ \E n \in DOMAIN invoices, amount \in Amounts :
          /\ MapThenSumSet(LAMBDA i : Len(invoices[i].payments), DOMAIN invoices) < PaymentLimit
          /\ recordPayment(n, amount)

BillingSpec == BillingInit /\ [][BillingNext]_billingVars

-----------------------------------------------------------------------------
(* Properties.                                                             *)

SumOf(s) == SumFunctionOnSet(s, DOMAIN s)

BillingTypeOK ==
    /\ plans \subseteq Plans
    /\ entitlement \in Plans \cup {NoPlan}
    /\ usage \in Seq([quantity : Quantities, at : UsageTimes])
    /\ \A n \in DOMAIN invoices :
          invoices[n].status \in {"draft", "issued", "partially_paid", "paid"}

\* What was metered is what the quota is held against, and it is within the
\* largest quota the tenant ever had, whatever plans came and went.
UsageWithinQuota ==
    /\ used = Quantity(DOMAIN usage)
    /\ used > 0 => \E p \in entitledTo : used <= Quota[p]

\* Invoices whose periods have no instant in common charge together no more
\* than was metered.  Periods that follow each other do share one, and usage
\* on it is in both.
BilledAtMostMetered ==
    \A m, n \in DOMAIN invoices :
       invoices[m].to < invoices[n].from => invoices[m].quantity + invoices[n].quantity <= used

\* reconcileLedger calls the ledger valid if its numbers have no gap and both
\* sides have one total.
reconcileLedger ==
    /\ \A i \in DOMAIN ledger : ledger[i].sequence = i
    /\ SumOf([i \in DOMAIN ledger |-> ledger[i].debit]) =
          SumOf([i \in DOMAIN ledger |-> ledger[i].credit])

\* The money of an invoice is accounted for: what is paid is the sum of its
\* payments, what is paid too much is kept apart, and the status tells which
\* side of the total the invoice is on, whatever was drafted or paid twice.
InvoicesBalance ==
    \A n \in DOMAIN invoices : LET i == invoices[n] IN
       /\ i.paid = SumOf(i.payments)
       /\ i.over > 0 => i.paid = i.total + i.over
       /\ i.status \in {"draft", "issued"} <=> i.payments = <<>>
       /\ i.status = "partially_paid" => i.paid < i.total
       /\ i.status = "paid" => i.paid >= i.total /\ i.paid - i.over = i.total

\* The tenant's books: usage, invoices and payments agree, and the ledger, which
\* nothing of it is posted to by itself, reconciles.
BooksAgree == UsageWithinQuota /\ BilledAtMostMetered /\ InvoicesBalance /\ reconcileLedger
=============================================================================
