------------------------------- MODULE Consent -------------------------------
(***************************************************************************)
(* CM-11, crates/sandbox-markets/src/cases/consent.rs: consents with       *)
(* scopes, an end and a possible revocation, and queries that are checked  *)
(* against them each time.  The days are the simulated clock.              *)
(***************************************************************************)
EXTENDS Integers, Sequences, FiniteSetsExt

CONSTANTS
    Consents,      \* identifiers that may be granted
    Foreign,       \* an identifier nobody granted
    Scopes,
    Validity,      \* days from the grant to expires_day
    LastDay        \* bound on the clock

VARIABLES
    today,
    consents,      \* identifier -> NotGranted or [scopes, expires, revoked]
    providerUp,
    answer,        \* the last query and its outcome
    withdrawn      \* ghost: the consents whose user has revoked them

consentVars == <<today, consents, providerUp, answer, withdrawn>>

Never == LastDay + 1
NotGranted == [scopes |-> {}, expires |-> 0, revoked |-> Never]
Nothing == [consent |-> Foreign, scope |-> "none", kind |-> "none"]

Granted(c) == c \in Consents /\ consents[c] # NotGranted

Init ==
    /\ today = 0
    /\ consents = [c \in Consents |-> NotGranted]
    /\ providerUp = TRUE
    /\ answer = Nothing
    /\ withdrawn = {}

\* External: users, the clock and the provider.
Grant(c, scopes) ==
    /\ ~Granted(c)
    /\ consents' = [consents EXCEPT ![c] =
                        [scopes |-> scopes, expires |-> today + Validity, revoked |-> Never]]
    /\ UNCHANGED <<today, providerUp, answer, withdrawn>>

Revoke(c) ==
    /\ Granted(c)
    /\ c \notin withdrawn
    /\ consents' = [consents EXCEPT ![c].revoked = today]
    /\ withdrawn' = withdrawn \cup {c}
    /\ UNCHANGED <<today, providerUp, answer>>

Tick ==
    /\ today < LastDay
    /\ today' = today + 1
    /\ UNCHANGED <<consents, providerUp, answer, withdrawn>>

ProviderChanges ==
    /\ providerUp' = ~providerUp
    /\ UNCHANGED <<today, consents, answer, withdrawn>>

\* Mutant: a revocation counts from the next day.
StatusFromTomorrow(c, d) ==
    IF d > c.revoked THEN "revoked" ELSE IF d >= c.expires THEN "expired" ELSE "valid"

\* Consent.status_on
Status(c, d) ==
    IF d >= c.revoked THEN "revoked" ELSE IF d >= c.expires THEN "expired" ELSE "valid"

\* serve
Outcome(book, id, scope, d, up) ==
    IF id \notin DOMAIN book \/ book[id] = NotGranted THEN "unknown-consent"
    ELSE LET status == Status(book[id], d)
         IN  IF status = "revoked" THEN "revoked-consent"
             ELSE IF status = "expired" THEN "expired-consent"
             ELSE IF scope \notin book[id].scopes THEN "scope-violation"
             ELSE IF ~up THEN "unavailable"
             ELSE "served"

Serve(id, scope) ==
    /\ answer' = [consent |-> id, scope |-> scope,
                  kind |-> Outcome(consents, id, scope, today, providerUp)]
    /\ UNCHANGED <<today, consents, providerUp, withdrawn>>

\* excessive: queries per day, each query given by its day.
Excessive(queries) ==
    Len(queries) \div Max({1, Cardinality({queries[i]: i \in DOMAIN queries})}) > 100

Next ==
    \/ \E c \in Consents: (\E s \in SUBSET Scopes: Grant(c, s)) \/ Revoke(c)
    \/ Tick
    \/ ProviderChanges
    \/ \E id \in Consents \cup {Foreign}, s \in Scopes: Serve(id, s)

Spec == Init /\ [][Next]_consentVars

-----------------------------------------------------------------------------
TypeOK ==
    /\ today \in 0..LastDay
    /\ \A c \in Consents: consents[c].scopes \subseteq Scopes
    /\ withdrawn \subseteq Consents

\* Once a user has revoked, nothing is served from that consent, from the day of the
\* revocation on; and what is served was granted and has not expired.
RevocationIsFinal ==
    [][answer'.kind = "served" =>
        /\ answer'.consent \notin withdrawn
        /\ answer'.scope \in consents[answer'.consent].scopes
        /\ today < consents[answer'.consent].expires]_answer

-----------------------------------------------------------------------------
(* The checks of the case's own report. *)
Scenarios ==
    LET Book(day) == [cons |-> [scopes |-> {"balances"}, expires |-> 90, revoked |-> day]]
        standing == Book(1000)
        revoked == Book(30)
    IN  /\ Outcome(standing, "cons", "balances", 10, TRUE) = "served"
        /\ Outcome(standing, "cons", "transactions", 10, TRUE) = "scope-violation"
        /\ Outcome(standing, "cons", "balances", 120, TRUE) = "expired-consent"
        /\ Outcome(revoked, "cons", "balances", 31, TRUE) = "revoked-consent"
        /\ Outcome(revoked, "cons", "balances", 29, TRUE) = "served"
        /\ Outcome(standing, "cons", "balances", 10, FALSE) = "unavailable"
        /\ Excessive([i \in 1..500 |-> 5])
=============================================================================
