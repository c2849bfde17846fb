----------------------------- MODULE Identification -----------------------------
(***************************************************************************)
(* Whose account the terminal is on (ADR 0036): what its names point to,    *)
(* what the user declared, the contract whose rules apply, and the reasons   *)
(* not to trade on the answer; and the memory of it, while the declaration   *)
(* changes and the link comes and goes.                                      *)
(***************************************************************************)
EXTENDS Naturals, FiniteSets

CONSTANTS
    Terminals,      \* what a terminal may say of an account
    Declarations,   \* what the user may have declared of it, its contract left out
    Askers,         \* the tasks that identify the account: the cycle of the risk, the API
    Lifetime,       \* IDENTITY_TTL
    LastMinute,     \* bound of the clock
    IdentityFaults  \* "read": a read of the terminal fails; "cut": a disconnection is cancelled before it is told

VARIABLES
    shown,          \* what the terminal says
    linked,         \* the account has a session
    declared,       \* the account: its provider and its environment, which never change
    contract,       \* and the contract of its rules
    until,          \* until when each contract was the account's, before
    minute,         \* the clock
    asking,         \* of each task: how far it is, and the contract it read
    remembered,     \* self._identity: what the last whole read was decided from, and when
    answer          \* the answer given since the last question, and for how long its contract had been replaced

identityVars == <<shown, linked, declared, contract, until, minute, asking, remembered, answer>>

Providers == {"exness", "ftmo"}
Simulated == {"ftmo"}
Contracts == {"challenge", "swing", "unknown"}
Products == Contracts \cup {"standard"}
\* The rule set of a product.
ProviderOf(product) == IF product = "standard" THEN "exness" ELSE "ftmo"
Sourced(product) == product # "swing"
AllowsLeverage(product, leverage) ==
    (product = "swing" => leverage <= 30) /\ (product = "challenge" => leverage <= 100)

\* A name is absent, or points to the providers whose signature it matches.
Absent == {"absent"}
Names == {"server", "company", "terminal"}
TerminalFacts == [server : {Absent} \cup SUBSET Providers, company : {Absent} \cup SUBSET Providers,
          terminal : {Absent} \cup SUBSET Providers, mode : {"none", "unknown", "demo", "contest", "real"},
          currency : BOOLEAN, leverage : Nat, suffixes : SUBSET {"", "m"}]
Unread == [server |-> Absent, company |-> Absent, terminal |-> Absent, mode |-> "none", currency |-> FALSE,
           leverage |-> 0, suffixes |-> {}]
Declared == [provider : Providers, environment : {"demo", "simulated", "live"}]

IdentityAssumption ==
    /\ Terminals \subseteq TerminalFacts /\ Declarations \subseteq Declared
    /\ Lifetime \in Nat \ {0} /\ LastMinute \in Nat
-----------------------------------------------------------------------------
Support(f, p) == Cardinality({name \in Names : p \in f[name]})
Unmatched(f) == Cardinality({name \in Names : f[name] = {}})
Named(f) == {p \in Providers : \E name \in Names : p \in f[name]}
\* The provider of the account, when its names point to one and no other.
IsOf(f, p) == Named(f) = {p}
\* One name is enough, the account having a declared provider, unless more names point to nobody.
Confirmed(f, d, p) == d.provider = p /\ Support(f, p) >= Unmatched(f)
IsReal(f, p) == p \notin Simulated /\ f.mode = "real"
IsDemo(f, p) == p \notin Simulated /\ f.mode \in {"demo", "contest"}

\* Exness shows its product in the suffix of its symbols; FTMO's is the one declared.
Carried(f, c, p) ==
    IF p = "ftmo" THEN c ELSE IF f.suffixes = {"m"} THEN "standard" ELSE "unknown"
Rehearses(c, p) == c # "unknown" /\ ProviderOf(c) # p
RulesOf(f, c) ==
    IF \E p \in Providers : IsOf(f, p) /\ ~Rehearses(c, p)
      THEN Carried(f, c, CHOOSE p \in Providers : IsOf(f, p))
      ELSE c

\* The blockers of an answer.
FactsMissing(f) == f.server = Absent \/ f.company = Absent \/ ~f.currency \/ f.leverage = 0
NotIdentified(f, d) == \A p \in Providers : IsOf(f, p) => ~Confirmed(f, d, p)
WrongEnvironment(f, d) ==
    \E p \in Providers : IsOf(f, p) /\ \/ IsReal(f, p) /\ d.environment # "live"
                                       \/ IsDemo(f, p) /\ d.environment = "live"
RehearsedOnReal(f, c) == \E p \in Providers : IsOf(f, p) /\ Rehearses(c, p) /\ IsReal(f, p)
ProductUnknown(f, c) == RulesOf(f, c) = "unknown"
Unsourced(f, c) == ~Sourced(RulesOf(f, c))
WrongLeverage(f, c) ==
    /\ ~AllowsLeverage(RulesOf(f, c), f.leverage)
    /\ \A p \in Providers : IsOf(f, p) => ~Rehearses(c, p)
Executable(f, d, c) ==
    ~ \/ FactsMissing(f) \/ NotIdentified(f, d) \/ WrongEnvironment(f, d) \/ RehearsedOnReal(f, c)
      \/ ProductUnknown(f, c) \/ Unsourced(f, c) \/ WrongLeverage(f, c)
-----------------------------------------------------------------------------
Forgotten == [known |-> FALSE, at |-> 0, facts |-> Unread, contract |-> "unknown"]
Unanswered == [facts |-> Unread, contract |-> "unknown", behind |-> 0]
Idle == [step |-> "idle", contract |-> "unknown"]
Init ==
    /\ shown \in Terminals /\ declared \in Declarations /\ contract \in Contracts
    /\ linked = FALSE /\ minute = 0 /\ until = [c \in Contracts |-> 0]
    /\ asking = [a \in Askers |-> Idle] /\ remembered = Forgotten
    /\ answer = Unanswered

Answers(a, f, c) ==
    /\ answer' = [facts |-> f, contract |-> c, behind |-> IF c = contract THEN 0 ELSE minute - until[c]]
    /\ asking' = [asking EXCEPT ![a] = Idle]

\* The account is read, then the session and the memory, without an await between these.
Asks(a) ==
    /\ asking[a].step = "idle"
    /\ asking' = [asking EXCEPT ![a] = [step |-> "asked", contract |-> contract]]
    /\ answer' = Unanswered
    /\ UNCHANGED <<shown, linked, declared, contract, until, minute, remembered>>
Recalled == linked /\ remembered.known /\ minute - remembered.at < Lifetime
Recalls(a) ==
    /\ asking[a].step = "asked" /\ Recalled
    /\ Answers(a, remembered.facts, remembered.contract)
    /\ UNCHANGED <<shown, linked, declared, contract, until, minute, remembered>>
\* Without a session the declaration is all there is, and is not remembered.
AnswersUnlinked(a) ==
    /\ asking[a].step = "asked" /\ ~linked
    /\ Answers(a, Unread, asking[a].contract)
    /\ UNCHANGED <<shown, linked, declared, contract, until, minute, remembered>>
Begins(a) ==
    /\ asking[a].step = "asked" /\ linked /\ ~Recalled
    /\ asking' = [asking EXCEPT ![a].step = "reading"]
    /\ UNCHANGED <<shown, linked, declared, contract, until, minute, remembered, answer>>
\* The account, the terminal and its symbols are read, from a client that may outlive its session a little.
Reads(a) ==
    /\ asking[a].step = "reading"
    /\ Answers(a, shown, asking[a].contract)
    /\ remembered' = IF shown.server = Absent THEN remembered
                     ELSE [known |-> TRUE, at |-> minute, facts |-> shown, contract |-> asking[a].contract]
    /\ UNCHANGED <<shown, linked, declared, contract, until, minute>>
Fails(a) ==
    /\ asking[a].step = "reading" /\ "read" \in IdentityFaults
    /\ Answers(a, Unread, asking[a].contract)
    /\ UNCHANGED <<shown, linked, declared, contract, until, minute, remembered>>

\* What the disconnection forgets, unless it is cancelled before its event; the cycle of the risk forgets it again.
Attaches ==
    /\ ~linked /\ linked' = TRUE
    /\ UNCHANGED <<shown, declared, contract, until, minute, asking, remembered, answer>>
Forgets ==
    /\ linked' = FALSE /\ remembered' = Forgotten
    /\ UNCHANGED <<shown, declared, contract, until, minute, asking, answer>>
DropIsCut ==
    /\ linked /\ "cut" \in IdentityFaults /\ linked' = FALSE
    /\ UNCHANGED <<shown, declared, contract, until, minute, asking, remembered, answer>>

\* Another contract governs the account (request_rules, at once or the next day).
Declares ==
    /\ contract' \in Contracts \ {contract}
    /\ until' = [until EXCEPT ![contract] = minute]
    /\ UNCHANGED <<shown, linked, declared, minute, asking, remembered, answer>>
\* The reads of the terminal have timeouts of seconds: none outlasts a minute.
Passes ==
    /\ minute < LastMinute /\ \A a \in Askers : asking[a].step = "idle"
    /\ minute' = minute + 1
    /\ UNCHANGED <<shown, linked, declared, contract, until, asking, remembered, answer>>

Identifies(a) == Asks(a) \/ Recalls(a) \/ AnswersUnlinked(a) \/ Begins(a) \/ Reads(a) \/ Fails(a)
Next == (\E a \in Askers : Identifies(a)) \/ Attaches \/ Forgets \/ DropIsCut \/ Declares \/ Passes
Spec == Init /\ [][Next]_identityVars
-----------------------------------------------------------------------------
IdentityTypeOK ==
    /\ shown \in TerminalFacts /\ declared \in Declared /\ contract \in Contracts /\ linked \in BOOLEAN
    /\ until \in [Contracts -> Nat] /\ minute \in Nat
    /\ asking \in [Askers -> [step : {"idle", "asked", "reading"}, contract : Contracts]]
    /\ remembered \in [known : BOOLEAN, at : Nat, facts : TerminalFacts, contract : Contracts]
    /\ answer \in [facts : TerminalFacts, contract : Contracts, behind : Nat]

\* The names of an executable account point to its declared provider and, but for one, to no other and not to nobody;
\* its money is what was declared, and another provider's rules are not rehearsed on a real account (identify_account).
Trustworthy(f, d, c) ==
    /\ \A name \in Names : f[name] \in {Absent, {d.provider}, {}}
    /\ \A one, two \in Names : f[one] = {} /\ f[two] = {} => one = two
    /\ \E name \in Names : f[name] = {d.provider}
    /\ d.provider = "exness" /\ f.mode = "real" => d.environment = "live" /\ c = "unknown"
    /\ d.provider = "ftmo" => c = "challenge"
\* Nothing trades on less, and the rules an answer names are never those of a contract that was replaced
\* longer ago than the lifetime of an answer, whatever was cut, lost or read late (ProviderService.identify).
TradesAsIdentified ==
    /\ Executable(answer.facts, declared, answer.contract) => Trustworthy(answer.facts, declared, answer.contract)
    /\ answer.behind < Lifetime
=============================================================================
