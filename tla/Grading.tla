------------------------------- MODULE Grading -------------------------------
(***************************************************************************)
(* Verification of graded cards with the company that graded them          *)
(* (crates/api/src/grading).                                               *)
(*                                                                         *)
(* A certificate stands for a grader and its number.  The grader answers   *)
(* with the name of the card, "not_found", or, when it cannot be reached   *)
(* or has no integration, "unavailable".  No adapter answers "mismatch":   *)
(* that is what a handler makes of a name that is not the claimed one.     *)
(***************************************************************************)
EXTENDS Naturals, Sequences

CONSTANTS
    None,
    Certs,
    Unsupported,  \* certificates of graders whose adapter is a stub or has no key
    Names,        \* names of cards, up to case and punctuation (names_match)
    Instances,    \* ids of card_instances
    Lookups,      \* requests in progress at once
    CacheTtl,     \* minutes an answer is served from the cache (60 in the code)
    LastMinute    \* bound of the clock

ASSUME GradingAssumption ==
    /\ Unsupported \subseteq Certs
    /\ None \notin Instances
    /\ {None, "not_found", "unavailable"} \cap Names = {}
    /\ CacheTtl \in Nat \ {0} /\ LastMinute \in Nat

VARIABLES
    registry,       \* the grader: the card of each certificate it knows
    verifications,  \* grading_verifications
    verification,   \* card_instances: verification_status
    counterfeits,   \* risk_flags of kind counterfeit
    lookups,        \* the program state of each request
    minute,         \* the clock
    truths,         \* history: what the grader would have answered in each minute
    spells          \* history: for each instance, its status before the lookups
                    \* last in progress, what they answered, whether one was cut short

gradingVars ==
    <<registry, verifications, verification, counterfeits, lookups, minute, truths, spells>>

NoLookup == [pc |-> "idle"]
LookupBecomes(q, state) == lookups' = [lookups EXCEPT ![q] = state]
LooksUp(q, i) == lookups[q].pc # "idle" /\ lookups[q].instance = i
Quiet(i) == \A q \in Lookups : ~LooksUp(q, i)

Truth(cert, name, at) ==
    [cert |-> cert, answer |-> IF name = None THEN "not_found" ELSE name, at |-> at]

GradingInit ==
    /\ registry = [c \in Certs |-> None]
    /\ verifications = {}
    /\ verification = [i \in Instances |-> "unverified"]
    /\ counterfeits = {}
    /\ lookups = [q \in Lookups |-> NoLookup]
    /\ minute = 0
    /\ truths = {Truth(c, None, 0) : c \in Certs}
    /\ spells = [i \in Instances |-> [before |-> "unverified", given |-> {}, cut |-> FALSE]]

-----------------------------------------------------------------------------
(* verify_cert: the cache, the adapter, and the store, whose failure is    *)
(* swallowed.                                                              *)

\* get_cached: WHERE; the mutant serves answers of any age.
Cached_AnyAge(cert) == {v \in verifications : v.cert = cert /\ v.answer # "unavailable"}
Cached(cert) ==
    {v \in verifications : /\ v.cert = cert /\ v.answer # "unavailable"
                           /\ v.at + CacheTtl > minute}
Newest(cert) == {v \in Cached(cert) : \A w \in Cached(cert) : w.at <= v.at}

\* names_match fails for the name that the request claims.
Contradicts(l, answer) == answer \in Names /\ l.claimed \notin {None, answer}

\* What a handler writes after an answer, in this order; a standalone lookup has
\* no instance.  The mutant writes the status last.
Writes_StatusLast(l, answer) ==
    LET on(condition, write) == IF condition THEN <<write>> ELSE <<>> IN
    on(answer = "not_found", "flag")
      \o on(l.instance # None /\ Contradicts(l, answer), "mismatch")
      \o on(l.instance # None /\ answer # "unavailable", "status")
Writes(l, answer) ==
    LET on(condition, write) == IF condition THEN <<write>> ELSE <<>> IN
    on(l.instance # None /\ answer # "unavailable", "status")
      \o on(answer = "not_found", "flag")
      \o on(l.instance # None /\ Contradicts(l, answer), "mismatch")

Answered(l, answer) == [l EXCEPT !.pc = "write", !.answer = answer, !.todo = Writes(l, answer)]

BeginVerify(q, i, cert, claimed) ==
    LET l == [pc |-> "ask", instance |-> i, cert |-> cert, claimed |-> claimed,
              answer |-> None, todo |-> <<>>, begun |-> minute] IN
    /\ lookups[q] = NoLookup
    /\ IF Newest(cert) = {}
       THEN LookupBecomes(q, l)
       ELSE \E v \in Newest(cert) : LookupBecomes(q, Answered(l, v.answer))
    /\ spells' = IF i \in Instances /\ Quiet(i)
                 THEN [spells EXCEPT ![i] = [before |-> verification[i], given |-> {}, cut |-> FALSE]]
                 ELSE spells
    /\ UNCHANGED <<registry, verifications, verification, counterfeits, minute, truths>>

\* PsaAdapter::verify: any failure of the call is "unavailable".
Ask(q) ==
    LET cert == lookups[q].cert IN
    /\ lookups[q].pc = "ask"
    /\ \E answer \in {"unavailable"} \cup
                       (IF cert \in Unsupported THEN {} ELSE {Truth(cert, registry[cert], minute).answer}) :
         LookupBecomes(q, [lookups[q] EXCEPT !.pc = "store", !.answer = answer])
    /\ UNCHANGED <<registry, verifications, verification, counterfeits, minute, truths, spells>>

StoreResult(q) ==
    LET l == lookups[q] IN
    /\ l.pc = "store"
    /\ \/ verifications' = verifications \cup {[cert |-> l.cert, answer |-> l.answer, at |-> minute]}
       \/ UNCHANGED verifications  \* it fails
    /\ LookupBecomes(q, Answered(l, l.answer))
    /\ UNCHANGED <<registry, verification, counterfeits, minute, truths, spells>>

-----------------------------------------------------------------------------
(* verify_instance and verify_standalone: what follows the answer.         *)

StatusOf(answer) == IF answer = "not_found" THEN "unverified" ELSE "verified"
Verdict(l) == IF Contradicts(l, l.answer) THEN "mismatch" ELSE StatusOf(l.answer)

Writing(q, write) ==
    lookups[q].pc = "write" /\ lookups[q].todo # <<>> /\ Head(lookups[q].todo) = write
Proceeds(q) == LookupBecomes(q, [lookups[q] EXCEPT !.todo = Tail(@)])
CutShort(q) ==
    spells' = IF lookups[q].instance = None THEN spells
              ELSE [spells EXCEPT ![lookups[q].instance].cut = TRUE]

UpdateStatus(q) ==
    /\ Writing(q, "status")
    /\ verification' = [verification EXCEPT ![lookups[q].instance] = StatusOf(lookups[q].answer)]
    /\ Proceeds(q)
    /\ UNCHANGED <<registry, verifications, counterfeits, minute, truths, spells>>

RaiseCounterfeitFlag(q) ==
    /\ Writing(q, "flag")
    /\ counterfeits' =
         counterfeits \cup {[instance |-> lookups[q].instance, cert |-> lookups[q].cert]}
    /\ Proceeds(q)
    /\ UNCHANGED <<registry, verifications, verification, minute, truths, spells>>

WriteMismatch(q) ==
    /\ Writing(q, "mismatch")
    /\ verification' = [verification EXCEPT ![lookups[q].instance] = "mismatch"]
    /\ Proceeds(q)
    /\ UNCHANGED <<registry, verifications, counterfeits, minute, truths, spells>>

\* The failure of one of these two is swallowed, that of update_instance_status
\* is not: the request ends like one that is given up.
WriteFails(q) ==
    /\ Writing(q, "flag") \/ Writing(q, "mismatch")
    /\ Proceeds(q) /\ CutShort(q)
    /\ UNCHANGED <<registry, verifications, verification, counterfeits, minute, truths>>

Respond(q) ==
    LET l == lookups[q] IN
    /\ l.pc = "write" /\ l.todo = <<>>
    /\ LookupBecomes(q, NoLookup)
    /\ spells' = IF l.instance = None \/ l.answer = "unavailable" THEN spells
                 ELSE [spells EXCEPT ![l.instance].given = @ \cup {Verdict(l)}]
    /\ UNCHANGED <<registry, verifications, verification, counterfeits, minute, truths>>

GiveUp(q) ==
    /\ lookups[q].pc # "idle"
    /\ LookupBecomes(q, NoLookup)
    /\ IF lookups[q].pc = "write" THEN CutShort(q) ELSE UNCHANGED spells
    /\ UNCHANGED <<registry, verifications, verification, counterfeits, minute, truths>>

-----------------------------------------------------------------------------
(* The grader registers, corrects and withdraws certificates.              *)

RegistryChanges(cert, name) ==
    /\ name # registry[cert]
    /\ registry' = [registry EXCEPT ![cert] = name]
    /\ truths' = truths \cup {Truth(cert, name, minute)}
    /\ UNCHANGED <<verifications, verification, counterfeits, lookups, minute, spells>>

\* Bound: no minute passes between an answer and its being stored.
MinutePasses ==
    /\ minute < LastMinute
    /\ \A q \in Lookups : lookups[q].pc # "store"
    /\ minute' = minute + 1
    /\ truths' = truths \cup {Truth(c, registry[c], minute') : c \in Certs}
    /\ UNCHANGED <<registry, verifications, verification, counterfeits, lookups, spells>>

GradingStep ==
    \/ \E q \in Lookups :
         \/ \E i \in Instances \cup {None}, c \in Certs, n \in Names \cup {None} : BeginVerify(q, i, c, n)
         \/ Ask(q) \/ StoreResult(q) \/ UpdateStatus(q) \/ RaiseCounterfeitFlag(q)
         \/ WriteMismatch(q) \/ WriteFails(q) \/ Respond(q) \/ GiveUp(q)
    \/ \E c \in Certs, n \in Names \cup {None} : RegistryChanges(c, n)
    \/ MinutePasses

-----------------------------------------------------------------------------
(* Properties.                                                             *)

\* What a lookup answers, from the cache or not, is what the grader would have
\* said of that certificate within the time to live of the cache, or later; so is
\* what a counterfeit flag accuses a card of, at some time (get_cached,
\* verify_cert, raise_counterfeit_flag).
AnswersFresh ==
    /\ \A q \in Lookups :
         LET l == lookups[q] IN
         l.pc = "write" /\ l.answer # "unavailable" =>
             \E t \in truths : t.cert = l.cert /\ t.answer = l.answer /\ t.at + CacheTtl > l.begun
    /\ \A f \in counterfeits : \E t \in truths : t.cert = f.cert /\ t.answer = "not_found"

\* When the lookups of an instance have ended, and none was cut short, its status
\* is what one of them answered, and what it was before if none of them got an
\* answer; and a card whose certificate was not found has a counterfeit flag
\* (update_instance_status, verify_instance).
VerdictRecorded ==
    \A i \in Instances : Quiet(i) /\ ~spells[i].cut =>
        /\ verification[i] \in
             IF spells[i].given = {} THEN {spells[i].before} ELSE spells[i].given
        /\ "unverified" \in spells[i].given => \E f \in counterfeits : f.instance = i
=============================================================================
