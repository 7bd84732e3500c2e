--------------------------- MODULE Configuration ---------------------------
(* The configuration loader of internal/config, for the settings the other *)
(* components rest on: the stages runPipeline takes a document through,    *)
(* each with its own policy on mistakes, from the scalars as written to    *)
(* the effective values the worker, the retry ladder and the partition     *)
(* upkeep are handed.                                                      *)
(*                                                                         *)
(* Durations and counts are points of one ordered scale: zero stands for   *)
(* every value that is not positive, the built-in defaults keep the order  *)
(* they have in builtInDefaults, and MaxConcurrency is its highest count.  *)
EXTENDS Integers, Sequences, FiniteSets

CONSTANTS
    MaxConcurrency, \* the highest count the range rules admit
    Documents,      \* the documents under study: what each key is written as
    Merges,         \* what `<<` names under the first listener's retry
    Environments    \* what the referenced variable may be set to

\* A scalar as its author wrote it.
Absent       == [is |-> "absent"]       \* the key is not there
Null         == [is |-> "null"]         \* the key, with no value after it
Plain(v)     == [is |-> "text", value |-> v]
Unreadable   == [is |-> "text", value |-> -1]
Escaped      == [is |-> "escape"]       \* $${ , a literal ${
Malformed    == [is |-> "malformed"]    \* ${ that is not a reference
Reference    == [is |-> "reference"]    \* ${NAME}
Defaulted(w) == [is |-> "defaulted", default |-> w]  \* ${NAME:-text}

\* What the variable is set to; the empty text is told apart from unset.
EmptyText == -2
Unset == [set |-> FALSE, text |-> EmptyText]
Empty == [set |-> TRUE, text |-> EmptyText]
Value(v) == [set |-> TRUE, text |-> v]

Listeners == {"l1", "l2"}
Keys == {"lease", "drain", "concurrency", "keep", "interval", "precreate",
         "defaults.timeout", "defaults.initial", "defaults.max",
         "l1.timeout", "l2.timeout", "l1.concurrency", "l2.concurrency",
         "l1.initial", "l1.max", "a.initial", "a.max", "b.initial", "b.max"}
Anchored == {"a.initial", "a.max", "b.initial", "b.max"}

\* A text holds a number, or the number that stands for no number.
Legible(w) == w.is = "text" => w.value \in Int

\* The first } closes a reference: a default holds no whole one, only text,
\* an escape or an opening that is never closed.
Fallback(w) == w.is \in {"text", "escape", "malformed"} /\ Legible(w)

ASSUME DocumentsAssumption ==
    /\ MaxConcurrency \in Nat /\ 3 <= MaxConcurrency   \* the built-in default is admitted
    /\ \A d \in Documents :
          /\ DOMAIN d = Keys
          /\ \A k \in Keys : /\ Legible(d[k])
                             /\ d[k].is = "defaulted" => Fallback(d[k].default)
    /\ \A e \in Environments : e.text \in Int

VARIABLES
    stage,      \* the stage runPipeline is about to run
    document,   \* the tree the stages rewrite
    merges,     \* the sources of the merge key, in the order written
    env,        \* the environment of this one run
    raw,        \* the decoded tree: what each wrapper recorded
    findings,   \* the diagnostics accumulated
    warnings,   \* the warnings
    effective   \* the resolved configuration

cvars == <<stage, document, merges, env, raw, findings, warnings, effective>>

Nothing == [k \in {} |-> 0]

CInit ==
    /\ stage = "interpolate"
    /\ document \in Documents /\ merges \in Merges /\ env \in Environments
    /\ raw = Nothing /\ findings = {} /\ warnings = {} /\ effective = Nothing

\* No document is being loaded.
NoDocument ==
    /\ stage = "refused" /\ document = Nothing /\ merges = <<>> /\ env = Unset
    /\ raw = Nothing /\ findings = {} /\ warnings = {} /\ effective = Nothing

CTypeOK ==
    /\ stage \in {"interpolate", "normalize", "decode", "validate", "resolve",
                  "accepted", "refused"}
    /\ DOMAIN document \subseteq Keys /\ DOMAIN raw \subseteq Keys
    /\ effective # Nothing => stage \in {"accepted", "refused"}

----------------------------------------------------------------------------
(* Stage D.  What the environment supplies is opaque: it is never scanned  *)
(* again.  A default is the author's own text and is.                      *)

envText == IF env.text = EmptyText THEN Unreadable ELSE Plain(env.text)

\* An escape leaves text that is no number.
unescape(w) == IF w.is = "escape" THEN Unreadable ELSE w

\* The variable may be set to "", which a default stands in for too.
expand(w) ==
    CASE w.is = "escape" -> unescape(w)
      [] w.is = "reference" /\ env.set -> envText
      [] w.is = "reference" /\ ~env.set -> Malformed
      [] w.is = "defaulted" /\ env.text # EmptyText -> envText
      [] w.is = "defaulted" /\ env.text = EmptyText -> unescape(w.default)
      [] OTHER -> w

\* Accumulate over the whole document, then stop.
interpolate ==
    /\ stage = "interpolate"
    /\ LET expanded == [k \in Keys |-> expand(document[k])]
           refused  == {k \in Keys : expanded[k].is = "malformed"}
       IN IF refused = {}
          THEN document' = expanded /\ stage' = "normalize" /\ UNCHANGED findings
          ELSE /\ findings' = {<<"interpolate", k>> : k \in refused}
               /\ stage' = "refused" /\ UNCHANGED document
    /\ UNCHANGED <<merges, env, raw, warnings, effective>>

----------------------------------------------------------------------------
(* Stage E.  `<<` under a mapping: the keys written directly win wherever  *)
(* they stand, then the earlier of the sources.  A key written with no     *)
(* value is a key that was written.                                        *)

written(k) == document[k].is # "absent"

anchors == [a |-> [initial |-> "a.initial", max |-> "a.max"],
            b |-> [initial |-> "b.initial", max |-> "b.max"]]
sourceKey(i, field) == anchors[merges[i]][field]

expandedWith(key, field) ==
    LET holding == {i \in 1..Len(merges) : written(sourceKey(i, field))}
    IN IF written(key) \/ holding = {} THEN document[key]
       ELSE document[sourceKey(CHOOSE i \in holding : \A j \in holding : i <= j, field)]

\* An alias that names no anchor above it refuses the document.
normalize ==
    /\ stage = "normalize"
    /\ IF \E i \in 1..Len(merges) : merges[i] \notin {"a", "b"}
       THEN /\ findings' = {<<"undefined alias", "l1.retry">>}
            /\ stage' = "refused" /\ UNCHANGED document
       ELSE /\ document' = [document EXCEPT !["l1.initial"] = expandedWith("l1.initial", "initial"),
                                            !["l1.max"] = expandedWith("l1.max", "max")]
            /\ stage' = "decode" /\ UNCHANGED findings
    /\ UNCHANGED <<merges, env, raw, warnings, effective>>

----------------------------------------------------------------------------
(* Stage G.  A wrapper records that its key was written, and what it read; *)
(* one whose text it cannot read holds the zero Go gives it.  The decoder  *)
(* does not call a wrapper for a key without a value.                      *)

presence(w) ==
    [set     |-> w.is = "text",
     refused |-> w.is = "text" /\ w.value = -1,
     value   |-> IF w.is = "text" /\ w.value >= 0 THEN w.value ELSE 0]

decodeDocument ==
    /\ stage = "decode"
    /\ raw' = [k \in Keys |-> presence(document[k])]
    /\ findings' = {<<"unreadable", k>> : k \in {k \in Keys \ Anchored : raw'[k].refused}}
    /\ stage' = "validate"
    /\ UNCHANGED <<document, merges, env, warnings, effective>>

Valid(k) == raw[k].set /\ ~raw[k].refused

(* Stage H.  Each value by itself, and only a value that was read.         *)

PositiveKeys == {"lease", "drain", "keep", "interval", "precreate", "defaults.timeout",
                 "l1.timeout", "l2.timeout", "defaults.max", "l1.max"}
CountedKeys  == {"concurrency", "l1.concurrency", "l2.concurrency"}

concurrencyCanParticipateInComparison(v) == v \in 1..MaxConcurrency

validate ==
    /\ stage = "validate"
    /\ findings' = findings
         \cup {<<"positive", k>> : k \in {k \in PositiveKeys : Valid(k) /\ raw[k].value <= 0}}
         \cup {<<"range", k>> : k \in {k \in CountedKeys :
                  Valid(k) /\ ~concurrencyCanParticipateInComparison(raw[k].value)}}
    /\ stage' = "resolve"
    /\ UNCHANGED <<document, merges, env, raw, warnings, effective>>

----------------------------------------------------------------------------
(* Stage I.  Three layers, one field at a time, by whether a layer wrote   *)
(* the field and never by what it wrote.                                   *)

builtInDefaults ==
    [lease |-> 5, drain |-> 3, concurrency |-> 3, keep |-> 5, interval |-> 3,
     precreate |-> 5, timeout |-> 2, initial |-> 2, max |-> 5, cap |-> 0]

\* A key holds a layer's value; an empty name is a layer that has none.
merged(listener, default, builtIn) ==
    IF raw[listener].set THEN raw[listener].value
    ELSE IF default # "" THEN IF raw[default].set THEN raw[default].value ELSE builtIn
    ELSE builtIn

timeoutKey(l) == [l1 |-> "l1.timeout", l2 |-> "l2.timeout"][l]
capKey(l)     == [l1 |-> "l1.concurrency", l2 |-> "l2.concurrency"][l]
timeoutOf(l)  == merged(timeoutKey(l), "defaults.timeout", builtInDefaults.timeout)

resolveConfig ==
    [lease       |-> merged("lease", "", builtInDefaults.lease),
     drain       |-> merged("drain", "", builtInDefaults.drain),
     concurrency |-> merged("concurrency", "", builtInDefaults.concurrency),
     keep        |-> merged("keep", "", builtInDefaults.keep),
     interval    |-> merged("interval", "", builtInDefaults.interval),
     precreate   |-> merged("precreate", "", builtInDefaults.precreate),
     timeout     |-> [l \in Listeners |-> timeoutOf(l)],
     cap         |-> [l \in Listeners |-> merged(capKey(l), "", builtInDefaults.cap)],
     initial     |-> merged("l1.initial", "defaults.initial", builtInDefaults.initial),
     max         |-> merged("l1.max", "defaults.max", builtInDefaults.max)]

(* A comparison takes an effective operand together with the key that      *)
(* supplied it, and is made only between operands nothing else objects to. *)

sourceOf(listener, default) ==
    IF raw[listener].set THEN listener
    ELSE IF default # "" THEN IF raw[default].set THEN default ELSE "" ELSE ""

readable(source) == source = "" \/ Valid(source)
positive(value, source) == readable(source) /\ value > 0

\* Faulty variant: only the timeouts a listener writes itself count.
largestListenerTimeoutWritten ==
    {0} \cup {raw[timeoutKey(l)].value : l \in {l \in Listeners : Valid(timeoutKey(l))}}

\* The timeouts that count: the largest of them is what is compared.
largestListenerTimeout ==
    {0} \cup {timeoutOf(l) : l \in {l \in Listeners :
                 positive(timeoutOf(l), sourceOf(timeoutKey(l), "defaults.timeout"))}}

\* value, sound by itself, does not exceed every timeout that counts.
outlasted(value, source, strictly) ==
    positive(value, source) /\ \E t \in largestListenerTimeout :
        t > 0 /\ (IF strictly THEN value <= t ELSE value < t)

validateAtLeast(left, leftKey, right, rightKey) ==
    ~(positive(left, sourceOf(leftKey, "")) /\ positive(right, sourceOf(rightKey, ""))) \/ left >= right

validateRetryComparison(cfg) ==
    LET initialSource == sourceOf("l1.initial", "defaults.initial")
    IN \/ ~readable(initialSource)
       \/ /\ cfg.initial > 0
          /\ positive(cfg.max, sourceOf("l1.max", "defaults.max")) => cfg.initial <= cfg.max

validateConcurrencyComparison(cfg, l) ==
    \/ ~readable(sourceOf(capKey(l), "")) \/ ~readable(sourceOf("concurrency", ""))
    \/ ~concurrencyCanParticipateInComparison(cfg.cap[l])
    \/ ~concurrencyCanParticipateInComparison(cfg.concurrency)
    \/ cfg.cap[l] <= cfg.concurrency

validateEffective(cfg) ==
    {rule \in {"lease", "keep", "precreate", "retry", "concurrency"} :
        CASE rule = "lease"     -> outlasted(cfg.lease, sourceOf("lease", ""), TRUE)
          [] rule = "keep"      -> ~validateAtLeast(cfg.keep, "keep", cfg.interval, "interval")
          [] rule = "precreate" -> ~validateAtLeast(cfg.precreate, "precreate", cfg.interval, "interval")
          [] rule = "retry"     -> ~validateRetryComparison(cfg)
          [] OTHER              -> \E l \in Listeners : ~validateConcurrencyComparison(cfg, l)}

\* A drain shorter than a request is a warning, not a refusal.
drainTimeoutTooSmall(cfg) == outlasted(cfg.drain, sourceOf("drain", ""), FALSE)

resolve ==
    /\ stage = "resolve"
    /\ effective' = resolveConfig
    /\ findings' = findings \cup {<<"effective", rule>> : rule \in validateEffective(effective')}
    /\ warnings' = IF drainTimeoutTooSmall(effective') THEN {"drain"} ELSE {}
    /\ stage' = IF findings' = {} THEN "accepted" ELSE "refused"
    /\ UNCHANGED <<document, merges, env, raw>>

CNext == interpolate \/ normalize \/ decodeDocument \/ validate \/ resolve

CSpec == CInit /\ [][CNext]_cvars

----------------------------------------------------------------------------
(* What an accepted document promises the components that run on it,       *)
(* whichever layers, anchors and variables its values came from: a lease   *)
(* outlasts every request made under it, the retry ladder starts above     *)
(* zero and below its ceiling, a listener's cap fits the pool, retention   *)
(* and pre-creation span a partition, and without a warning the drain      *)
(* outlasts every request as well.                                         *)
AcceptedIsServable ==
    stage = "accepted" =>
        /\ \A l \in Listeners :
              /\ 0 < effective.timeout[l] /\ effective.timeout[l] < effective.lease
              /\ warnings = {} => effective.timeout[l] <= effective.drain
              /\ effective.cap[l] \in 0..effective.concurrency
        /\ effective.concurrency \in 1..MaxConcurrency
        /\ 0 < effective.initial /\ effective.initial <= effective.max
        /\ 0 < effective.interval
        /\ effective.interval <= effective.keep /\ effective.interval <= effective.precreate

============================================================================
