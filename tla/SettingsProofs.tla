---------------------------- MODULE SettingsProofs ----------------------------
(***************************************************************************)
(* What a configuration promises, for every document, every environment    *)
(* and every retry policy: a document the loader accepts is one the        *)
(* components can run on; for durations of any width, saturation loses     *)
(* nothing and a scheduled delay keeps within its policy; and the scanner  *)
(* of `when` clauses finds in a clause of any length what the server's     *)
(* lexer finds in it.                                                      *)
(***************************************************************************)
EXTENDS Configuration, RetrySchedule, WhenLexer, SequenceTheorems, WellFoundedInduction, TLAPS

-------------------------------------------------------------------------------
(* The least of a set of numbers: what stands in for induction here.       *)

\* The numbers in order, as a relation.
Below == {ss \in Nat \X Nat : ss[1] < ss[2]}

\* A set of indices that is not empty has a first one.
LEMMA SmallestIndex ==
  ASSUME NEW S, S \subseteq Nat, S # {}
  PROVE  \E i \in S : \A j \in S : i <= j
  <1>1. IsWellFoundedOn(Below, Nat)
    BY NatLessThanWellFounded DEF OpToRel, Below
  <1>2. PICK i \in S : \A j \in S : ~(<<j, i>> \in Below)
    BY <1>1, WFMin
  <1>3. ASSUME NEW j \in S PROVE i <= j
    <2>1. i \in Nat /\ j \in Nat /\ ~(<<j, i>> \in Below)
      BY <1>2
    <2>2. j < i => <<j, i>> \in Below
      BY <2>1 DEF Below
    <2> QED
      BY <2>1, <2>2
  <1> QED
    BY <1>3

-------------------------------------------------------------------------------
(* The loader.                                                             *)

\* A scalar before interpolation.
Scalar(w) == Legible(w) /\ (w.is = "defaulted" => Fallback(w.default))

\* What the decoder records of a key.
Recorded(x) ==
    /\ x.set \in BOOLEAN /\ x.refused \in BOOLEAN /\ x.value \in Nat

\* The stages' hand-over: legible scalars up to the decoder; from there each
\* key's record, and a finding for every record a later stage must not trust.
LInv ==
    /\ env.text \in Int
    /\ stage \in {"interpolate", "normalize", "decode"} =>
          DOMAIN document = Keys /\ \A k \in Keys : Legible(document[k])
    /\ stage = "interpolate" => \A k \in Keys : Scalar(document[k])
    /\ stage \in {"validate", "resolve"} =>
          /\ \A k \in Keys : Recorded(raw[k])
          /\ findings = {} => \A k \in Keys \ Anchored : ~raw[k].refused
    /\ stage = "resolve" =>
          (findings = {} => /\ \A k \in PositiveKeys : raw[k].set => raw[k].value > 0
                            /\ \A k \in CountedKeys : raw[k].set => raw[k].value \in 1..MaxConcurrency)
    /\ AcceptedIsServable

\* A document as it is written.
LEMMA LInvInit == CInit => LInv
  <1> SUFFICES ASSUME CInit PROVE LInv
    OBVIOUS
  <1>1. stage = "interpolate" /\ document \in Documents /\ env \in Environments
    BY DEF CInit
  <1>2. env.text \in Int /\ DOMAIN document = Keys /\ \A k \in Keys : Scalar(document[k])
    BY <1>1, DocumentsAssumption DEF Scalar
  <1> QED
    BY <1>1, <1>2 DEF LInv, AcceptedIsServable, Scalar

\* Interpolation leaves legible scalars: the environment's text or the default.
LEMMA InterpolateStep ==
  ASSUME LInv, interpolate PROVE LInv'
  <1> DEFINE expanded == [k \in Keys |-> expand(document[k])]
  <1>1. /\ env' = env /\ stage' \in {"normalize", "refused"}
        /\ stage' = "normalize" => document' = expanded
    BY DEF interpolate
  <1>2. ASSUME NEW k \in Keys PROVE Legible(expand(document[k]))
    <2> DEFINE w == document[k]
    <2>1. Scalar(w) /\ env.text \in Int
      BY DEF LInv, interpolate
    <2> HIDE DEF w
    <2>2. Legible(Unreadable) /\ Legible(Malformed) /\ Legible(envText)
      BY <2>1 DEF Legible, Unreadable, Malformed, envText, Plain
    <2>3. \/ expand(w) \in {Unreadable, envText, Malformed} \/ expand(w) = w
          \/ w.is = "defaulted" /\ expand(w) = w.default
      BY DEF expand, unescape
    <2>4. w.is = "defaulted" => Legible(w.default)
      BY <2>1 DEF Scalar, Fallback
    <2> QED
      BY <2>1, <2>2, <2>3, <2>4 DEF Scalar, w
  <1> QED
    BY <1>1, <1>2 DEF LInv, AcceptedIsServable

\* A merge gives a key the text of a source, or leaves it.
LEMMA NormalizeStep ==
  ASSUME LInv, normalize PROVE LInv'
  <1>1. env' = env /\ stage' \in {"decode", "refused"}
    BY DEF normalize
  <1>2. CASE stage' = "decode"
    <2>1. /\ \A i \in 1..Len(merges) : merges[i] \in {"a", "b"}
          /\ document' = [document EXCEPT
                             !["l1.initial"] = expandedWith("l1.initial", "initial"),
                             !["l1.max"] = expandedWith("l1.max", "max")]
          /\ DOMAIN document = Keys /\ \A k \in Keys : Legible(document[k])
      BY <1>2 DEF normalize, LInv
    <2>2. ASSUME NEW key \in Keys, NEW field \in {"initial", "max"}
          PROVE  Legible(expandedWith(key, field))
      <3> DEFINE holding == {i \in 1..Len(merges) : written(sourceKey(i, field))}
                 first == CHOOSE i \in holding : \A j \in holding : i <= j
      <3>1. \A i \in 1..Len(merges) : sourceKey(i, field) \in Keys
        BY <2>1, <2>2 DEF sourceKey, anchors, Keys
      <3>2. CASE written(key) \/ holding = {}
        BY <2>1, <2>2, <3>2 DEF expandedWith
      <3>3. CASE ~(written(key) \/ holding = {})
        <4>1. expandedWith(key, field) = document[sourceKey(first, field)]
          BY <3>3 DEF expandedWith
        <4>2. holding \subseteq Nat /\ holding # {}
          BY <3>3
        <4>3. \E i \in holding : \A j \in holding : i <= j
          BY <4>2, SmallestIndex
        <4>4. first \in holding
          BY <4>3
        <4> QED
          BY <2>1, <3>1, <4>1, <4>4
      <3> QED
        BY <3>2, <3>3
    <2>3. "l1.initial" \in Keys /\ "l1.max" \in Keys
      BY DEF Keys
    <2>4. Legible(expandedWith("l1.initial", "initial")) /\ Legible(expandedWith("l1.max", "max"))
      BY <2>2, <2>3
    <2>5. DOMAIN document' = Keys /\ \A k \in Keys : Legible(document'[k])
      BY <2>1, <2>4
    <2> QED
      BY <1>1, <1>2, <2>5 DEF LInv, AcceptedIsServable
  <1>3. CASE stage' = "refused"
    BY <1>1, <1>3 DEF LInv, AcceptedIsServable
  <1> QED
    BY <1>1, <1>2, <1>3

\* What a layer's key contributes, once the stages before it found nothing.
LEMMA MergedTwo ==
  ASSUME NEW listener \in Keys, NEW default \in Keys, NEW builtIn,
         NEW Good, builtIn \in Good, default # "",
         raw[listener].set => raw[listener].value \in Good,
         raw[default].set => raw[default].value \in Good
  PROVE  merged(listener, default, builtIn) \in Good
  BY DEF merged

\* The same for a field only one layer can write.
LEMMA MergedOne ==
  ASSUME NEW listener \in Keys, NEW builtIn, NEW Good, builtIn \in Good,
         raw[listener].set => raw[listener].value \in Good
  PROVE  merged(listener, "", builtIn) \in Good
  BY DEF merged

\* The decoder records every key, and a finding for each it could not read.
LEMMA DecodeStep ==
  ASSUME LInv, decodeDocument PROVE LInv'
  <1>1. /\ env' = env /\ stage' = "validate" /\ env.text \in Int
        /\ \A k \in Keys : Legible(document[k])
        /\ raw' = [k \in Keys |-> presence(document[k])]
        /\ findings' = {<<"unreadable", k>> : k \in {k \in Keys \ Anchored : raw'[k].refused}}
    BY DEF decodeDocument, LInv
  <1>2. ASSUME NEW k \in Keys PROVE Recorded(raw'[k])
    <2>1. raw'[k] = presence(document[k]) /\ Legible(document[k])
      BY <1>1
    <2> QED
      BY <2>1 DEF presence, Legible, Recorded
  <1>3. findings' = {} => \A k \in Keys \ Anchored : ~raw'[k].refused
    BY <1>1
  <1> QED
    BY <1>1, <1>2, <1>3 DEF LInv, AcceptedIsServable, Recorded

\* A value that was read and is out of its range is a finding.
LEMMA ValidateStep ==
  ASSUME LInv, validate PROVE LInv'
  <1> DEFINE low == {k \in PositiveKeys : Valid(k) /\ raw[k].value <= 0}
             wide == {k \in CountedKeys :
                        Valid(k) /\ ~concurrencyCanParticipateInComparison(raw[k].value)}
  <1>1. /\ env' = env /\ stage' = "resolve" /\ raw' = raw /\ env.text \in Int
        /\ \A k \in Keys : Recorded(raw[k])
        /\ findings = {} => \A k \in Keys \ Anchored : ~raw[k].refused
        /\ findings' = findings \cup {<<"positive", k>> : k \in low} \cup {<<"range", k>> : k \in wide}
    BY DEF validate, LInv
  <1>2. PositiveKeys \subseteq Keys \ Anchored /\ CountedKeys \subseteq Keys \ Anchored
    BY DEF PositiveKeys, CountedKeys, Keys, Anchored
  <1>3. ASSUME findings' = {} PROVE findings = {} /\ low = {} /\ wide = {}
    BY <1>1, <1>3
  <1>4. ASSUME findings' = {}
        PROVE  \A k \in PositiveKeys : raw[k].set => raw[k].value > 0
    <2> TAKE k \in PositiveKeys
    <2>1. ~raw[k].refused /\ k \notin low /\ raw[k].value \in Nat
      BY <1>1, <1>2, <1>3, <1>4 DEF Recorded
    <2> QED
      BY <2>1 DEF Valid
  <1>5. ASSUME findings' = {}
        PROVE  \A k \in CountedKeys : raw[k].set => raw[k].value \in 1..MaxConcurrency
    <2> TAKE k \in CountedKeys
    <2>1. ~raw[k].refused /\ k \notin wide
      BY <1>1, <1>2, <1>3, <1>5
    <2> QED
      BY <2>1 DEF Valid, concurrencyCanParticipateInComparison
  <1>6. findings' = {} => \A k \in Keys \ Anchored : ~raw[k].refused
    BY <1>1, <1>3
  <1> QED
    BY <1>1, <1>4, <1>5, <1>6 DEF LInv, AcceptedIsServable

\* What the stages before resolution leave of a document nothing was found in.
LEMMA ResolvedValues ==
  ASSUME LInv, stage = "resolve", findings = {}
  PROVE  /\ \A l \in Listeners : timeoutOf(l) \in Nat \ {0}
         /\ resolveConfig.lease \in Nat \ {0} /\ resolveConfig.drain \in Nat \ {0}
         /\ resolveConfig.keep \in Nat \ {0} /\ resolveConfig.precreate \in Nat \ {0}
         /\ resolveConfig.interval \in Nat \ {0} /\ resolveConfig.max \in Nat \ {0}
         /\ resolveConfig.initial \in Nat
         /\ resolveConfig.concurrency \in 1..MaxConcurrency
         /\ \A l \in Listeners : resolveConfig.cap[l] \in {0} \cup 1..MaxConcurrency
  <1> DEFINE Positive == Nat \ {0}
  <1>1. \A k \in PositiveKeys : raw[k].set => raw[k].value \in Positive
    BY DEF LInv, Recorded, PositiveKeys, Keys
  <1>2. \A k \in CountedKeys : raw[k].set => raw[k].value \in 1..MaxConcurrency
    BY DEF LInv
  <1>3. \A k \in Keys : raw[k].set => raw[k].value \in Nat
    BY DEF LInv, Recorded
  <1>4. PositiveKeys \subseteq Keys /\ CountedKeys \subseteq Keys
    BY DEF PositiveKeys, CountedKeys, Keys
  <1> HIDE DEF Positive
  <1>5. \A k \in PositiveKeys : \A b \in Positive : merged(k, "", b) \in Positive
    BY <1>1, <1>4, MergedOne
  <1>6. \A k \in PositiveKeys : \A d \in PositiveKeys : \A b \in Positive :
            d # "" => merged(k, d, b) \in Positive
    BY <1>1, <1>4, MergedTwo
  <1>7. ASSUME NEW l \in Listeners PROVE timeoutOf(l) \in Positive
    <2>1. timeoutKey(l) \in PositiveKeys /\ "defaults.timeout" \in PositiveKeys
      BY DEF timeoutKey, PositiveKeys, Listeners
    <2>2. builtInDefaults.timeout \in Positive
      BY DEF builtInDefaults, Positive
    <2> QED
      BY <1>6, <2>1, <2>2 DEF timeoutOf
  <1>8. /\ resolveConfig.lease \in Positive /\ resolveConfig.drain \in Positive
        /\ resolveConfig.keep \in Positive /\ resolveConfig.precreate \in Positive
        /\ resolveConfig.interval \in Positive
    <2>1. {"lease", "drain", "keep", "precreate", "interval"} \subseteq PositiveKeys
      BY DEF PositiveKeys
    <2>2. /\ builtInDefaults.lease \in Positive /\ builtInDefaults.drain \in Positive
          /\ builtInDefaults.keep \in Positive /\ builtInDefaults.precreate \in Positive
          /\ builtInDefaults.interval \in Positive
      BY DEF builtInDefaults, Positive
    <2> QED
      BY <1>5, <2>1, <2>2 DEF resolveConfig
  <1>9. resolveConfig.max \in Positive
    <2>1. "l1.max" \in PositiveKeys /\ "defaults.max" \in PositiveKeys
      BY DEF PositiveKeys
    <2>2. builtInDefaults.max \in Positive
      BY DEF builtInDefaults, Positive
    <2> QED
      BY <1>6, <2>1, <2>2 DEF resolveConfig
  <1>10. resolveConfig.initial \in Nat
    <2>1. "l1.initial" \in Keys /\ "defaults.initial" \in Keys
      BY DEF Keys
    <2>2. builtInDefaults.initial \in Nat
      BY DEF builtInDefaults
    <2>3. merged("l1.initial", "defaults.initial", builtInDefaults.initial) \in Nat
      BY <1>3, <2>1, <2>2, MergedTwo
    <2> QED
      BY <2>3 DEF resolveConfig
  <1>11. resolveConfig.concurrency \in 1..MaxConcurrency
    <2>1. "concurrency" \in CountedKeys
      BY DEF CountedKeys
    <2>2. builtInDefaults.concurrency \in 1..MaxConcurrency
      BY DocumentsAssumption DEF builtInDefaults
    <2>3. merged("concurrency", "", builtInDefaults.concurrency) \in 1..MaxConcurrency
      BY <1>2, <1>4, <2>1, <2>2, MergedOne
    <2> QED
      BY <2>3 DEF resolveConfig
  <1>12. ASSUME NEW l \in Listeners PROVE resolveConfig.cap[l] \in {0} \cup 1..MaxConcurrency
    <2>1. capKey(l) \in CountedKeys
      BY DEF capKey, CountedKeys, Listeners
    <2> DEFINE Caps == {0} \cup 1..MaxConcurrency
    <2>2. builtInDefaults.cap \in Caps /\ 1..MaxConcurrency \subseteq Caps
      BY DEF builtInDefaults
    <2> HIDE DEF Caps
    <2>3. raw[capKey(l)].set => raw[capKey(l)].value \in Caps
      BY <1>2, <2>1, <2>2
    <2>4. merged(capKey(l), "", builtInDefaults.cap) \in Caps
      BY <1>4, <2>1, <2>2, <2>3, MergedOne
    <2> QED
      BY <2>4 DEF resolveConfig, Caps
  <1> QED
    BY <1>7, <1>8, <1>9, <1>10, <1>11, <1>12 DEF Positive

\* The value a comparison takes is the one its readable key supplied.
LEMMA ReadableSources ==
  ASSUME LInv, stage = "resolve", findings = {},
         NEW listener \in Keys \ Anchored, NEW default \in (Keys \ Anchored) \cup {""}
  PROVE  readable(sourceOf(listener, default))
  <1>1. \A k \in Keys \ Anchored : ~raw[k].refused
    BY DEF LInv
  <1> QED
    BY <1>1 DEF readable, sourceOf, Valid

\* The cross-field rules, read off an empty set of findings.
LEMMA ResolveStep ==
  ASSUME LInv, resolve PROVE LInv'
  <1> DEFINE cfg == resolveConfig
  <1>1. /\ stage = "resolve" /\ env' = env /\ env.text \in Int /\ effective' = cfg
        /\ findings' = findings \cup {<<"effective", rule>> : rule \in validateEffective(cfg)}
        /\ warnings' = IF drainTimeoutTooSmall(cfg) THEN {"drain"} ELSE {}
        /\ stage' = IF findings' = {} THEN "accepted" ELSE "refused"
    BY DEF resolve, LInv
  <1>2. CASE findings' # {}
    BY <1>1, <1>2 DEF LInv, AcceptedIsServable
  <1>3. CASE findings' = {}
    <2>1. stage' = "accepted" /\ findings = {} /\ validateEffective(cfg) = {}
      BY <1>1, <1>3
    <2>2. /\ ~outlasted(cfg.lease, sourceOf("lease", ""), TRUE)
          /\ validateAtLeast(cfg.keep, "keep", cfg.interval, "interval")
          /\ validateAtLeast(cfg.precreate, "precreate", cfg.interval, "interval")
          /\ validateRetryComparison(cfg)
          /\ \A l \in Listeners : validateConcurrencyComparison(cfg, l)
      <3> HIDE DEF cfg
      <3>1. \A rule \in {"lease", "keep", "precreate", "retry", "concurrency"} :
               rule \notin validateEffective(cfg)
        BY <2>1
      <3> QED
        BY <3>1 DEF validateEffective
    <2>3. /\ \A l \in Listeners : timeoutOf(l) \in Nat \ {0}
          /\ cfg.lease \in Nat \ {0} /\ cfg.drain \in Nat \ {0}
          /\ cfg.keep \in Nat \ {0} /\ cfg.precreate \in Nat \ {0}
          /\ cfg.interval \in Nat \ {0} /\ cfg.max \in Nat \ {0}
          /\ cfg.initial \in Nat
          /\ cfg.concurrency \in 1..MaxConcurrency
          /\ \A l \in Listeners : cfg.cap[l] \in {0} \cup 1..MaxConcurrency
      BY <1>1, <2>1, ResolvedValues
    <2>4. \A l \in Listeners : cfg.timeout[l] = timeoutOf(l)
      BY DEF resolveConfig
    <2>5. \A k \in Keys \ Anchored : \A d \in (Keys \ Anchored) \cup {""} : readable(sourceOf(k, d))
      BY <1>1, <2>1, ReadableSources
    <2> DEFINE Plainly == Keys \ Anchored
    <2>6. /\ {"lease", "drain", "keep", "precreate", "interval", "concurrency", "l1.initial",
              "defaults.initial", "l1.max", "defaults.max", "defaults.timeout"} \subseteq Plainly
          /\ \A l \in Listeners : timeoutKey(l) \in Plainly /\ capKey(l) \in Plainly
      BY DEF Keys, Anchored, Listeners, timeoutKey, capKey
    <2> HIDE DEF cfg, Plainly
    <2>7. /\ readable(sourceOf("lease", "")) /\ readable(sourceOf("drain", ""))
          /\ readable(sourceOf("keep", "")) /\ readable(sourceOf("precreate", ""))
          /\ readable(sourceOf("interval", "")) /\ readable(sourceOf("concurrency", ""))
          /\ readable(sourceOf("l1.initial", "defaults.initial"))
          /\ readable(sourceOf("l1.max", "defaults.max"))
          /\ \A l \in Listeners : /\ readable(sourceOf(timeoutKey(l), "defaults.timeout"))
                                  /\ readable(sourceOf(capKey(l), ""))
      BY <2>5, <2>6 DEF Plainly
    <2>8. /\ positive(cfg.lease, sourceOf("lease", "")) /\ positive(cfg.drain, sourceOf("drain", ""))
          /\ positive(cfg.keep, sourceOf("keep", ""))
          /\ positive(cfg.precreate, sourceOf("precreate", ""))
          /\ positive(cfg.interval, sourceOf("interval", ""))
          /\ positive(cfg.max, sourceOf("l1.max", "defaults.max"))
      <3>1. cfg.lease > 0 /\ cfg.drain > 0 /\ cfg.keep > 0 /\ cfg.precreate > 0
            /\ cfg.interval > 0 /\ cfg.max > 0
        BY <2>3
      <3> QED
        BY <2>7, <3>1, Zenon DEF positive
    <2>9. ASSUME NEW l \in Listeners
          PROVE  /\ timeoutOf(l) \in largestListenerTimeout /\ timeoutOf(l) > 0
                 /\ timeoutOf(l) < cfg.lease
                 /\ warnings' = {} => timeoutOf(l) <= cfg.drain
      <3>1. timeoutOf(l) > 0 /\ timeoutOf(l) \in Nat
        BY <2>3
      <3>2. positive(timeoutOf(l), sourceOf(timeoutKey(l), "defaults.timeout"))
        BY <2>7, <3>1 DEF positive
      <3>3. timeoutOf(l) \in largestListenerTimeout
        BY <3>2 DEF largestListenerTimeout
      <3>4. timeoutOf(l) < cfg.lease
        <4>1. ~\E t \in largestListenerTimeout : t > 0 /\ cfg.lease <= t
          BY <2>2, <2>8, Zenon DEF outlasted
        <4> QED
          BY <2>3, <3>1, <3>3, <4>1
      <3>5. warnings' = {} => ~outlasted(cfg.drain, sourceOf("drain", ""), FALSE)
        BY <1>1 DEF drainTimeoutTooSmall, cfg
      <3>6. warnings' = {} => timeoutOf(l) <= cfg.drain
        <4>1. warnings' = {} => ~\E t \in largestListenerTimeout : t > 0 /\ cfg.drain < t
          BY <2>8, <3>5, Zenon DEF outlasted
        <4> QED
          BY <2>3, <3>1, <3>3, <4>1
      <3> QED
        BY <3>1, <3>3, <3>4, <3>6
    <2>10. cfg.interval <= cfg.keep /\ cfg.interval <= cfg.precreate
      BY <2>2, <2>3, <2>8 DEF validateAtLeast
    <2>11. 0 < cfg.initial /\ cfg.initial <= cfg.max
      BY <2>2, <2>3, <2>7, <2>8 DEF validateRetryComparison
    <2>12. ASSUME NEW l \in Listeners PROVE cfg.cap[l] \in 0..cfg.concurrency
      <3>1. validateConcurrencyComparison(cfg, l)
        BY <2>2
      <3>2. cfg.cap[l] = 0 \/ (cfg.cap[l] \in 1..MaxConcurrency /\ cfg.cap[l] <= cfg.concurrency)
        BY <2>3, <2>7, <3>1 DEF validateConcurrencyComparison, concurrencyCanParticipateInComparison
      <3> QED
        BY <2>3, <3>2, DocumentsAssumption
    <2>13. effective' = cfg
      BY <1>1 DEF cfg
    <2>14. AcceptedIsServable'
      <3> SUFFICES /\ \A l \in Listeners :
                        /\ 0 < cfg.timeout[l] /\ cfg.timeout[l] < cfg.lease
                        /\ warnings' = {} => cfg.timeout[l] <= cfg.drain
                        /\ cfg.cap[l] \in 0..cfg.concurrency
                   /\ cfg.concurrency \in 1..MaxConcurrency
                   /\ 0 < cfg.initial /\ cfg.initial <= cfg.max
                   /\ 0 < cfg.interval
                   /\ cfg.interval <= cfg.keep /\ cfg.interval <= cfg.precreate
        BY <2>13 DEF AcceptedIsServable
      <3>1. ASSUME NEW l \in Listeners
            PROVE  /\ 0 < cfg.timeout[l] /\ cfg.timeout[l] < cfg.lease
                   /\ warnings' = {} => cfg.timeout[l] <= cfg.drain
                   /\ cfg.cap[l] \in 0..cfg.concurrency
        BY <2>3, <2>4, <2>9, <2>12
      <3> QED
        BY <2>3, <2>10, <2>11, <3>1
    <2> QED
      BY <1>1, <2>1, <2>14 DEF LInv
  <1> QED
    BY <1>2, <1>3

\* A document the loader accepts is one the components can run on, whatever it
\* writes and whatever the environment holds: the comparisons of stage I are
\* made only between operands the earlier stages did not object to, and an
\* accepted document is one in which none was objected to.
THEOREM AcceptedServable == CSpec => []AcceptedIsServable
  <1>1. CInit => LInv
    BY LInvInit
  <1>2. LInv /\ [CNext]_cvars => LInv'
    <2> SUFFICES ASSUME LInv, [CNext]_cvars PROVE LInv'
      OBVIOUS
    <2>1. CASE UNCHANGED cvars
      BY <2>1 DEF LInv, AcceptedIsServable, cvars
    <2>2. CASE CNext
      BY <2>2, InterpolateStep, NormalizeStep, DecodeStep, ValidateStep, ResolveStep DEF CNext
    <2> QED
      BY <2>1, <2>2
  <1>3. LInv => AcceptedIsServable
    BY DEF LInv
  <1> QED
    BY <1>1, <1>2, <1>3, PTL DEF CSpec

-------------------------------------------------------------------------------
(* The retry schedule: saturating arithmetic.                              *)

\* A sequence of numbers that starts at one and doubles does not decrease.
LEMMA DoublingIsOrdered ==
  ASSUME NEW N \in Nat, NEW pow, pow[0] = 1,
         \A n \in 0..N : pow[n] \in Nat /\ pow[n + 1] = 2 * pow[n]
  PROVE  \A n \in 0..N : \A m \in 0..n : pow[m] \in Nat \ {0} /\ pow[m] <= pow[n]
  <1> DEFINE Ordered(n) == \A m \in 0..n : pow[m] \in Nat \ {0} /\ pow[m] <= pow[n]
             unordered == {n \in 0..N : ~Ordered(n)}
  <1>1. Ordered(0)
    OBVIOUS
  <1>2. ASSUME NEW n \in 0..N, n # 0, Ordered(n - 1) PROVE Ordered(n)
    <2>1. n - 1 \in 0..N /\ (n - 1) + 1 = n
      BY <1>2
    <2>2. pow[n - 1] \in Nat /\ pow[n] = 2 * pow[n - 1] /\ pow[n] \in Nat
      BY <2>1
    <2>3. n - 1 \in 0..(n - 1)
      BY <1>2
    <2>4. pow[n - 1] \in Nat \ {0}
      BY <1>2, <2>3
    <2>5. pow[n] \in Nat \ {0} /\ pow[n - 1] <= pow[n]
      BY <2>2, <2>4
    <2> SUFFICES ASSUME NEW m \in 0..n PROVE pow[m] \in Nat \ {0} /\ pow[m] <= pow[n]
      OBVIOUS
    <2>6. CASE m = n
      BY <2>5, <2>6
    <2>7. CASE m # n
      <3>1. m \in 0..(n - 1)
        BY <1>2, <2>7
      <3>2. pow[m] \in Nat \ {0} /\ pow[m] <= pow[n - 1]
        BY <1>2, <3>1
      <3> QED
        BY <3>2, <2>4, <2>5
    <2> QED
      BY <2>6, <2>7
  <1> HIDE DEF Ordered
  <1>3. unordered = {}
    <2> SUFFICES ASSUME unordered # {} PROVE FALSE
      OBVIOUS
    <2>1. unordered \subseteq Nat
      OBVIOUS
    <2>2. PICK n \in unordered : \A j \in unordered : n <= j
      BY <2>1, SmallestIndex
    <2>3. n \in 0..N /\ ~Ordered(n)
      BY <2>2
    <2>4. n # 0
      BY <1>1, <2>3
    <2>5. n - 1 \in 0..N /\ n - 1 \notin unordered
      BY <2>2, <2>3, <2>4
    <2>6. Ordered(n - 1)
      BY <2>5
    <2> QED
      BY <1>2, <2>3, <2>4, <2>6
  <1> QED
    BY <1>3 DEF Ordered

\* The same of the powers of two, as far as they are known to double.
LEMMA PowersAreOrdered ==
  ASSUME NEW N \in Nat, 2^0 = 1, \A n \in 0..N : Doubles(n)
  PROVE  \A n \in 0..N : \A m \in 0..n : 2^m \in Nat \ {0} /\ 2^m <= 2^n
  <1> DEFINE pow == [n \in Nat |-> 2^n]
  <1>1. \A n \in 0..N : n \in Nat /\ n + 1 \in Nat
    OBVIOUS
  <1>2. \A n \in Nat : pow[n] = 2^n
    OBVIOUS
  <1>3. pow[0] = 1
    BY Zenon
  <1> HIDE DEF pow
  <1>4. \A n \in 0..N : pow[n] \in Nat /\ pow[n + 1] = 2 * pow[n]
    BY <1>1, <1>2, Zenon DEF Doubles
  <1>5. \A n \in 0..N : \A m \in 0..n : pow[m] \in Nat \ {0} /\ pow[m] <= pow[n]
    BY <1>3, <1>4, DoublingIsOrdered
  <1>6. \A n \in 0..N : \A m \in 0..n : n \in Nat /\ m \in Nat
    OBVIOUS
  <1> QED
    BY <1>2, <1>5, <1>6, Zenon

\* The largest duration is a duration, and one below its power of two.
LEMMA LargestDuration ==
  /\ MaxDuration \in Nat /\ MaxDuration < 2^Bits /\ 2^Bits \in Nat
  <1>1. Bits \in Nat /\ 2^0 = 1 /\ \A n \in 0..Bits : Doubles(n)
    BY BackoffAssumption
  <1>2. \A n \in 0..Bits : \A m \in 0..n : 2^m \in Nat \ {0} /\ 2^m <= 2^n
    BY <1>1, PowersAreOrdered
  <1>3. 2^Bits \in Nat \ {0}
    BY <1>1, <1>2
  <1> QED
    BY <1>3 DEF MaxDuration

\* Division rounds down.
LEMMA Division ==
  ASSUME NEW n \in Nat, NEW d \in Nat \ {0}
  PROVE  n \div d \in Nat /\ d * (n \div d) <= n /\ n < d * (n \div d) + d
  OBVIOUS

\* A factor exceeds the quotient exactly when the product exceeds the bound.
LEMMA OverflowTest ==
  ASSUME NEW bound \in Nat, NEW v \in Nat \ {0}, NEW f \in Nat
  PROVE  f > bound \div v <=> v * f > bound
  <1> DEFINE q == bound \div v
  <1>1. q \in Nat /\ v * q <= bound /\ bound < v * q + v
    BY Division
  <1> HIDE DEF q
  <1>2. ASSUME f > q PROVE v * f > bound
    <2>1. f >= q + 1
      BY <1>1, <1>2
    <2>2. v * f >= v * (q + 1)
      BY <1>1, <2>1
    <2>3. v * (q + 1) = v * q + v /\ v * f \in Nat /\ v * q \in Nat
      BY <1>1
    <2> QED
      BY <1>1, <2>2, <2>3
  <1>3. ASSUME f <= q PROVE v * f <= bound
    <2>1. v * f <= v * q /\ v * f \in Nat /\ v * q \in Nat
      BY <1>1, <1>3
    <2> QED
      BY <1>1, <2>1
  <1>4. v * f \in Nat
    OBVIOUS
  <1> QED
    BY <1>1, <1>2, <1>3, <1>4 DEF q

\* The product, cut off at the largest duration: the overflow test is exact.
LEMMA MultiplySaturates ==
  ASSUME NEW v \in Nat, NEW f \in Nat
  PROVE  multiplyDuration(v, f) = IF v * f > MaxDuration THEN MaxDuration ELSE v * f
  <1>1. MaxDuration \in Nat
    BY LargestDuration
  <1> HIDE DEF MaxDuration
  <1>2. CASE v = 0 \/ f = 0
    BY <1>1, <1>2 DEF multiplyDuration
  <1>3. CASE v > 0 /\ f > 0
    <2>1. f > MaxDuration \div v <=> v * f > MaxDuration
      BY <1>1, <1>3, OverflowTest
    <2> QED
      BY <1>3, <2>1 DEF multiplyDuration
  <1> QED
    BY <1>2, <1>3

\* What a policy of the schedule has.
Policy(p) ==
    /\ p.initial \in Int /\ p.initial <= MaxDuration
    /\ p.max \in Int /\ p.max <= MaxDuration
    /\ p.jitter \in BOOLEAN /\ p.attempts \in Int
    /\ \A n \in 0..p.attempts : Doubles(n)

\* The longest wait a policy allows.
Cap(p) == IF p.max > 0 THEN p.max ELSE MaxDuration

\* Cutting off at the largest duration first does not show under the cap.
LEMMA ClampedOnce ==
  ASSUME NEW p, Policy(p), NEW exact \in Nat
  PROVE  clampDuration(IF exact > MaxDuration THEN MaxDuration ELSE exact, p.max)
            = IF exact > Cap(p) THEN Cap(p) ELSE exact
  <1>1. MaxDuration \in Nat
    BY LargestDuration
  <1> HIDE DEF MaxDuration
  <1> QED
    BY <1>1 DEF clampDuration, Cap, Policy

\* The factor of an exponential ladder, cut off or not, gives the same
\* saturated product as the power of two itself.
LEMMA PowerSaturates ==
  ASSUME NEW p, Policy(p), NEW n \in Nat, n >= 1, n <= 1 \/ n <= p.attempts,
         NEW base \in Nat
  PROVE  /\ 2^(n - 1) \in Nat \ {0}
         /\ multiplyDuration(base, powerOfTwo(n - 1))
               = IF base * 2^(n - 1) > MaxDuration THEN MaxDuration ELSE base * 2^(n - 1)
  <1>1. MaxDuration \in Nat /\ MaxDuration < 2^Bits /\ 2^Bits \in Nat
    BY LargestDuration
  <1>2. Bits \in Nat \ {0} /\ 2^0 = 1
    BY BackoffAssumption
  <1> HIDE DEF MaxDuration
  <1>3. CASE n = 1
    <2>1. n - 1 = 0
      BY <1>3
    <2> DEFINE k == n - 1
               t == 2^k
    <2>2. powerOfTwo(k) = 1
      BY <1>2, <2>1 DEF powerOfTwo
    <2>3. t = 2^0
      BY <2>1, Zenon
    <2> HIDE DEF k, t
    <2>4. t = 1
      BY <1>2, <2>3, Zenon
    <2>5. multiplyDuration(base, powerOfTwo(k)) = IF base * t > MaxDuration THEN MaxDuration ELSE base * t
      BY <2>2, <2>4, MultiplySaturates
    <2> QED
      BY <2>4, <2>5 DEF k, t
  <1>4. CASE n # 1
    <2> DEFINE k == n - 1
               t == 2^k
    <2>1. n \in 0..p.attempts /\ p.attempts \in Nat /\ k \in 0..p.attempts /\ k >= 1 /\ k \in Nat
      BY <1>4 DEF Policy
    <2>2. \A i \in 0..p.attempts : \A j \in 0..i : 2^j \in Nat \ {0} /\ 2^j <= 2^i
      BY <1>2, <2>1, PowersAreOrdered DEF Policy
    <2>3. t \in Nat \ {0}
      BY <2>1, <2>2
    <2>4. CASE k < Bits
      <3>1. powerOfTwo(k) = t
        BY <2>1, <2>4, <1>2 DEF powerOfTwo
      <3> HIDE DEF t, k
      <3>2. multiplyDuration(base, powerOfTwo(k)) = IF base * t > MaxDuration THEN MaxDuration ELSE base * t
        BY <2>3, <3>1, MultiplySaturates
      <3> QED
        BY <2>3, <3>2 DEF t, k
    <2>5. CASE k >= Bits
      <3>1. powerOfTwo(k) = MaxDuration
        BY <2>1, <2>5, <1>2 DEF powerOfTwo
      <3>2. Bits \in 0..k
        BY <1>2, <2>1, <2>5
      <3>3. 2^Bits <= t
        BY <2>1, <2>2, <3>2
      <3> HIDE DEF t, k
      <3>4. t > MaxDuration
        BY <1>1, <2>3, <3>3
      <3>5. multiplyDuration(base, powerOfTwo(k))
              = IF base * MaxDuration > MaxDuration THEN MaxDuration ELSE base * MaxDuration
        BY <1>1, <3>1, MultiplySaturates
      <3>6. (IF base * MaxDuration > MaxDuration THEN MaxDuration ELSE base * MaxDuration)
              = IF base * t > MaxDuration THEN MaxDuration ELSE base * t
        <4>1. CASE base = 0
          BY <1>1, <2>3, <4>1
        <4>2. CASE base >= 1
          <5>1. base * MaxDuration >= MaxDuration /\ base * t >= t
            BY <1>1, <2>3, <4>2
          <5> QED
            BY <1>1, <2>3, <3>4, <5>1
        <4> QED
          BY <4>1, <4>2
      <3> QED
        BY <2>3, <3>5, <3>6 DEF t, k
    <2> QED
      BY <1>2, <2>1, <2>4, <2>5
  <1> QED
    BY <1>3, <1>4

\* The ladder in saturating arithmetic is the exact one under its cap.
LEMMA ExactLadders ==
  ASSUME NEW p, Policy(p), NEW n \in Nat, n >= 1, n <= 1 \/ n <= p.attempts
  PROVE  /\ Ladder(p, n) = ExactLadder(p, n)
         /\ Ladder(p, n) \in 0..Cap(p) /\ Cap(p) \in 0..MaxDuration
  <1> DEFINE base == positiveDuration(p.initial)
             Sat(x) == IF x > MaxDuration THEN MaxDuration ELSE x
             Cut(x) == IF x > Cap(p) THEN Cap(p) ELSE x
  <1>1. MaxDuration \in Nat
    BY LargestDuration
  <1> HIDE DEF MaxDuration
  <1>2. base \in Nat /\ base <= MaxDuration /\ Cap(p) \in 0..MaxDuration
    BY <1>1 DEF positiveDuration, Policy, Cap
  <1>3. \A x \in Nat : clampDuration(Sat(x), p.max) = Cut(x) /\ Cut(x) \in 0..Cap(p)
    <2> TAKE x \in Nat
    <2>1. clampDuration(Sat(x), p.max) = Cut(x)
      BY ClampedOnce
    <2>2. Cut(x) \in 0..Cap(p)
      BY <1>1, <1>2
    <2> QED
      BY <2>1, <2>2
  <1> HIDE DEF base
  <1>4. CASE p.backoff = "linear"
    <2>1. base * n \in Nat
      BY <1>2
    <2>2. multiplyDuration(base, n) = Sat(base * n)
      BY <1>2, MultiplySaturates
    <2>3. Ladder(p, n) = clampDuration(multiplyDuration(base, n), p.max)
      BY <1>4 DEF Ladder, base
    <2>4. ExactLadder(p, n) = Cut(base * n)
      BY <1>4 DEF ExactLadder, Cap, base
    <2> HIDE DEF Sat, Cut
    <2> QED
      BY <1>2, <1>3, <2>1, <2>2, <2>3, <2>4
  <1>5. CASE p.backoff = "exponential"
    <2> DEFINE t == 2^(n - 1)
    <2>1. t \in Nat \ {0} /\ multiplyDuration(base, powerOfTwo(n - 1)) = Sat(base * t)
      BY <1>2, PowerSaturates
    <2>2. Ladder(p, n) = clampDuration(multiplyDuration(base, powerOfTwo(n - 1)), p.max)
      BY <1>5 DEF Ladder, base
    <2>3. ExactLadder(p, n) = Cut(base * t)
      BY <1>5 DEF ExactLadder, Cap, base
    <2> HIDE DEF Sat, Cut, t
    <2>4. base * t \in Nat
      BY <1>2, <2>1
    <2> QED
      BY <1>2, <1>3, <2>1, <2>2, <2>3, <2>4
  <1>6. CASE p.backoff \notin {"linear", "exponential"}
    <2>1. Ladder(p, n) = clampDuration(base, p.max)
      BY <1>6 DEF Ladder, base
    <2>2. ExactLadder(p, n) = Cut(base)
      BY <1>6 DEF ExactLadder, Cap, base
    <2>3. base = Sat(base)
      BY <1>1, <1>2
    <2> HIDE DEF Sat, Cut
    <2> QED
      BY <1>2, <1>3, <2>1, <2>2, <2>3
  <1> QED
    BY <1>4, <1>5, <1>6

\* A jittered delay does not exceed its rung; a header's floor is a duration.
LEMMA DelayBounds ==
  ASSUME NEW p, Policy(p), NEW n \in Nat, n >= 1, n <= 1 \/ n <= p.attempts,
         NEW draw \in Int, NEW seconds \in Nat
  PROVE  /\ parseDeltaSeconds(seconds) \in 0..MaxDuration
         /\ DelayWith(p, n, draw) \in 0..Ladder(p, n)
         /\ Ladder(p, n) \in 0..Cap(p) /\ Cap(p) \in 0..MaxDuration
  <1>1. MaxDuration \in Nat /\ Second \in Nat \ {0}
    BY LargestDuration, BackoffAssumption
  <1>2. Ladder(p, n) \in 0..Cap(p) /\ Cap(p) \in 0..MaxDuration
    BY ExactLadders
  <1> HIDE DEF MaxDuration
  <1>3. parseDeltaSeconds(seconds) \in 0..MaxDuration
    <2>1. seconds > MaxDuration \div Second <=> Second * seconds > MaxDuration
      BY <1>1, OverflowTest
    <2>2. Second * seconds = seconds * Second /\ seconds * Second \in Nat
      BY <1>1
    <2> QED
      BY <1>1, <2>1, <2>2 DEF parseDeltaSeconds
  <1> DEFINE limit == Ladder(p, n)
  <1>4. limit \in Nat
    BY <1>1, <1>2
  <1>5. DelayWith(p, n, draw) = CASE ~p.jitter \/ limit <= 0 -> limit
          [] p.jitter /\ limit > 0 /\ draw < 0     -> 0
          [] p.jitter /\ limit > 0 /\ draw > limit -> limit
          [] OTHER -> draw
    BY DEF DelayWith
  <1> HIDE DEF limit
  <1>6. DelayWith(p, n, draw) \in 0..limit
    BY <1>4, <1>5
  <1> QED
    BY <1>2, <1>3, <1>6 DEF limit

\* The schedule keeps a policy, and starts no attempt beyond its last.
SInv ==
    /\ policy \in Policies /\ attempt \in Nat
    /\ attempt <= 1 \/ attempt <= policy.attempts
    /\ DelayWithinPolicy

\* An event that is first tried has not waited.
LEMMA SInvInit == SInit => SInv
  <1> SUFFICES ASSUME SInit PROVE SInv
    OBVIOUS
  <1>1. policy \in Policies /\ attempt = 1 /\ waited = NotWaited
    BY DEF SInit
  <1>2. Policy(policy) /\ MaxDuration \in Nat
    BY <1>1, PoliciesAssumption, LargestDuration DEF Policy
  <1> HIDE DEF MaxDuration
  <1>3. Cap(policy) \in Nat
    BY <1>2 DEF Cap, Policy
  <1>4. DelayWithinPolicy
    BY <1>1, <1>3 DEF DelayWithinPolicy, NotWaited, Cap
  <1> QED
    BY <1>1, <1>4 DEF SInv

\* A wait is the rung or the floor, whichever is longer, cut off at the cap.
LEMMA RetryStep ==
  ASSUME SInv, NEW status, NEW seconds \in Nat, NEW draw \in Int, Retry(status, seconds, draw)
  PROVE  SInv'
  <1> DEFINE rung == Ladder(policy, attempt)
             floor == parseDeltaSeconds(seconds)
             drawn == DelayWith(policy, attempt, draw)
             delay == EffectiveDelay(drawn, floor, policy.max)
             cap == Cap(policy)
  <1>1. /\ policy' = policy /\ attempt' = attempt + 1
        /\ waited' = [ladder |-> rung, floor |-> floor, delay |-> delay]
        /\ attempt > 0
        /\ classifyAttempt(policy.attempts, attempt, status) = "retryable"
    BY DEF Retry, DelayAfter
  <1>2. policy \in Policies /\ Policy(policy) /\ attempt \in Nat /\ attempt >= 1
        /\ (attempt <= 1 \/ attempt <= policy.attempts)
    BY <1>1, PoliciesAssumption DEF Policy, SInv
  <1>3. attempt + 1 <= policy.attempts
    <2>1. ~Terminal(policy.attempts, attempt)
      BY <1>1 DEF classifyAttempt, ShouldRetry
    <2> QED
      BY <1>2, <2>1 DEF Terminal, Policy
  <1>4. MaxDuration \in Nat
    BY LargestDuration
  <1>5. floor \in 0..MaxDuration /\ drawn \in 0..rung /\ rung \in 0..cap /\ cap \in 0..MaxDuration
    BY <1>2, DelayBounds
  <1>6. cap = (IF policy.max > 0 THEN policy.max ELSE MaxDuration) /\ policy.max \in Int
    BY <1>2 DEF Cap, Policy
  <1> HIDE DEF rung, floor, drawn, cap, MaxDuration
  <1>7. /\ delay \in 0..cap
        /\ delay <= rung \/ delay <= floor
        /\ floor <= cap => delay >= floor
        /\ floor > cap => delay = cap
    BY <1>4, <1>5, <1>6 DEF EffectiveDelay, clampDuration, positiveDuration
  <1> HIDE DEF delay
  <1>8. DelayWithinPolicy'
    BY <1>1, <1>6, <1>7 DEF DelayWithinPolicy
  <1> QED
    BY <1>1, <1>2, <1>3, <1>8 DEF SInv

\* The schedule's invariant.
LEMMA ScheduleInvariant == SSpec => []SInv
  <1>1. SInit => SInv
    BY SInvInit
  <1>2. SInv /\ [SNext]_svars => SInv'
    <2> SUFFICES ASSUME SInv, [SNext]_svars PROVE SInv'
      OBVIOUS
    <2>1. CASE UNCHANGED svars
      BY <2>1 DEF SInv, DelayWithinPolicy, svars
    <2>2. ASSUME NEW status, Settled(status) PROVE SInv'
      BY <2>2 DEF SInv, DelayWithinPolicy, Settled
    <2>3. ASSUME NEW status, NEW seconds \in RetryAfters,
                 NEW draw \in 0..(JitterBound(Ladder(policy, attempt)) - 1),
                 Retry(status, IF status = TransportError THEN 0 ELSE seconds, draw)
          PROVE  SInv'
      <3> DEFINE given == IF status = TransportError THEN 0 ELSE seconds
      <3>1. given \in Nat /\ draw \in Int
        BY PoliciesAssumption
      <3>2. Retry(status, given, draw)
        BY <2>3
      <3> HIDE DEF given
      <3> QED
        BY <3>1, <3>2, RetryStep
    <2> QED
      BY <2>1, <2>2, <2>3 DEF SNext
  <1> QED
    BY <1>1, <1>2, PTL DEF SSpec

\* A delay is a duration of its policy: within max_interval, or the largest
\* duration, whatever a header asks for and whatever the jitter drew.
THEOREM DelaysKeepPolicy == SSpec => []DelayWithinPolicy
  <1>1. SInv => DelayWithinPolicy
    BY DEF SInv
  <1> QED
    BY <1>1, ScheduleInvariant, PTL

\* Saturation is exact: the ladder computed in durations of any width is the
\* ladder of unbounded arithmetic under its cap, at every attempt a policy
\* makes.
THEOREM LaddersAreExact == SSpec => []LadderIsExact
  <1>1. SInv => LadderIsExact
    <2> SUFFICES ASSUME SInv, attempt > 0
                 PROVE  Ladder(policy, attempt) = ExactLadder(policy, attempt)
      BY DEF LadderIsExact
    <2>1. Policy(policy) /\ attempt \in Nat /\ attempt >= 1
          /\ (attempt <= 1 \/ attempt <= policy.attempts)
      BY PoliciesAssumption DEF SInv, Policy
    <2> QED
      BY <2>1, ExactLadders
  <1> QED
    BY <1>1, ScheduleInvariant, PTL

-------------------------------------------------------------------------------
(* The scanner of `when` clauses: what its recursive functions satisfy.    *)

\* Induction down from a bound, on a set of numbers.
LEMMA Downward ==
  ASSUME NEW n \in Nat, NEW S,
         \A p \in 1..n : (\A r \in (p + 1)..n : r \in S) => p \in S
  PROVE  \A p \in 1..n : p \in S
  <1> DEFINE Bad == {k \in Nat : \E p \in 1..n : p \notin S /\ k = n - p}
  <1>1. ASSUME Bad # {} PROVE FALSE
    <2>1. PICK k \in Bad : \A j \in Bad : k <= j
      <3>1. Bad \subseteq Nat
        OBVIOUS
      <3> HIDE DEF Bad
      <3> QED
        BY <1>1, <3>1, SmallestIndex
    <2>2. PICK p \in 1..n : p \notin S /\ k = n - p
      BY <2>1
    <2>3. ASSUME NEW r \in (p + 1)..n PROVE r \in S
      <3>1. r \in 1..n /\ n - r \in Nat /\ ~(k <= n - r)
        BY <2>2
      <3>2. n - r \notin Bad
        BY <2>1, <3>1
      <3> QED
        BY <3>1, <3>2
    <2> QED
      BY <2>2, <2>3
  <1>2. ASSUME NEW p \in 1..n, p \notin S PROVE FALSE
    <2>1. n - p \in Nat
      OBVIOUS
    <2>2. n - p \in Bad
      BY <1>2, <2>1
    <2> QED
      BY <1>1, <2>2
  <1> QED
    BY <1>2

\* A recursive step G on D: a value for each argument x and each function f that
\* gives the values at the arguments of smaller measure, all below B.
RecursiveStep(G, D, U, mu, B) ==
    /\ U # {} /\ B \in Nat
    /\ mu \in [D -> Nat] /\ \A x \in D : mu[x] < B
    /\ G \in [[D -> U] \X D -> U]
    /\ \A f, g \in [D -> U] : \A x \in D :
          (\A y \in D : mu[y] < mu[x] => f[y] = g[y]) => G[<<f, x>>] = G[<<g, x>>]

\* The function that G defines.
Fixed(f, G, D) == \A x \in D : f[x] = G[<<f, x>>]

\* Such a step has a recursive function.
LEMMA RecursiveFunction ==
  ASSUME NEW D, NEW U, NEW mu, NEW B, NEW G, RecursiveStep(G, D, U, mu, B)
  PROVE  \E f \in [D -> U] : Fixed(f, G, D)
  <1> USE DEF RecursiveStep
  <1> DEFINE Good(f, n) == \A x \in D : mu[x] < n => f[x] = G[<<f, x>>]
             Bad == {n \in Nat : ~\E f \in [D -> U] : Good(f, n)}
  <1>1. ASSUME Bad # {} PROVE FALSE
    <2>1. PICK n \in Bad : \A m \in Bad : n <= m
      <3>1. Bad \subseteq Nat
        OBVIOUS
      <3> HIDE DEF Bad
      <3> QED
        BY <1>1, <3>1, SmallestIndex
    <2>2. n \in Nat /\ ~\E f \in [D -> U] : Good(f, n)
      BY <2>1
    <2>3. CASE n = 0
      <3>1. PICK u \in U : TRUE
        OBVIOUS
      <3> DEFINE f == [x \in D |-> u]
      <3>2. f \in [D -> U]
        OBVIOUS
      <3>3. \A x \in D : ~(mu[x] < 0)
        OBVIOUS
      <3> HIDE DEF f
      <3>4. Good(f, n)
        BY <2>3, <3>3
      <3> QED
        BY <2>2, <3>2, <3>4
    <2>4. CASE n # 0
      <3>0. n - 1 \in Nat /\ ~(n <= n - 1)
        BY <2>2, <2>4
      <3>1. n - 1 \notin Bad
        <4> HIDE DEF Bad
        <4> QED
          BY <2>1, <3>0
      <3>2. PICK f \in [D -> U] : Good(f, n - 1)
        BY <3>0, <3>1
      <3> DEFINE g == [x \in D |-> G[<<f, x>>]]
      <3>3. g \in [D -> U]
        OBVIOUS
      <3>4. \A x \in D : mu[x] \in Nat /\ g[x] = G[<<f, x>>]
        OBVIOUS
      <3> HIDE DEF g
      <3>5. \A x \in D : mu[x] < n - 1 => g[x] = f[x]
        BY <3>2, <3>4
      <3>6. ASSUME NEW x \in D, mu[x] < n PROVE g[x] = G[<<g, x>>]
        <4>1. \A y \in D : mu[y] < mu[x] => mu[y] < n - 1
          BY <2>2, <3>4, <3>6
        <4>2. \A y \in D : mu[y] < mu[x] => f[y] = g[y]
          BY <3>5, <4>1
        <4>3. G[<<f, x>>] = G[<<g, x>>]
          BY <3>3, <4>2
        <4> QED
          BY <3>4, <4>3
      <3>7. Good(g, n)
        BY <3>6
      <3> QED
        BY <2>2, <3>3, <3>7
    <2> QED
      BY <2>3, <2>4
  <1>2. PICK f \in [D -> U] : Good(f, B)
    BY <1>1
  <1> QED
    BY <1>2 DEF Fixed

-------------------------------------------------------------------------------
(* Runs of bytes and line comments.                                        *)

\* Where a run of a class from i on may end.
EndsRun(s, i, class, e) ==
    /\ e \in i..(Len(s) + 1)
    /\ \A k \in i..(e - 1) : s[k] \in class
    /\ e = Len(s) + 1 \/ s[e] \notin class

\* It ends in one place only.
LEMMA RunEndsOnce ==
  ASSUME NEW A, NEW s \in Seq(A), NEW i \in 1..(Len(s) + 1), NEW class,
         NEW e, EndsRun(s, i, class, e), NEW f, EndsRun(s, i, class, f)
  PROVE  e = f
  <1>1. Len(s) \in Nat /\ e \in i..(Len(s) + 1) /\ f \in i..(Len(s) + 1)
    BY DEF EndsRun
  <1>2. CASE e < f
    <2>1. e \in i..(f - 1) /\ e # Len(s) + 1
      BY <1>1, <1>2
    <2> QED
      BY <2>1 DEF EndsRun
  <1>3. CASE f < e
    <2>1. f \in i..(e - 1) /\ f # Len(s) + 1
      BY <1>1, <1>3
    <2> QED
      BY <2>1 DEF EndsRun
  <1> QED
    BY <1>1, <1>2, <1>3

\* endOfByteRun is that place.
LEMMA RunEnd ==
  ASSUME NEW A, NEW s \in Seq(A), NEW i \in 1..(Len(s) + 1), NEW class
  PROVE  EndsRun(s, i, class, endOfByteRun(s, i, class))
  <1> DEFINE S == {e \in i..(Len(s) + 1) : e = Len(s) + 1 \/ s[e] \notin class}
  <1>1. Len(s) \in Nat /\ Len(s) + 1 \in S /\ S \subseteq Nat
    OBVIOUS
  <1>2. PICK e \in S : \A f \in S : e <= f
    <2> HIDE DEF S
    <2> QED
      BY <1>1, SmallestIndex
  <1>3. ASSUME NEW k \in i..(e - 1) PROVE s[k] \in class
    <2>1. k \in i..(Len(s) + 1) /\ k # Len(s) + 1 /\ ~(e <= k)
      BY <1>1
    <2> QED
      BY <1>2, <2>1
  <1>4. EndsRun(s, i, class, e)
    BY <1>3 DEF EndsRun
  <1>5. \E x \in i..(Len(s) + 1) :
            /\ \A k \in i..(x - 1) : s[k] \in class
            /\ x = Len(s) + 1 \/ s[x] \notin class
    BY <1>4 DEF EndsRun
  <1> QED
    BY <1>5 DEF EndsRun, endOfByteRun

\* A run that begins with a byte of its class goes on from the next one; any
\* other ends at once.
LEMMA RunStep ==
  ASSUME NEW A, NEW s \in Seq(A), NEW i \in 1..(Len(s) + 1), NEW class
  PROVE  /\ i <= Len(s) /\ s[i] \in class =>
              endOfByteRun(s, i, class) = endOfByteRun(s, i + 1, class)
         /\ i = Len(s) + 1 \/ s[i] \notin class => endOfByteRun(s, i, class) = i
  <1> DEFINE e == endOfByteRun(s, i, class)
  <1>0. EndsRun(s, i, class, e) /\ Len(s) \in Nat
    BY RunEnd
  <1>1. ASSUME i <= Len(s), s[i] \in class PROVE e = endOfByteRun(s, i + 1, class)
    <2> DEFINE f == endOfByteRun(s, i + 1, class)
    <2>1. i + 1 \in 1..(Len(s) + 1)
      BY <1>0, <1>1
    <2>2. EndsRun(s, i + 1, class, f)
      BY <2>1, RunEnd
    <2> HIDE DEF f
    <2>3. f \in i..(Len(s) + 1) /\ \A k \in i..(f - 1) : k = i \/ k \in (i + 1)..(f - 1)
      BY <2>2 DEF EndsRun
    <2>4. EndsRun(s, i, class, f)
      BY <1>1, <2>2, <2>3 DEF EndsRun
    <2> QED
      BY <1>0, <2>4, RunEndsOnce DEF f
  <1>2. ASSUME i = Len(s) + 1 \/ s[i] \notin class PROVE e = i
    <2>1. i \in i..(Len(s) + 1) /\ \A k \in i..(i - 1) : FALSE
      BY <1>0
    <2>2. EndsRun(s, i, class, i)
      BY <1>2, <2>1 DEF EndsRun
    <2> QED
      BY <1>0, <2>2, RunEndsOnce
  <1> QED
    BY <1>1, <1>2

\* The bytes of a clause that end no line.
Inline(s) == {s[k] : k \in 1..Len(s)} \ newlines

\* A line comment ends past its newline, and so does what is left of it.
LEMMA LineStep ==
  ASSUME NEW A, NEW s \in Seq(A), NEW i \in 1..(Len(s) + 1)
  PROVE  /\ endOfLineComment(s, i) \in i..(Len(s) + 1)
         /\ i <= Len(s) => endOfLineComment(s, i) > i
         /\ i <= Len(s) /\ s[i] \in newlines => endOfLineComment(s, i) = i + 1
         /\ i <= Len(s) /\ s[i] \notin newlines =>
              endOfLineComment(s, i) = endOfLineComment(s, i + 1)
         /\ i = Len(s) + 1 => endOfLineComment(s, i) = Len(s) + 1
  <1> DEFINE e == endOfByteRun(s, i, Inline(s))
  <1>0. Len(s) \in Nat /\ endOfLineComment(s, i) = IF e > Len(s) THEN e ELSE e + 1
    BY DEF endOfLineComment, Inline
  <1>1. e \in i..(Len(s) + 1)
    BY RunEnd DEF EndsRun
  <1>2. ASSUME i <= Len(s) PROVE s[i] \in Inline(s) <=> s[i] \notin newlines
    BY <1>2 DEF Inline
  <1>3. ASSUME i <= Len(s), s[i] \in newlines PROVE endOfLineComment(s, i) = i + 1
    <2>1. e = i
      BY <1>2, <1>3, RunStep
    <2> HIDE DEF e
    <2> QED
      BY <1>0, <1>3, <2>1
  <1>4. ASSUME i <= Len(s), s[i] \notin newlines
        PROVE  endOfLineComment(s, i) = endOfLineComment(s, i + 1)
    <2>1. e = endOfByteRun(s, i + 1, Inline(s))
      BY <1>2, <1>4, RunStep
    <2> QED
      BY <1>0, <2>1 DEF endOfLineComment, Inline
  <1>5. ASSUME i = Len(s) + 1 PROVE endOfLineComment(s, i) = Len(s) + 1
    <2> HIDE DEF e
    <2> QED
      BY <1>0, <1>1, <1>5
  <1>6. ASSUME i <= Len(s) PROVE endOfLineComment(s, i) > i
    <2> HIDE DEF e
    <2> QED
      BY <1>0, <1>1, <1>6
  <1>7. endOfLineComment(s, i) \in i..(Len(s) + 1)
    <2> HIDE DEF e
    <2> QED
      BY <1>0, <1>1
  <1> QED
    BY <1>3, <1>4, <1>5, <1>6, <1>7

-------------------------------------------------------------------------------
(* The scanner's recursive functions.                                      *)

\* Whitespace and line comments are stepped over one at a time.
LEMMA GapDef ==
  ASSUME NEW A, NEW s \in Seq(A), NEW i \in 1..(Len(s) + 1)
  PROVE  LET e == endOfByteRun(s, i, spaces)
         IN  gap(s)[i] = IF startsWith(s, e, "-", "-") THEN gap(s)[endOfLineComment(s, e)] ELSE e
  <1> DEFINE N == Len(s)
             D == 1..(N + 1)
             U == 1..(N + 1)
             mu == [x \in D |-> N + 1 - x]
             run(x) == endOfByteRun(s, x, spaces)
             next(x) == endOfLineComment(s, run(x))
             more(x) == startsWith(s, run(x), "-", "-")
             G == [z \in [D -> U] \X D |-> IF more(z[2]) THEN z[1][next(z[2])] ELSE run(z[2])]
  <1>0. N \in Nat
    OBVIOUS
  <1>1. \A x \in D : /\ run(x) \in x..(N + 1) /\ next(x) \in D
                     /\ more(x) => next(x) > x
    <2> SUFFICES ASSUME NEW x \in D
                 PROVE  /\ run(x) \in x..(N + 1) /\ next(x) \in D
                        /\ more(x) => next(x) > x
      OBVIOUS
    <2>1. run(x) \in x..(N + 1)
      BY RunEnd DEF EndsRun
    <2>2. run(x) \in D
      BY <1>0, <2>1
    <2>3. next(x) \in run(x)..(N + 1) /\ (run(x) <= N => next(x) > run(x))
      BY <2>2, LineStep
    <2>4. more(x) => run(x) < N
      BY DEF startsWith
    <2> HIDE DEF run, next, more
    <2> QED
      BY <1>0, <2>1, <2>2, <2>3, <2>4
  <1> HIDE DEF run, next, more
  <1>2. mu \in [D -> Nat] /\ \A x \in D : mu[x] < N + 1
    BY <1>0
  <1>3. G \in [[D -> U] \X D -> U]
    <2>1. ASSUME NEW z \in [D -> U] \X D
          PROVE  (IF more(z[2]) THEN z[1][next(z[2])] ELSE run(z[2])) \in U
      <3>1. z[1] \in [D -> U] /\ z[2] \in D
        OBVIOUS
      <3>2. next(z[2]) \in D /\ run(z[2]) \in U
        BY <1>0, <1>1, <3>1
      <3> QED
        BY <3>1, <3>2
    <2> QED
      BY <2>1
  <1>4. ASSUME NEW f \in [D -> U], NEW g \in [D -> U], NEW x \in D,
               \A y \in D : mu[y] < mu[x] => f[y] = g[y]
        PROVE  G[<<f, x>>] = G[<<g, x>>]
    <2>1. more(x) => mu[next(x)] < mu[x]
      BY <1>0, <1>1
    <2>2. more(x) => f[next(x)] = g[next(x)]
      BY <1>1, <1>4, <2>1
    <2> QED
      BY <2>2
  <1>5. \E f \in [D -> U] : \A x \in D : f[x] = G[<<f, x>>]
    <2>1. U # {} /\ N + 1 \in Nat
      BY <1>0
    <2>2. RecursiveStep(G, D, U, mu, N + 1)
      <3> HIDE DEF D, U, mu, G
      <3> QED
        BY <1>2, <1>3, <1>4, <2>1 DEF RecursiveStep
    <2>3. \E f \in [D -> U] : Fixed(f, G, D)
      <3> HIDE DEF D, U, mu, G
      <3> QED
        BY <2>2, RecursiveFunction
    <2> QED
      BY <2>3 DEF Fixed
  <1>6. PICK f \in [D -> U] : \A x \in D : f[x] = G[<<f, x>>]
    BY <1>5
  <1>7. \A x \in D : f[x] = IF more(x) THEN f[next(x)] ELSE run(x)
    BY <1>6
  <1>8. f = [x \in D |-> IF more(x) THEN f[next(x)] ELSE run(x)]
    <2> HIDE DEF D, U, G
    <2> QED
      BY <1>7
  <1>9. gap(s) = CHOOSE h : h = [x \in D |-> IF more(x) THEN h[next(x)] ELSE run(x)]
    BY DEF gap, more, next, run
  <1>10. gap(s) = [x \in D |-> IF more(x) THEN gap(s)[next(x)] ELSE run(x)]
    <2> HIDE DEF D, U, G
    <2> QED
      BY <1>8, <1>9
  <1> QED
    BY <1>10 DEF more, next, run

\* A gap begins with a space, with a line comment, or is empty.
LEMMA GapStep ==
  ASSUME NEW A, NEW s \in Seq(A), NEW i \in 1..(Len(s) + 1)
  PROVE  /\ gap(s)[i] \in i..(Len(s) + 1)
         /\ i <= Len(s) /\ s[i] \in spaces => gap(s)[i] = gap(s)[i + 1]
         /\ startsWith(s, i, "-", "-") => gap(s)[i] = gap(s)[endOfLineComment(s, i)]
         /\ i = Len(s) + 1 \/ (s[i] \notin spaces /\ ~startsWith(s, i, "-", "-")) => gap(s)[i] = i
  <1> DEFINE run(x) == endOfByteRun(s, x, spaces)
             more(x) == startsWith(s, run(x), "-", "-")
             S == {x \in 1..(Len(s) + 1) : gap(s)[x] \in x..(Len(s) + 1)}
  <1>0. Len(s) \in Nat
    OBVIOUS
  <1>1. \A x \in 1..(Len(s) + 1) :
            gap(s)[x] = IF more(x) THEN gap(s)[endOfLineComment(s, run(x))] ELSE run(x)
    BY GapDef
  <1>2. \A x \in 1..(Len(s) + 1) : run(x) \in x..(Len(s) + 1)
    BY RunEnd DEF EndsRun
  <1>3. ASSUME NEW p \in 1..(Len(s) + 1), \A r \in (p + 1)..(Len(s) + 1) : r \in S
        PROVE  p \in S
    <2>0. run(p) \in p..(Len(s) + 1) /\ run(p) \in 1..(Len(s) + 1)
      BY <1>0, <1>2
    <2>1. CASE more(p)
      <3> DEFINE l == endOfLineComment(s, run(p))
      <3>1. run(p) <= Len(s)
        BY <1>0, <2>0, <2>1 DEF startsWith
      <3>2. l \in run(p)..(Len(s) + 1) /\ l > run(p)
        BY <2>0, <3>1, LineStep
      <3>3. gap(s)[p] = gap(s)[l]
        BY <1>1, <2>1
      <3> HIDE DEF l, run
      <3>4. l \in (p + 1)..(Len(s) + 1)
        BY <1>0, <2>0, <3>2
      <3>5. gap(s)[l] \in l..(Len(s) + 1)
        BY <1>3, <3>4
      <3>6. gap(s)[p] \in p..(Len(s) + 1)
        BY <1>0, <3>3, <3>4, <3>5
      <3> QED
        BY <3>6
    <2>2. CASE ~more(p)
      <3>1. gap(s)[p] = run(p)
        BY <1>1, <2>2
      <3> HIDE DEF run, more
      <3> QED
        BY <2>0, <3>1
    <2> QED
      BY <2>1, <2>2
  <1>4. i \in S
    <2> HIDE DEF S
    <2>1. Len(s) + 1 \in Nat
      BY <1>0
    <2> QED
      BY <1>3, <2>1, Downward
  <1>5. ASSUME i <= Len(s), s[i] \in spaces PROVE gap(s)[i] = gap(s)[i + 1]
    <2>1. i + 1 \in 1..(Len(s) + 1)
      BY <1>0, <1>5
    <2>2. run(i) = run(i + 1)
      BY <1>5, RunStep
    <2> HIDE DEF run
    <2> QED
      BY <1>1, <2>1, <2>2
  <1>6. ASSUME i = Len(s) + 1 \/ s[i] \notin spaces PROVE run(i) = i
    BY <1>6, RunStep
  <1>7. ASSUME startsWith(s, i, "-", "-") PROVE s[i] \notin spaces
    BY <1>7 DEF startsWith, spaces, newlines
  <1>8. ASSUME i = Len(s) + 1 PROVE ~startsWith(s, i, "-", "-")
    BY <1>0, <1>8 DEF startsWith
  <1> HIDE DEF run
  <1> QED
    BY <1>1, <1>4, <1>5, <1>6, <1>7, <1>8

\* A string is continued only by a quote within the clause.
LEMMA ContinuationWithin ==
  ASSUME NEW A, NEW s \in Seq(A), NEW i \in 1..Len(s), NEW quote, continuationQuote(s, i + 1, quote)
  PROVE  gap(s)[i + 1] \in (i + 1)..Len(s)
  <1>1. Len(s) \in Nat /\ i + 1 \in 1..(Len(s) + 1)
    OBVIOUS
  <1>2. gap(s)[i + 1] \in (i + 1)..(Len(s) + 1)
    BY <1>1, GapStep
  <1>3. gap(s)[i + 1] <= Len(s)
    BY DEF continuationQuote
  <1> QED
    BY <1>1, <1>2, <1>3

\* The body of a literal, one piece at a time.
LEMMA QuotedDef ==
  ASSUME NEW A, NEW s \in Seq(A), NEW quote, NEW escapes, NEW i \in 1..(Len(s) + 2)
  PROVE  LET b == quoted(s, quote, escapes)
         IN  b[i] = IF i > Len(s) THEN Len(s) + 1
                    ELSE IF escapes /\ s[i] = "\\" THEN b[i + 2]
                    ELSE IF s[i] # quote THEN b[i + 1]
                    ELSE IF startsWith(s, i, quote, quote) THEN b[i + 2]
                    ELSE IF continuationQuote(s, i + 1, quote) THEN b[gap(s)[i + 1] + 1]
                    ELSE i + 1
  <1> DEFINE N == Len(s)
             D == 1..(N + 2)
             U == 1..(N + 1)
             mu == [x \in D |-> N + 2 - x]
             hides(x) == escapes /\ s[x] = "\\"
             doubled(x) == startsWith(s, x, quote, quote)
             joins(x) == continuationQuote(s, x + 1, quote)
             body(f, x) == IF x > N THEN N + 1
                           ELSE IF hides(x) THEN f[x + 2]
                           ELSE IF s[x] # quote THEN f[x + 1]
                           ELSE IF doubled(x) THEN f[x + 2]
                           ELSE IF joins(x) THEN f[gap(s)[x + 1] + 1]
                           ELSE x + 1
             G == [z \in [D -> U] \X D |-> body(z[1], z[2])]
  <1>0. N \in Nat
    OBVIOUS
  <1>1. \A x \in 1..N : joins(x) => gap(s)[x + 1] + 1 \in (x + 1)..(N + 1)
    <2> SUFFICES ASSUME NEW x \in 1..N, joins(x) PROVE gap(s)[x + 1] + 1 \in (x + 1)..(N + 1)
      OBVIOUS
    <2>1. gap(s)[x + 1] \in (x + 1)..N
      BY ContinuationWithin
    <2> QED
      BY <1>0, <2>1
  <1>2. mu \in [D -> Nat] /\ \A x \in D : mu[x] < N + 2
    BY <1>0
  <1> HIDE DEF hides, doubled, joins
  <1>3. ASSUME NEW f \in [D -> U], NEW x \in D PROVE body(f, x) \in U
    <2>1. CASE x > N
      <3>1. N + 1 \in U
        BY <1>0
      <3> HIDE DEF U
      <3> QED
        BY <2>1, <3>1
    <2>2. CASE x <= N
      <3>1. x \in 1..N /\ x + 1 \in D /\ x + 2 \in D /\ x + 1 \in U /\ ~(x > N)
        BY <1>0, <2>2
      <3>2. joins(x) => gap(s)[x + 1] + 1 \in D
        BY <1>0, <1>1, <3>1
      <3> HIDE DEF D, U
      <3>3. f[x + 1] \in U /\ f[x + 2] \in U /\ (joins(x) => f[gap(s)[x + 1] + 1] \in U)
        BY <3>1, <3>2
      <3> QED
        BY <3>1, <3>3
    <2> QED
      BY <1>0, <2>1, <2>2
  <1>4. G \in [[D -> U] \X D -> U]
    <2> HIDE DEF body, D, U
    <2> QED
      BY <1>3
  <1>5. ASSUME NEW f \in [D -> U], NEW g \in [D -> U], NEW x \in D,
               \A y \in D : mu[y] < mu[x] => f[y] = g[y]
        PROVE  G[<<f, x>>] = G[<<g, x>>]
    <2>1. \A y \in D : y > x => f[y] = g[y]
      BY <1>0, <1>5
    <2>2. CASE x > N
      BY <2>2
    <2>3. CASE x <= N
      <3>1. x \in 1..N /\ x + 1 \in D /\ x + 1 > x /\ x + 2 \in D /\ x + 2 > x
        BY <1>0, <2>3
      <3>2. f[x + 1] = g[x + 1] /\ f[x + 2] = g[x + 2]
        BY <2>1, <3>1
      <3>3. joins(x) => gap(s)[x + 1] + 1 \in D /\ gap(s)[x + 1] + 1 > x
        BY <1>0, <1>1, <3>1
      <3>4. joins(x) => f[gap(s)[x + 1] + 1] = g[gap(s)[x + 1] + 1]
        BY <2>1, <3>3
      <3>5. body(f, x) = body(g, x)
        BY <3>2, <3>4
      <3> HIDE DEF body, D, U
      <3> QED
        BY <3>5
    <2> QED
      BY <1>0, <2>2, <2>3
  <1>6. RecursiveStep(G, D, U, mu, N + 2)
    <2>1. 1 \in U /\ N + 2 \in Nat
      BY <1>0
    <2> HIDE DEF D, U, mu, G
    <2> QED
      BY <1>2, <1>4, <1>5, <2>1 DEF RecursiveStep
  <1>7. PICK f \in [D -> U] : Fixed(f, G, D)
    <2> HIDE DEF D, U, mu, G
    <2> QED
      BY <1>6, RecursiveFunction
  <1>8. \A x \in D : f[x] = body(f, x)
    <2> HIDE DEF body, D, U
    <2> QED
      BY <1>7 DEF Fixed
  <1>9. f = [x \in D |-> body(f, x)]
    <2> HIDE DEF body, D, U
    <2> QED
      BY <1>8
  <1>10. quoted(s, quote, escapes) = CHOOSE h : h = [x \in D |-> body(h, x)]
    BY DEF quoted, hides, doubled, joins
  <1>11. quoted(s, quote, escapes) = [x \in D |-> body(quoted(s, quote, escapes), x)]
    <2> HIDE DEF body, D, U
    <2> QED
      BY <1>9, <1>10
  <1>12. quoted(s, quote, escapes)[i] = body(quoted(s, quote, escapes), i)
    <2> HIDE DEF body
    <2> QED
      BY <1>11
  <1> QED
    BY <1>12 DEF hides, doubled, joins

\* A literal ends within the clause, after where it is read from.
LEMMA QuotedBounds ==
  ASSUME NEW A, NEW s \in Seq(A), NEW quote, NEW escapes, NEW i \in 1..(Len(s) + 1)
  PROVE  quoted(s, quote, escapes)[i] \in i..(Len(s) + 1)
  <1> DEFINE N == Len(s)
             b == quoted(s, quote, escapes)
             S == {x \in 1..(N + 2) : b[x] \in 1..(N + 1) /\ (x <= N => b[x] > x)}
  <1>0. N \in Nat
    OBVIOUS
  <1>1. ASSUME NEW p \in 1..(N + 2), \A r \in (p + 1)..(N + 2) : r \in S
        PROVE  p \in S
    <2>1. b[p] = IF p > Len(s) THEN Len(s) + 1
                    ELSE IF escapes /\ s[p] = "\\" THEN b[p + 2]
                    ELSE IF s[p] # quote THEN b[p + 1]
                    ELSE IF startsWith(s, p, quote, quote) THEN b[p + 2]
                    ELSE IF continuationQuote(s, p + 1, quote) THEN b[gap(s)[p + 1] + 1]
                    ELSE p + 1
      BY QuotedDef
    <2> HIDE DEF b
    <2>2. CASE p > N
      <3>1. b[p] = N + 1 /\ ~(p <= N) /\ N + 1 \in 1..(N + 1)
        BY <1>0, <2>1, <2>2
      <3> QED
        BY <3>1
    <2>3. CASE p <= N
      <3>0. p \in 1..N
        BY <1>0, <2>3
      <3>1. ASSUME NEW r \in (p + 1)..(N + 2), b[p] = b[r] PROVE p \in S
        <4>1. b[r] \in 1..(N + 1) /\ (r <= N => b[r] > r)
          BY <1>1, <3>1
        <4>2. CASE r <= N
          <5>1. b[p] > p
            BY <1>0, <3>1, <4>1, <4>2
          <5> QED
            BY <3>1, <4>1, <5>1
        <4>3. CASE r > N
          <5>1. b[r] = N + 1
            BY <1>0, <4>3, QuotedDef DEF b
          <5>2. b[p] > p
            BY <1>0, <2>3, <3>1, <5>1
          <5> QED
            BY <3>1, <4>1, <5>2
        <4> QED
          BY <1>0, <4>2, <4>3
      <3>2. p + 1 \in (p + 1)..(N + 2) /\ p + 2 \in (p + 1)..(N + 2)
        BY <1>0, <3>0
      <3>3. continuationQuote(s, p + 1, quote) => gap(s)[p + 1] + 1 \in (p + 1)..(N + 2)
        <4>1. continuationQuote(s, p + 1, quote) => gap(s)[p + 1] \in (p + 1)..N
          BY <3>0, ContinuationWithin
        <4> QED
          BY <1>0, <4>1
      <3>4. CASE b[p] = p + 1
        <4>1. p + 1 \in 1..(N + 1) /\ p + 1 > p
          BY <1>0, <3>0
        <4> QED
          BY <3>4, <4>1
      <3> HIDE DEF S
      <3> QED
        BY <1>0, <2>1, <2>3, <3>1, <3>2, <3>3, <3>4
    <2> QED
      BY <1>0, <2>2, <2>3
  <1>2. i \in 1..(N + 2) /\ N + 2 \in Nat
    BY <1>0
  <1>3. i \in S
    <2> HIDE DEF S
    <2> QED
      BY <1>1, <1>2, Downward
  <1>4. b[i] \in 1..(N + 1) /\ (i <= N => b[i] > i)
    BY <1>3
  <1>5. i = N + 1 => b[i] = N + 1
    BY <1>0, <1>2, QuotedDef
  <1> HIDE DEF b
  <1>6. b[i] \in i..(N + 1)
    BY <1>0, <1>4, <1>5
  <1> QED
    BY <1>6 DEF b

\* A block comment, one piece at a time.
LEMMA BlockDef ==
  ASSUME NEW A, NEW s \in Seq(A), NEW i \in 1..(Len(s) + 1), NEW depth \in Int
  PROVE  LET b == blockComment(s)
         IN  b[i][depth] = IF i > Len(s) THEN Len(s) + 1
                           ELSE IF startsWith(s, i, "/", "*") THEN b[i + 2][depth + 1]
                           ELSE IF startsWith(s, i, "*", "/")
                           THEN IF depth = 1 THEN i + 2 ELSE b[i + 2][depth - 1]
                           ELSE b[i + 1][depth]
  <1> DEFINE N == Len(s)
             D == 1..(N + 1)
             V == 1..(N + 1)
             U == [Int -> V]
             mu == [x \in D |-> N + 1 - x]
             opens(x) == startsWith(s, x, "/", "*")
             closes(x) == startsWith(s, x, "*", "/")
             piece(f, x, d) == IF x > N THEN N + 1
                               ELSE IF opens(x) THEN f[x + 2][d + 1]
                               ELSE IF closes(x)
                               THEN IF d = 1 THEN x + 2 ELSE f[x + 2][d - 1]
                               ELSE f[x + 1][d]
             body(f, x) == [d \in Int |-> piece(f, x, d)]
             G == [z \in [D -> U] \X D |-> body(z[1], z[2])]
  <1>0. N \in Nat
    OBVIOUS
  <1>1. \A x \in D : opens(x) \/ closes(x) => x + 2 \in D
    BY <1>0 DEF startsWith
  <1>2. mu \in [D -> Nat] /\ \A x \in D : mu[x] < N + 1
    BY <1>0
  <1> HIDE DEF opens, closes
  <1>3. ASSUME NEW f \in [D -> U], NEW x \in D PROVE body(f, x) \in U
    <2> SUFFICES ASSUME NEW d \in Int PROVE piece(f, x, d) \in V
      <3> HIDE DEF piece, V
      <3> QED
        OBVIOUS
    <2>0. d + 1 \in Int /\ d - 1 \in Int
      OBVIOUS
    <2>1. CASE x > N
      <3>1. N + 1 \in V
        BY <1>0
      <3> HIDE DEF V
      <3> QED
        BY <2>1, <3>1
    <2>2. CASE x <= N
      <3>1. x + 1 \in D /\ ~(x > N)
        BY <1>0, <2>2
      <3>2. opens(x) \/ closes(x) => x + 2 \in D /\ x + 2 \in V
        BY <1>1
      <3> HIDE DEF D, V
      <3>3. f[x + 1][d] \in V
        BY <3>1
      <3>4. opens(x) \/ closes(x) => f[x + 2][d + 1] \in V /\ f[x + 2][d - 1] \in V
        BY <2>0, <3>2
      <3> QED
        BY <3>1, <3>2, <3>3, <3>4
    <2> QED
      BY <1>0, <2>1, <2>2
  <1>4. G \in [[D -> U] \X D -> U]
    <2> HIDE DEF body, D, U
    <2> QED
      BY <1>3
  <1>5. ASSUME NEW f \in [D -> U], NEW g \in [D -> U], NEW x \in D,
               \A y \in D : mu[y] < mu[x] => f[y] = g[y]
        PROVE  G[<<f, x>>] = G[<<g, x>>]
    <2>1. \A y \in D : y > x => f[y] = g[y]
      BY <1>0, <1>5
    <2>2. ASSUME NEW d \in Int PROVE piece(f, x, d) = piece(g, x, d)
      <3>1. CASE x > N
        BY <3>1
      <3>2. CASE x <= N
        <4>1. x + 1 \in D /\ x + 1 > x /\ x + 2 > x /\ ~(x > N)
          BY <1>0, <3>2
        <4>2. f[x + 1] = g[x + 1] /\ (opens(x) \/ closes(x) => f[x + 2] = g[x + 2])
          BY <1>1, <2>1, <4>1
        <4> QED
          BY <4>1, <4>2
      <3> QED
        BY <1>0, <3>1, <3>2
    <2>3. body(f, x) = body(g, x)
      <3> HIDE DEF piece
      <3> QED
        BY <2>2
    <2> HIDE DEF body, D, U
    <2> QED
      BY <2>3
  <1>6. RecursiveStep(G, D, U, mu, N + 1)
    <2>1. U # {} /\ N + 1 \in Nat
      <3>1. 1 \in V
        BY <1>0
      <3> HIDE DEF V
      <3>2. [d \in Int |-> 1] \in U
        BY <3>1
      <3> HIDE DEF U
      <3> QED
        BY <1>0, <3>2
    <2> HIDE DEF D, U, mu, G
    <2> QED
      BY <1>2, <1>4, <1>5, <2>1 DEF RecursiveStep
  <1>7. PICK f \in [D -> U] : Fixed(f, G, D)
    <2> HIDE DEF D, U, mu, G
    <2> QED
      BY <1>6, RecursiveFunction
  <1>8. \A x \in D : f[x] = body(f, x)
    <2> HIDE DEF body, D, U
    <2> QED
      BY <1>7 DEF Fixed
  <1>9. f = [x \in D |-> body(f, x)]
    <2> HIDE DEF body, D, U
    <2> QED
      BY <1>8
  <1>10. blockComment(s) = CHOOSE h : h = [x \in D |-> body(h, x)]
    BY DEF blockComment, opens, closes
  <1>11. blockComment(s) = [x \in D |-> body(blockComment(s), x)]
    <2> HIDE DEF body, D, U
    <2> QED
      BY <1>9, <1>10
  <1>12. blockComment(s)[i] = body(blockComment(s), i)
    <2> HIDE DEF body
    <2> QED
      BY <1>11
  <1>13. blockComment(s)[i][depth] = piece(blockComment(s), i, depth)
    <2> HIDE DEF piece
    <2> QED
      BY <1>12
  <1> QED
    BY <1>13 DEF opens, closes

\* Where a block comment goes on from p, at depth d.
BlockPiece(s, p, d) ==
    IF startsWith(s, p, "/", "*") THEN blockComment(s)[p + 2][d + 1]
    ELSE IF startsWith(s, p, "*", "/")
    THEN IF d = 1 THEN p + 2 ELSE blockComment(s)[p + 2][d - 1]
    ELSE blockComment(s)[p + 1][d]

\* Before the end of the clause a block comment goes on.
LEMMA BlockStep ==
  ASSUME NEW A, NEW s \in Seq(A), NEW p \in 1..Len(s), NEW d \in Int
  PROVE  blockComment(s)[p][d] = BlockPiece(s, p, d)
  <1>1. p \in 1..(Len(s) + 1) /\ ~(p > Len(s))
    OBVIOUS
  <1>2. blockComment(s)[p][d] = IF p > Len(s) THEN Len(s) + 1
                                ELSE IF startsWith(s, p, "/", "*") THEN blockComment(s)[p + 2][d + 1]
                                ELSE IF startsWith(s, p, "*", "/")
                                THEN IF d = 1 THEN p + 2 ELSE blockComment(s)[p + 2][d - 1]
                                ELSE blockComment(s)[p + 1][d]
    BY <1>1, BlockDef
  <1> QED
    BY <1>1, <1>2 DEF BlockPiece

\* A block comment ends within the clause.
LEMMA BlockBounds ==
  ASSUME NEW A, NEW s \in Seq(A), NEW i \in 1..(Len(s) + 1), NEW depth \in Int
  PROVE  blockComment(s)[i][depth] \in i..(Len(s) + 1)
  <1> DEFINE N == Len(s)
             b == blockComment(s)
             S == {x \in 1..(N + 1) : \A d \in Int : b[x][d] \in x..(N + 1)}
  <1>0. N \in Nat
    OBVIOUS
  <1>1. ASSUME NEW p \in 1..(N + 1), \A r \in (p + 1)..(N + 1) : r \in S
        PROVE  p \in S
    <2> SUFFICES ASSUME NEW d \in Int PROVE b[p][d] \in p..(N + 1)
      OBVIOUS
    <2>1. b[p][d] = IF p > N THEN N + 1
                    ELSE IF startsWith(s, p, "/", "*") THEN b[p + 2][d + 1]
                    ELSE IF startsWith(s, p, "*", "/")
                    THEN IF d = 1 THEN p + 2 ELSE b[p + 2][d - 1]
                    ELSE b[p + 1][d]
      BY BlockDef
    <2>2. ASSUME NEW r \in (p + 1)..(N + 1), NEW k \in Int PROVE b[r][k] \in p..(N + 1)
      <3>1. b[r][k] \in r..(N + 1)
        BY <1>1
      <3> HIDE DEF b
      <3> QED
        BY <1>0, <3>1
    <2>3. d + 1 \in Int /\ d - 1 \in Int
      OBVIOUS
    <2>4. startsWith(s, p, "/", "*") \/ startsWith(s, p, "*", "/") =>
            p + 2 \in (p + 1)..(N + 1) /\ p + 2 \in p..(N + 1)
      BY <1>0 DEF startsWith
    <2>5. p <= N => p + 1 \in (p + 1)..(N + 1)
      BY <1>0
    <2>6. N + 1 \in p..(N + 1)
      BY <1>0
    <2> HIDE DEF b
    <2>7. CASE p > N
      BY <2>1, <2>6, <2>7
    <2>8. CASE ~(p > N) /\ startsWith(s, p, "/", "*")
      <3>1. b[p][d] = b[p + 2][d + 1]
        BY <2>1, <2>8
      <3> QED
        BY <2>2, <2>3, <2>4, <2>8, <3>1
    <2>9. CASE ~(p > N) /\ ~startsWith(s, p, "/", "*") /\ startsWith(s, p, "*", "/")
      <3>1. b[p][d] = p + 2 \/ b[p][d] = b[p + 2][d - 1]
        BY <2>1, <2>9
      <3> QED
        BY <2>2, <2>3, <2>4, <2>9, <3>1
    <2>10. CASE ~(p > N) /\ ~startsWith(s, p, "/", "*") /\ ~startsWith(s, p, "*", "/")
      <3>1. b[p][d] = b[p + 1][d]
        BY <2>1, <2>10
      <3>2. p + 1 \in (p + 1)..(N + 1)
        BY <1>0, <2>5, <2>10
      <3> QED
        BY <2>2, <3>1, <3>2
    <2> QED
      BY <2>7, <2>8, <2>9, <2>10
  <1>2. N + 1 \in Nat
    BY <1>0
  <1>3. i \in S
    <2> HIDE DEF S
    <2> QED
      BY <1>1, <1>2, Downward
  <1> QED
    BY <1>3

\* The delimiter that opens at i closes at k.
Closes(s, i, k) ==
    LET n == dollarQuoteDelimiter(s, i)
    IN  SubSeq(s, k, k + n - 1) = SubSeq(s, i, i + n - 1)

\* What a dollar sign opens ends within the clause: at the nearest closing
\* delimiter that begins after the opening one.
LEMMA DollarDef ==
  ASSUME NEW A, NEW s \in Seq(A), NEW i \in 1..Len(s), NEW n, n = dollarQuoteDelimiter(s, i),
         NEW e, e = endOfByteRun(s, i + 1, tagBytes), NEW end, end = endOfDollarQuoted(s, i)
  PROVE  /\ e \in (i + 1)..(Len(s) + 1)
         /\ n = IF e <= Len(s) /\ s[e] = "$" /\ (e = i + 1 \/ s[i + 1] \in wordStart)
                THEN e - i + 1 ELSE 0
         /\ n \in Nat
         /\ n = 0 => end = i + 1
         /\ n # 0 =>
              \/ end = Len(s) + 1 /\ \A k \in (i + n)..(Len(s) - n + 1) : ~Closes(s, i, k)
              \/ \E k \in (i + n)..(Len(s) - n + 1) :
                    /\ end = k + n /\ Closes(s, i, k)
                    /\ \A m \in (i + n)..(k - 1) : ~Closes(s, i, m)
         /\ end \in (i + 1)..(Len(s) + 1)
  <1> DEFINE N == Len(s)
             closes(k) == Closes(s, i, k)
             C == {k \in (i + n)..(N - n + 1) : closes(k)}
  <1>0. N \in Nat /\ i + 1 \in 1..(N + 1)
    OBVIOUS
  <1>1. e \in (i + 1)..(N + 1)
    BY <1>0, RunEnd DEF EndsRun
  <1>2. n = IF e <= N /\ s[e] = "$" /\ (e = i + 1 \/ s[i + 1] \in wordStart) THEN e - i + 1 ELSE 0
    BY DEF dollarQuoteDelimiter
  <1>3. n \in Nat
    <2> QED
      BY <1>0, <1>1, <1>2
  <1>4. end = IF n = 0 THEN i + 1 ELSE IF C = {} THEN N + 1
              ELSE n + CHOOSE k \in C : \A m \in C : k <= m
    BY DEF endOfDollarQuoted, Closes
  <1>5. CASE n = 0
    <2>1. end = i + 1 /\ i + 1 \in (i + 1)..(N + 1)
      BY <1>0, <1>4, <1>5
    <2> QED
      BY <1>1, <1>2, <1>3, <1>5, <2>1
  <1>6. CASE n # 0 /\ C = {}
    <2>1. end = N + 1 /\ N + 1 \in (i + 1)..(N + 1)
      BY <1>0, <1>4, <1>6
    <2>2. \A k \in (i + n)..(N - n + 1) : ~closes(k)
      BY <1>6
    <2> QED
      BY <1>1, <1>2, <1>3, <1>6, <2>1, <2>2
  <1>7. CASE n # 0 /\ C # {}
    <2>1. C \subseteq Nat
      BY <1>0, <1>3
    <2>2. \E k \in C : \A m \in C : k <= m
      <3> HIDE DEF C
      <3> QED
        BY <1>7, <2>1, SmallestIndex
    <2> DEFINE k == CHOOSE x \in C : \A m \in C : x <= m
    <2>3. k \in C /\ \A m \in C : k <= m
      <3> HIDE DEF C
      <3> QED
        BY <2>2
    <2>4. end = n + k
      BY <1>4, <1>7
    <2> HIDE DEF k
    <2>5. k \in (i + n)..(N - n + 1) /\ closes(k)
      BY <2>3
    <2>6. ASSUME NEW m \in (i + n)..(k - 1) PROVE ~closes(m)
      <3>1. m \in (i + n)..(N - n + 1) /\ ~(k <= m)
        BY <1>0, <1>3, <2>5
      <3> QED
        BY <2>3, <3>1
    <2>7. end = k + n /\ end \in (i + 1)..(N + 1)
      <3>1. k \in Int /\ i + n <= k /\ k <= N - n + 1 /\ n > 0 /\ i \in Int
        BY <1>0, <1>3, <1>7, <2>5
      <3>2. k + n \in (i + 1)..(N + 1) /\ n + k = k + n
        BY <1>0, <1>3, <3>1
      <3> QED
        BY <2>4, <3>2
    <2> HIDE DEF C
    <2> QED
      BY <1>1, <1>2, <1>3, <1>7, <2>5, <2>6, <2>7
  <1> QED
    BY <1>5, <1>6, <1>7

\* A stretch of one symbol.
LEMMA SubSeqOne ==
  ASSUME NEW A, NEW s \in Seq(A), NEW i \in 1..Len(s), NEW j \in i..Len(s), NEW c
  PROVE  SubSeq(s, i, j) = <<c>> <=> j = i /\ s[i] = c
  <1>1. Len(SubSeq(s, i, j)) = j - i + 1
    OBVIOUS
  <1>2. SubSeq(s, i, j)[1] = s[i]
    OBVIOUS
  <1>3. SubSeq(s, i, j) \in Seq(A)
    OBVIOUS
  <1>4. ASSUME SubSeq(s, i, j) = <<c>> PROVE j = i /\ s[i] = c
    <2>1. Len(<<c>>) = 1 /\ <<c>>[1] = c
      OBVIOUS
    <2>2. j - i + 1 = 1 /\ s[i] = c
      BY <1>1, <1>2, <1>4, <2>1
    <2> QED
      BY <2>2
  <1>5. ASSUME j = i, s[i] = c PROVE SubSeq(s, i, j) = <<c>>
    <2>1. c \in A /\ <<c>> \in Seq(A) /\ Len(<<c>>) = 1 /\ <<c>>[1] = c
      BY <1>5
    <2>2. Len(SubSeq(s, i, j)) = 1 /\ SubSeq(s, i, j)[1] = c
      BY <1>1, <1>2, <1>5
    <2>3. \A k \in 1..1 : SubSeq(s, i, j)[k] = <<c>>[k]
      BY <2>1, <2>2
    <2> QED
      BY <1>3, <2>1, <2>2, <2>3, SeqEqual
  <1> QED
    BY <1>4, <1>5

\* A word of one symbol.
LEMMA WordOfOne ==
  ASSUME NEW A, NEW s \in Seq(A), NEW i \in 1..Len(s), NEW e \in (i + 1)..(Len(s) + 1), NEW c
  PROVE  SubSeq(s, i, e - 1) = <<c>> <=> e = i + 1 /\ s[i] = c
  <1>1. e - 1 \in i..Len(s) /\ (e - 1 = i <=> e = i + 1)
    OBVIOUS
  <1> QED
    BY <1>1, SubSeqOne

\* The word from i up to e is one symbol exactly when it ends after one.
OneLetter(s, i, e) == \A c : SubSeq(s, i, e - 1) = <<c>> <=> e = i + 1 /\ s[i] = c

\* That holds of every word.
LEMMA WordsOfOne ==
  ASSUME NEW A, NEW s \in Seq(A), NEW i \in 1..Len(s), NEW e \in (i + 1)..(Len(s) + 1)
  PROVE  OneLetter(s, i, e)
  BY WordOfOne DEF OneLetter

\* The token that a word is: an escape string opened by E, or the word itself.
WordToken(s, i, e) ==
    IF e = i + 1 /\ e <= Len(s) /\ s[i] = "E" /\ s[e] = "'"
    THEN [end |-> quoted(s, "'", TRUE)[e + 1], word |-> FALSE]
    ELSE [end |-> e, word |-> TRUE]

\* The token at a symbol that begins a word.
LEMMA TokenOfWord ==
  ASSUME NEW A, NEW s \in Seq(A), NEW i \in 1..Len(s), s[i] \in wordStart
  PROVE  nextToken(s, i) = WordToken(s, i, endOfByteRun(s, i + 1, wordBytes))
  <1> DEFINE e == endOfByteRun(s, i + 1, wordBytes)
  <1>0. Len(s) \in Nat /\ i + 1 \in 1..(Len(s) + 1)
    OBVIOUS
  <1>1. e \in (i + 1)..(Len(s) + 1)
    BY <1>0, RunEnd DEF EndsRun
  <1>2. startsWith(s, i, "-", "-") => s[i] = "-"
    BY DEF startsWith
  <1>3. startsWith(s, i, "/", "*") => s[i] = "/"
    BY DEF startsWith
  <1>4. nextToken(s, i) = endOfWordOrEscapeString(s, i)
    BY <1>2, <1>3 DEF nextToken, wordStart
  <1>5. SubSeq(s, i, e - 1) = <<"E">> <=> e = i + 1 /\ s[i] = "E"
    <2> HIDE DEF e
    <2>1. OneLetter(s, i, e)
      BY <1>1, WordsOfOne
    <2> QED
      BY <2>1 DEF OneLetter
  <1>6. endOfWordOrEscapeString(s, i) =
           IF e = i + 1 /\ e <= Len(s) /\ s[i] = "E" /\ s[e] = "'"
           THEN [end |-> quoted(s, "'", TRUE)[e + 1], word |-> FALSE]
           ELSE [end |-> e, word |-> TRUE]
    BY <1>5 DEF endOfWordOrEscapeString, endOfQuoted
  <1> HIDE DEF e
  <1>7. nextToken(s, i) = WordToken(s, i, e)
    BY <1>4, <1>6 DEF WordToken
  <1> QED
    BY <1>7 DEF e

\* Tokens by their first symbol, and where they end.
LEMMA TokenDef ==
  ASSUME NEW A, NEW s \in Seq(A), NEW i \in 1..Len(s), NEW e, e = endOfByteRun(s, i + 1, wordBytes)
  PROVE  /\ e \in (i + 1)..(Len(s) + 1)
         /\ s[i] \in wordStart =>
              nextToken(s, i) = WordToken(s, i, e)
         /\ startsWith(s, i, "-", "-") =>
              nextToken(s, i) = [end |-> endOfLineComment(s, i), word |-> FALSE]
         /\ startsWith(s, i, "/", "*") =>
              nextToken(s, i) = [end |-> blockComment(s)[i][0], word |-> FALSE]
         /\ s[i] \in {"'", "DQ"} =>
              nextToken(s, i) = [end |-> quoted(s, s[i], FALSE)[i + 1], word |-> FALSE]
         /\ s[i] = "$" => nextToken(s, i) = [end |-> endOfDollarQuoted(s, i), word |-> FALSE]
         /\ s[i] \notin wordStart /\ ~startsWith(s, i, "-", "-") /\ ~startsWith(s, i, "/", "*")
              /\ s[i] \notin {"'", "DQ", "$"} => nextToken(s, i) = [end |-> i + 1, word |-> FALSE]
  <1>0. Len(s) \in Nat /\ i + 1 \in 1..(Len(s) + 1)
    OBVIOUS
  <1>1. e \in (i + 1)..(Len(s) + 1)
    BY <1>0, RunEnd DEF EndsRun
  <1>2. startsWith(s, i, "-", "-") => s[i] = "-"
    BY DEF startsWith
  <1>3. startsWith(s, i, "/", "*") => s[i] = "/"
    BY DEF startsWith
  <1>4. ASSUME s[i] \in wordStart PROVE nextToken(s, i) = WordToken(s, i, e)
    BY <1>4, TokenOfWord
  <1>7. ASSUME startsWith(s, i, "-", "-")
        PROVE  nextToken(s, i) = [end |-> endOfLineComment(s, i), word |-> FALSE]
    BY <1>2, <1>3, <1>7 DEF nextToken, wordStart
  <1>8. ASSUME startsWith(s, i, "/", "*")
        PROVE  nextToken(s, i) = [end |-> blockComment(s)[i][0], word |-> FALSE]
    BY <1>2, <1>3, <1>8 DEF nextToken, wordStart, endOfBlockComment
  <1>9. ASSUME s[i] \in {"'", "DQ"}
        PROVE  nextToken(s, i) = [end |-> quoted(s, s[i], FALSE)[i + 1], word |-> FALSE]
    BY <1>2, <1>3, <1>9 DEF nextToken, wordStart, endOfQuoted
  <1>10. ASSUME s[i] = "$" PROVE nextToken(s, i) = [end |-> endOfDollarQuoted(s, i), word |-> FALSE]
    BY <1>2, <1>3, <1>10 DEF nextToken, wordStart
  <1>11. ASSUME s[i] \notin wordStart, ~startsWith(s, i, "-", "-"), ~startsWith(s, i, "/", "*"),
                s[i] \notin {"'", "DQ", "$"}
         PROVE  nextToken(s, i) = [end |-> i + 1, word |-> FALSE]
    BY <1>11 DEF nextToken
  <1> QED
    BY <1>1, <1>4, <1>7, <1>8, <1>9, <1>10, <1>11

\* Every token advances the scan and ends within the clause.
LEMMA TokenBounds ==
  ASSUME NEW A, NEW s \in Seq(A), NEW i \in 1..Len(s)
  PROVE  nextToken(s, i).end \in (i + 1)..(Len(s) + 1) /\ nextToken(s, i).word \in BOOLEAN
  <1> DEFINE N == Len(s)
             e == endOfByteRun(s, i + 1, wordBytes)
  <1>0. N \in Nat /\ i + 1 \in 1..(N + 1) /\ i \in 1..(N + 1)
    OBVIOUS
  <1>1. e \in (i + 1)..(N + 1)
    BY TokenDef
  <1>2. CASE s[i] \in wordStart
    <2>1. nextToken(s, i) =
                 IF e = i + 1 /\ e <= Len(s) /\ s[i] = "E" /\ s[e] = "'"
                 THEN [end |-> quoted(s, "'", TRUE)[e + 1], word |-> FALSE]
                 ELSE [end |-> e, word |-> TRUE]
      <3>1. nextToken(s, i) = WordToken(s, i, e)
        BY <1>2, TokenOfWord
      <3> QED
        BY <3>1 DEF WordToken
    <2> HIDE DEF e
    <2>2. CASE e = i + 1 /\ e <= Len(s) /\ s[i] = "E" /\ s[e] = "'"
      <3>1. e + 1 \in 1..(N + 1)
        BY <1>0, <2>2
      <3>2. quoted(s, "'", TRUE)[e + 1] \in (e + 1)..(N + 1)
        BY <3>1, QuotedBounds
      <3> DEFINE x == quoted(s, "'", TRUE)[e + 1]
      <3>3. nextToken(s, i) = [end |-> x, word |-> FALSE]
        BY <2>1, <2>2
      <3>a. x \in (e + 1)..(N + 1)
        BY <3>2
      <3> HIDE DEF x
      <3>b. e \in Int /\ x \in Int
        BY <1>0, <2>2, <3>a
      <3>4. x \in (i + 1)..(N + 1)
        BY <1>0, <2>2, <3>a, <3>b
      <3> QED
        BY <3>3, <3>4
    <2>3. CASE ~(e = i + 1 /\ e <= Len(s) /\ s[i] = "E" /\ s[e] = "'")
      <3>1. nextToken(s, i) = [end |-> e, word |-> TRUE]
        BY <2>1, <2>3
      <3> QED
        BY <1>1, <3>1
    <2> QED
      BY <2>2, <2>3
  <1>3. CASE startsWith(s, i, "-", "-")
    <2>1. nextToken(s, i) = [end |-> endOfLineComment(s, i), word |-> FALSE]
      BY <1>3, TokenDef
    <2>2. endOfLineComment(s, i) \in i..(N + 1) /\ endOfLineComment(s, i) > i
      BY <1>0, LineStep
    <2> DEFINE x == endOfLineComment(s, i)
    <2>3. nextToken(s, i) = [end |-> x, word |-> FALSE] /\ x \in (i + 1)..(N + 1)
      BY <1>0, <2>1, <2>2
    <2> HIDE DEF x
    <2> QED
      BY <2>3
  <1>4. CASE startsWith(s, i, "/", "*")
    <2>1. nextToken(s, i) = [end |-> blockComment(s)[i][0], word |-> FALSE]
      BY <1>4, TokenDef
    <2>2. blockComment(s)[i][0] = blockComment(s)[i + 2][0 + 1]
      BY <1>0, <1>4, BlockDef
    <2>3. i + 2 \in 1..(N + 1) /\ 0 + 1 \in Int
      BY <1>0, <1>4 DEF startsWith
    <2>4. blockComment(s)[i + 2][0 + 1] \in (i + 2)..(N + 1)
      BY <2>3, BlockBounds
    <2>5. blockComment(s)[i][0] \in (i + 1)..(N + 1)
      BY <1>0, <2>2, <2>4
    <2> DEFINE x == blockComment(s)[i][0]
    <2>6. nextToken(s, i) = [end |-> x, word |-> FALSE] /\ x \in (i + 1)..(N + 1)
      BY <2>1, <2>5
    <2> HIDE DEF x
    <2> QED
      BY <2>6
  <1>5. CASE s[i] \in {"'", "DQ"}
    <2>1. nextToken(s, i) = [end |-> quoted(s, s[i], FALSE)[i + 1], word |-> FALSE]
      BY <1>5, TokenDef
    <2>2. quoted(s, s[i], FALSE)[i + 1] \in (i + 1)..(N + 1)
      BY <1>0, QuotedBounds
    <2> DEFINE x == quoted(s, s[i], FALSE)[i + 1]
    <2>3. nextToken(s, i) = [end |-> x, word |-> FALSE] /\ x \in (i + 1)..(N + 1)
      BY <2>1, <2>2
    <2> HIDE DEF x
    <2> QED
      BY <2>3
  <1>6. CASE s[i] = "$"
    <2>1. nextToken(s, i) = [end |-> endOfDollarQuoted(s, i), word |-> FALSE]
      BY <1>6, TokenDef
    <2>2. endOfDollarQuoted(s, i) \in (i + 1)..(N + 1)
      BY DollarDef
    <2> DEFINE x == endOfDollarQuoted(s, i)
    <2>3. nextToken(s, i) = [end |-> x, word |-> FALSE] /\ x \in (i + 1)..(N + 1)
      BY <2>1, <2>2
    <2> HIDE DEF x
    <2> QED
      BY <2>3
  <1>7. CASE s[i] \notin wordStart /\ ~startsWith(s, i, "-", "-") /\ ~startsWith(s, i, "/", "*")
              /\ s[i] \notin {"'", "DQ", "$"}
    <2>1. nextToken(s, i) = [end |-> i + 1, word |-> FALSE]
      BY <1>7, TokenDef
    <2> QED
      BY <1>0, <2>1
  <1> QED
    BY <1>2, <1>3, <1>4, <1>5, <1>6, <1>7

\* The scan, one token at a time.
LEMMA BareDef ==
  ASSUME NEW A, NEW s \in Seq(A), NEW i \in 1..(Len(s) + 1), NEW after \in BOOLEAN
  PROVE  bareWord(s)[i][after] =
            IF i > Len(s) THEN 0
            ELSE IF nextToken(s, i).word /\ ~after
                    /\ SubSeq(s, i, nextToken(s, i).end - 1) = <<"OLD">>
            THEN i
            ELSE bareWord(s)[nextToken(s, i).end][IF isTokenSeparator(s, i) THEN after
                                                  ELSE s[i] = "."]
  <1> DEFINE N == Len(s)
             D == 1..(N + 1)
             V == 0..N
             U == [BOOLEAN -> V]
             mu == [x \in D |-> N + 1 - x]
             isit(x) == nextToken(s, x).word /\ SubSeq(s, x, nextToken(s, x).end - 1) = <<"OLD">>
             end(x) == nextToken(s, x).end
             flag(x, d) == IF isTokenSeparator(s, x) THEN d ELSE s[x] = "."
             piece(f, x, d) == IF x > N THEN 0
                               ELSE IF isit(x) /\ ~d THEN x
                               ELSE f[end(x)][flag(x, d)]
             body(f, x) == [d \in BOOLEAN |-> piece(f, x, d)]
             G == [z \in [D -> U] \X D |-> body(z[1], z[2])]
  <1>0. N \in Nat
    OBVIOUS
  <1>1. \A x \in 1..N : end(x) \in (x + 1)..(N + 1)
    BY TokenBounds
  <1>2. \A x, d : d \in BOOLEAN => flag(x, d) \in BOOLEAN
    OBVIOUS
  <1>3. mu \in [D -> Nat] /\ \A x \in D : mu[x] < N + 1
    BY <1>0
  <1> HIDE DEF isit, end, flag
  <1>4. ASSUME NEW f \in [D -> U], NEW x \in D PROVE body(f, x) \in U
    <2> SUFFICES ASSUME NEW d \in BOOLEAN PROVE piece(f, x, d) \in V
      <3> HIDE DEF piece, V
      <3> QED
        OBVIOUS
    <2>1. CASE x > N
      BY <1>0, <2>1
    <2>2. CASE x <= N
      <3>1. x \in 1..N /\ x \in V /\ ~(x > N)
        BY <1>0, <2>2
      <3>2. end(x) \in D
        BY <1>0, <1>1, <3>1
      <3>3. flag(x, d) \in BOOLEAN
        BY <1>2
      <3> HIDE DEF D, V
      <3>4. f[end(x)][flag(x, d)] \in V
        BY <3>2, <3>3
      <3> QED
        BY <3>1, <3>4
    <2> QED
      BY <1>0, <2>1, <2>2
  <1>5. G \in [[D -> U] \X D -> U]
    <2> HIDE DEF body, D, U
    <2> QED
      BY <1>4
  <1>6. ASSUME NEW f \in [D -> U], NEW g \in [D -> U], NEW x \in D,
               \A y \in D : mu[y] < mu[x] => f[y] = g[y]
        PROVE  G[<<f, x>>] = G[<<g, x>>]
    <2>1. \A y \in D : y > x => f[y] = g[y]
      BY <1>0, <1>6
    <2>2. ASSUME NEW d \in BOOLEAN PROVE piece(f, x, d) = piece(g, x, d)
      <3>1. CASE x > N
        BY <3>1
      <3>2. CASE x <= N
        <4>1. x \in 1..N
          BY <1>0, <3>2
        <4>2. end(x) \in D /\ end(x) > x
          BY <1>0, <1>1, <4>1
        <4>3. f[end(x)] = g[end(x)]
          BY <2>1, <4>2
        <4> QED
          BY <4>3
      <3> QED
        BY <1>0, <3>1, <3>2
    <2>3. body(f, x) = body(g, x)
      <3> HIDE DEF piece
      <3> QED
        BY <2>2
    <2> HIDE DEF body, D, U
    <2> QED
      BY <2>3
  <1>7. RecursiveStep(G, D, U, mu, N + 1)
    <2>1. U # {} /\ N + 1 \in Nat
      <3>1. 0 \in V
        BY <1>0
      <3> HIDE DEF V
      <3>2. [d \in BOOLEAN |-> 0] \in U
        BY <3>1
      <3> HIDE DEF U
      <3> QED
        BY <1>0, <3>2
    <2> HIDE DEF D, U, mu, G
    <2> QED
      BY <1>3, <1>5, <1>6, <2>1 DEF RecursiveStep
  <1>8. PICK f \in [D -> U] : Fixed(f, G, D)
    <2> HIDE DEF D, U, mu, G
    <2> QED
      BY <1>7, RecursiveFunction
  <1>9. \A x \in D : f[x] = body(f, x)
    <2> HIDE DEF body, D, U
    <2> QED
      BY <1>8 DEF Fixed
  <1>10. f = [x \in D |-> body(f, x)]
    <2> HIDE DEF body, D, U
    <2> QED
      BY <1>9
  <1> DEFINE piece2(h, x, d) ==
                 IF x > N THEN 0
                 ELSE IF nextToken(s, x).word /\ ~d
                         /\ SubSeq(s, x, nextToken(s, x).end - 1) = <<"OLD">>
                 THEN x
                 ELSE h[nextToken(s, x).end][IF isTokenSeparator(s, x) THEN d ELSE s[x] = "."]
             body2(h, x) == [d \in BOOLEAN |-> piece2(h, x, d)]
  <1>11. \A h, x, d : piece2(h, x, d) = piece(h, x, d)
    BY DEF isit, end, flag
  <1>12. \A h, x : body2(h, x) = body(h, x)
    <2> HIDE DEF piece, piece2
    <2> QED
      BY <1>11
  <1>13. f = [x \in D |-> body2(f, x)]
    <2> HIDE DEF body, body2, D, U
    <2> QED
      BY <1>10, <1>12
  <1>14. bareWord(s) = CHOOSE h : h = [x \in D |-> body2(h, x)]
    BY DEF bareWord
  <1>15. bareWord(s) = [x \in D |-> body2(bareWord(s), x)]
    <2> HIDE DEF body2, D, U
    <2> QED
      BY <1>13, <1>14
  <1>16. bareWord(s)[i] = body2(bareWord(s), i)
    <2> HIDE DEF body2
    <2> QED
      BY <1>15
  <1>17. bareWord(s)[i][after] = piece2(bareWord(s), i, after)
    <2> HIDE DEF piece2
    <2> QED
      BY <1>16
  <1> QED
    BY <1>17

\* A symbol that begins nothing.
Ordinary(s, i) ==
    /\ s[i] \notin wordStart \cup spaces \cup {"'", "DQ", "$", "."}
    /\ ~startsWith(s, i, "-", "-") /\ ~startsWith(s, i, "/", "*")

\* What the scan does with a token that is no word.
LEMMA BareCases ==
  ASSUME NEW A, NEW s \in Seq(A), NEW i \in 1..Len(s), NEW dot \in BOOLEAN
  PROVE  /\ startsWith(s, i, "-", "-") =>
              bareWord(s)[i][dot] = bareWord(s)[endOfLineComment(s, i)][dot]
         /\ startsWith(s, i, "/", "*") =>
              bareWord(s)[i][dot] = bareWord(s)[blockComment(s)[i + 2][1]][dot]
         /\ s[i] \in {"'", "DQ"} =>
              bareWord(s)[i][dot] = bareWord(s)[quoted(s, s[i], FALSE)[i + 1]][FALSE]
         /\ s[i] = "$" => bareWord(s)[i][dot] = bareWord(s)[endOfDollarQuoted(s, i)][FALSE]
         /\ s[i] \in spaces => bareWord(s)[i][dot] = bareWord(s)[i + 1][dot]
         /\ s[i] = "." => bareWord(s)[i][dot] = bareWord(s)[i + 1][TRUE]
         /\ Ordinary(s, i) => bareWord(s)[i][dot] = bareWord(s)[i + 1][FALSE]
  <1> DEFINE N == Len(s)
             b == bareWord(s)
             t == nextToken(s, i)
             sep == isTokenSeparator(s, i)
  <1>0. N \in Nat /\ i \in 1..(N + 1) /\ i \in Nat /\ ~(i > N)
    OBVIOUS
  <1>1. b[i][dot] = IF t.word /\ ~dot /\ SubSeq(s, i, t.end - 1) = <<"OLD">>
                    THEN i ELSE b[t.end][IF sep THEN dot ELSE s[i] = "."]
    BY <1>0, BareDef
  <1>2. /\ startsWith(s, i, "-", "-") => s[i] = "-"
        /\ startsWith(s, i, "/", "*") => s[i] = "/"
    BY DEF startsWith
  <1>3. /\ s[i] \in wordStart => ~sep /\ s[i] # "."
        /\ startsWith(s, i, "-", "-") => sep
        /\ startsWith(s, i, "/", "*") => sep
        /\ s[i] \in {"'", "DQ", "$"} => ~sep /\ s[i] # "."
        /\ s[i] \in spaces => sep
        /\ s[i] \notin spaces /\ ~startsWith(s, i, "-", "-") /\ ~startsWith(s, i, "/", "*") => ~sep
    BY <1>2 DEF isTokenSeparator, spaces, newlines, wordStart
  <1> HIDE DEF sep, b
  <1>4. ASSUME NEW x, t = [end |-> x, word |-> FALSE]
        PROVE  b[i][dot] = b[x][IF sep THEN dot ELSE s[i] = "."]
    <2>1. t.end = x /\ t.word = FALSE
      BY <1>4
    <2> HIDE DEF t
    <2> QED
      BY <1>1, <2>1
  <1>6. ASSUME startsWith(s, i, "-", "-") PROVE b[i][dot] = b[endOfLineComment(s, i)][dot]
    <2>1. t = [end |-> endOfLineComment(s, i), word |-> FALSE]
      BY <1>6, TokenDef
    <2> HIDE DEF t
    <2> QED
      BY <1>3, <1>4, <1>6, <2>1
  <1>7. ASSUME startsWith(s, i, "/", "*") PROVE b[i][dot] = b[blockComment(s)[i + 2][1]][dot]
    <2>1. t = [end |-> blockComment(s)[i][0], word |-> FALSE]
      BY <1>7, TokenDef
    <2>2. blockComment(s)[i][0] = blockComment(s)[i + 2][0 + 1]
      BY <1>0, <1>7, BlockDef
    <2> DEFINE x == blockComment(s)[i + 2][1]
    <2>3. t = [end |-> x, word |-> FALSE]
      BY <2>1, <2>2
    <2> HIDE DEF t, x
    <2>4. b[i][dot] = b[x][dot]
      BY <1>3, <1>4, <1>7, <2>3
    <2> QED
      BY <2>4 DEF x
  <1>8. ASSUME s[i] \in {"'", "DQ"} PROVE b[i][dot] = b[quoted(s, s[i], FALSE)[i + 1]][FALSE]
    <2>1. t = [end |-> quoted(s, s[i], FALSE)[i + 1], word |-> FALSE]
      BY <1>8, TokenDef
    <2> HIDE DEF t
    <2> QED
      BY <1>3, <1>4, <1>8, <2>1
  <1>9. ASSUME s[i] = "$" PROVE b[i][dot] = b[endOfDollarQuoted(s, i)][FALSE]
    <2>1. t = [end |-> endOfDollarQuoted(s, i), word |-> FALSE]
      BY <1>9, TokenDef
    <2> HIDE DEF t
    <2> QED
      BY <1>3, <1>4, <1>9, <2>1
  <1>10. ASSUME s[i] \notin wordStart, ~startsWith(s, i, "-", "-"), ~startsWith(s, i, "/", "*"),
                s[i] \notin {"'", "DQ", "$"}
         PROVE  b[i][dot] = b[i + 1][IF sep THEN dot ELSE s[i] = "."]
    <2>1. t = [end |-> i + 1, word |-> FALSE]
      BY <1>10, TokenDef
    <2> HIDE DEF t
    <2> QED
      BY <1>4, <2>1
  <1>11. ASSUME s[i] \in spaces PROVE b[i][dot] = b[i + 1][dot]
    <2>1. s[i] \notin wordStart /\ s[i] \notin {"'", "DQ", "$"}
          /\ ~startsWith(s, i, "-", "-") /\ ~startsWith(s, i, "/", "*")
      BY <1>2, <1>11 DEF spaces, newlines, wordStart
    <2> QED
      BY <1>3, <1>10, <1>11, <2>1
  <1>12. ASSUME s[i] = "." PROVE b[i][dot] = b[i + 1][TRUE]
    <2>1. ~sep /\ s[i] \notin wordStart /\ s[i] \notin {"'", "DQ", "$"}
          /\ ~startsWith(s, i, "-", "-") /\ ~startsWith(s, i, "/", "*")
      BY <1>2, <1>12 DEF spaces, newlines, wordStart, sep, isTokenSeparator
    <2> QED
      BY <1>10, <1>12, <2>1
  <1>13. ASSUME Ordinary(s, i) PROVE b[i][dot] = b[i + 1][FALSE]
    <2>1. ~sep /\ s[i] \notin wordStart /\ s[i] \notin {"'", "DQ", "$"} /\ s[i] # "."
          /\ ~startsWith(s, i, "-", "-") /\ ~startsWith(s, i, "/", "*")
      BY <1>3, <1>13 DEF Ordinary
    <2> QED
      BY <1>10, <2>1
  <1> QED
    BY <1>6, <1>7, <1>8, <1>9, <1>11, <1>12, <1>13 DEF b

\* The word from i up to e opens an escape string, is the row variable, or is
\* neither.
AfterWord(s, i, e, dot) ==
    IF e = i + 1 /\ e <= Len(s) /\ s[i] = "E" /\ s[e] = "'"
    THEN bareWord(s)[quoted(s, "'", TRUE)[e + 1]][FALSE]
    ELSE IF e = i + 1 /\ s[i] = "OLD" /\ ~dot THEN i
    ELSE bareWord(s)[e][FALSE]

\* What it does with a word.
LEMMA BareWordCase ==
  ASSUME NEW A, NEW s \in Seq(A), NEW i \in 1..Len(s), NEW dot \in BOOLEAN,
         NEW e, e = endOfByteRun(s, i + 1, wordBytes), s[i] \in wordStart
  PROVE  bareWord(s)[i][dot] = AfterWord(s, i, e, dot)
  <1> DEFINE N == Len(s)
             b == bareWord(s)
             t == nextToken(s, i)
             sep == isTokenSeparator(s, i)
  <1>0. N \in Nat /\ i \in 1..(N + 1) /\ i \in Nat /\ ~(i > N)
    OBVIOUS
  <1>1. b[i][dot] = IF t.word /\ ~dot /\ SubSeq(s, i, t.end - 1) = <<"OLD">>
                    THEN i ELSE b[t.end][IF sep THEN dot ELSE s[i] = "."]
    BY <1>0, BareDef
  <1>2. /\ startsWith(s, i, "-", "-") => s[i] = "-"
        /\ startsWith(s, i, "/", "*") => s[i] = "/"
    BY DEF startsWith
  <1>3. /\ s[i] \in wordStart => ~sep /\ s[i] # "."
        /\ startsWith(s, i, "-", "-") => sep
        /\ startsWith(s, i, "/", "*") => sep
        /\ s[i] \in {"'", "DQ", "$"} => ~sep /\ s[i] # "."
        /\ s[i] \in spaces => sep
        /\ s[i] \notin spaces /\ ~startsWith(s, i, "-", "-") /\ ~startsWith(s, i, "/", "*") => ~sep
    BY <1>2 DEF isTokenSeparator, spaces, newlines, wordStart
  <1> HIDE DEF sep, b
  <1>4. ASSUME NEW x, t = [end |-> x, word |-> FALSE]
        PROVE  b[i][dot] = b[x][IF sep THEN dot ELSE s[i] = "."]
    <2>1. t.end = x /\ t.word = FALSE
      BY <1>4
    <2> HIDE DEF t
    <2> QED
      BY <1>1, <2>1
  <1>5. b[i][dot] = IF e = i + 1 /\ e <= Len(s) /\ s[i] = "E" /\ s[e] = "'"
                    THEN b[quoted(s, "'", TRUE)[e + 1]][FALSE]
                    ELSE IF e = i + 1 /\ s[i] = "OLD" /\ ~dot THEN i
                    ELSE b[e][FALSE]
    <2>1. t = IF e = i + 1 /\ e <= Len(s) /\ s[i] = "E" /\ s[e] = "'"
              THEN [end |-> quoted(s, "'", TRUE)[e + 1], word |-> FALSE]
              ELSE [end |-> e, word |-> TRUE]
      <3>1. nextToken(s, i) = WordToken(s, i, e)
        BY TokenOfWord
      <3> QED
        BY <3>1 DEF WordToken
    <2>2. e \in (i + 1)..(N + 1)
      BY TokenDef
    <2>3. CASE e = i + 1 /\ e <= Len(s) /\ s[i] = "E" /\ s[e] = "'"
      <3> DEFINE x == quoted(s, "'", TRUE)[e + 1]
      <3>1. t = [end |-> x, word |-> FALSE]
        BY <2>1, <2>3
      <3> HIDE DEF x, t
      <3>2. b[i][dot] = b[x][IF sep THEN dot ELSE s[i] = "."]
        BY <1>4, <3>1
      <3>3. b[i][dot] = b[x][FALSE]
        BY <1>3, <3>2
      <3> QED
        BY <2>3, <3>3 DEF x
    <2>4. CASE ~(e = i + 1 /\ e <= Len(s) /\ s[i] = "E" /\ s[e] = "'")
      <3>1. t = [end |-> e, word |-> TRUE]
        BY <2>1, <2>4
      <3>2. t.end = e /\ t.word = TRUE
        BY <3>1
      <3>3. e - 1 \in i..N /\ (e - 1 = i <=> e = i + 1)
        BY <1>0, <2>2
      <3>4. SubSeq(s, i, e - 1) = <<"OLD">> <=> e = i + 1 /\ s[i] = "OLD"
        <4>1. e \in (i + 1)..(Len(s) + 1)
          BY <2>2
        <4>2. \A c : SubSeq(s, i, e - 1) = <<c>> <=> e = i + 1 /\ s[i] = c
          <5>1. OneLetter(s, i, e)
            BY <4>1, WordsOfOne
          <5> QED
            BY <5>1 DEF OneLetter
        <4> QED
          BY <4>2
      <3> HIDE DEF t
      <3>5. b[i][dot] = IF ~dot /\ e = i + 1 /\ s[i] = "OLD"
                        THEN i ELSE b[e][IF sep THEN dot ELSE s[i] = "."]
        BY <1>1, <3>2, <3>3, <3>4
      <3> QED
        BY <1>3, <2>4, <3>5
    <2> QED
      BY <2>3, <2>4
  <1> QED
    BY <1>5 DEF b, AfterWord

\* Past the end of the clause there is nothing.
LEMMA BareEnd ==
  ASSUME NEW A, NEW s \in Seq(A), NEW dot \in BOOLEAN
  PROVE  bareWord(s)[Len(s) + 1][dot] = 0
  <1>1. Len(s) + 1 \in 1..(Len(s) + 1) /\ Len(s) + 1 > Len(s)
    OBVIOUS
  <1> QED
    BY <1>1, BareDef

-----------------------------------------------------------------------------
(* The server's lexer: its states.                                         *)

Modes == {"code", "word", "string", "ident", "line", "block", "tag", "dollar", "gap", "remark"}

Halves == {"none", "-", "/", "*", "\\", "'", "DQ"}

\* A state of the lexer of a clause written in A.
States(A) ==
    [in : Modes, half : Halves, dot : BOOLEAN, text : Seq(A), body : Seq(A), depth : Int,
     escapes : BOOLEAN, newline : BOOLEAN, at : Nat, found : Nat]

\* What may wait for the next symbol in each mode, and where no field
\* selector is pending.
Shape(q) ==
    /\ q.in = "code" => q.half \in {"none", "-", "/"}
    /\ q.in \in {"word", "line", "remark", "tag", "dollar"} => q.half = "none"
    /\ q.in = "block" => q.half \in {"none", "/", "*"}
    /\ q.in = "string" => q.half \in {"none", "\\", "'"}
    /\ q.in = "ident" => q.half \in {"none", "\\", "DQ"}
    /\ q.in = "gap" => q.half \in {"none", "-"}
    /\ q.in \in {"string", "ident", "gap", "remark", "tag", "dollar"} => q.dot = FALSE

\* The names of the modes and halves.
LEMMA Names ==
  /\ "code" \in Modes /\ "word" \in Modes /\ "string" \in Modes /\ "ident" \in Modes
  /\ "line" \in Modes /\ "block" \in Modes /\ "tag" \in Modes /\ "dollar" \in Modes
  /\ "gap" \in Modes /\ "remark" \in Modes
  /\ "none" \in Halves /\ "-" \in Halves /\ "/" \in Halves /\ "*" \in Halves
  /\ "\\" \in Halves /\ "'" \in Halves /\ "DQ" \in Halves
  BY DEF Modes, Halves

\* r is a state the lexer may move to from q before it counts the symbol.
Follows(A, q, r) ==
    /\ r \in States(A) /\ Shape(r) /\ r.at = q.at
    /\ q.found # 0 => r.found = q.found

\* A pending field selector that nothing has come after.
Pending(q) == q.dot /\ q.half = "none"

\* The field selector.
Selects(c) == c = "."

\* What each symbol does in code.
LEMMA CodeArms ==
  ASSUME NEW q, NEW c
  PROVE  /\ c \in wordStart =>
              inCode(q, c) = [q EXCEPT !.in = "word", !.text = <<c>>, !.half = "none", !.dot = Pending(q)]
         /\ c = "-" /\ q.half = "-" => inCode(q, c) = [q EXCEPT !.in = "line", !.half = "none"]
         /\ c = "*" /\ q.half = "/" =>
              inCode(q, c) = [q EXCEPT !.in = "block", !.depth = 1, !.half = "none"]
         /\ c = "'" => inCode(q, c) =
              [q EXCEPT !.in = "string", !.escapes = FALSE, !.half = "none", !.dot = FALSE]
         /\ c = "DQ" => inCode(q, c) =
              [q EXCEPT !.in = "ident", !.escapes = FALSE, !.half = "none", !.dot = FALSE]
         /\ c = "$" => inCode(q, c) =
              [q EXCEPT !.in = "tag", !.text = <<>>, !.half = "none", !.dot = FALSE]
         /\ c \in spaces => inCode(q, c) = [q EXCEPT !.half = "none", !.dot = Pending(q)]
         /\ c = "/" \/ (c = "-" /\ q.half # "-") => inCode(q, c) = [q EXCEPT !.half = c, !.dot = Pending(q)]
         /\ c \notin wordStart \cup spaces \cup {"'", "DQ", "$", "/", "-"} /\ ~(c = "*" /\ q.half = "/") =>
              inCode(q, c) = [q EXCEPT !.half = "none", !.dot = Selects(c)]
  <1>2. c \in wordStart =>
           inCode(q, c) = [q EXCEPT !.in = "word", !.text = <<c>>, !.half = "none", !.dot = Pending(q)]
    BY DEF inCode, Pending, wordStart, spaces, newlines
  <1>3. c = "-" /\ q.half = "-" => inCode(q, c) = [q EXCEPT !.in = "line", !.half = "none"]
    BY DEF inCode, wordStart, spaces, newlines
  <1>4. c = "*" /\ q.half = "/" =>
           inCode(q, c) = [q EXCEPT !.in = "block", !.depth = 1, !.half = "none"]
    BY DEF inCode, wordStart, spaces, newlines
  <1>5. c = "'" => inCode(q, c) =
           [q EXCEPT !.in = "string", !.escapes = FALSE, !.half = "none", !.dot = FALSE]
    BY DEF inCode, wordStart, spaces, newlines
  <1>6. c = "DQ" => inCode(q, c) =
           [q EXCEPT !.in = "ident", !.escapes = FALSE, !.half = "none", !.dot = FALSE]
    BY DEF inCode, wordStart, spaces, newlines
  <1>7. c = "$" => inCode(q, c) = [q EXCEPT !.in = "tag", !.text = <<>>, !.half = "none", !.dot = FALSE]
    BY DEF inCode, wordStart, spaces, newlines
  <1>8. c \in spaces => inCode(q, c) = [q EXCEPT !.half = "none", !.dot = Pending(q)]
    BY DEF inCode, Pending, wordStart, spaces, newlines
  <1>9. c = "/" \/ (c = "-" /\ q.half # "-") => inCode(q, c) = [q EXCEPT !.half = c, !.dot = Pending(q)]
    BY DEF inCode, Pending, wordStart, spaces, newlines
  <1>10. c \notin wordStart \cup spaces \cup {"'", "DQ", "$", "/", "-"} /\ ~(c = "*" /\ q.half = "/") =>
           inCode(q, c) = [q EXCEPT !.half = "none", !.dot = Selects(c)]
    BY DEF inCode, Selects, wordStart, spaces, newlines
  <1> QED
    BY <1>2, <1>3, <1>4, <1>5, <1>6, <1>7, <1>8, <1>9, <1>10

\* What a symbol that begins nothing does in code.
LEMMA OtherArm ==
  ASSUME NEW q, NEW c, c \notin wordStart \cup spaces \cup {"'", "DQ", "$", "/", "-"},
         ~(c = "*" /\ q.half = "/")
  PROVE  inCode(q, c) = [q EXCEPT !.half = "none", !.dot = Selects(c)]
  BY CodeArms

\* Code is read into a state of the lexer, and nothing is found.
LEMMA CodeState ==
  ASSUME NEW A, NEW q \in States(A), NEW c \in A, q.in = "code"
  PROVE  Follows(A, q, inCode(q, c)) /\ inCode(q, c).found = q.found
  <1> DEFINE r == inCode(q, c)
  <1> SUFFICES Follows(A, q, r) /\ r.found = q.found
    OBVIOUS
  <1>0. Pending(q) \in BOOLEAN /\ Selects(c) \in BOOLEAN /\ <<c>> \in Seq(A) /\ <<>> \in Seq(A)
    BY DEF Pending, Selects
  <1>1. CASE c \in wordStart
    <2>1. r = [q EXCEPT !.in = "word", !.text = <<c>>, !.half = "none", !.dot = Pending(q)]
      BY <1>1, CodeArms
    <2> HIDE DEF r
    <2> QED
      BY <1>0, <2>1 DEF Follows, States, Shape, Modes, Halves
  <1>2. CASE c = "-" /\ q.half = "-"
    <2>1. r = [q EXCEPT !.in = "line", !.half = "none"]
      BY <1>2, CodeArms
    <2> HIDE DEF r
    <2> QED
      BY <1>0, <2>1 DEF Follows, States, Shape, Modes, Halves
  <1>3. CASE c = "*" /\ q.half = "/"
    <2>1. r = [q EXCEPT !.in = "block", !.depth = 1, !.half = "none"]
      BY <1>3, CodeArms
    <2> HIDE DEF r
    <2>2. r \in States(A)
      <3> DEFINE d == 1
      <3>1. r = [q EXCEPT !.in = "block", !.depth = d, !.half = "none"] /\ d \in Int
        BY <2>1
      <3> HIDE DEF d
      <3> QED
        BY <3>1, Names DEF States
    <2>3. r.in = "block" /\ r.half = "none" /\ r.at = q.at /\ r.found = q.found
      BY <2>1 DEF States
    <2> QED
      BY <2>2, <2>3 DEF Follows, Shape
  <1>4. CASE c = "'"
    <2>1. r = [q EXCEPT !.in = "string", !.escapes = FALSE, !.half = "none", !.dot = FALSE]
      BY <1>4, CodeArms
    <2> HIDE DEF r
    <2> QED
      BY <1>0, <2>1 DEF Follows, States, Shape, Modes, Halves
  <1>5. CASE c = "DQ"
    <2>1. r = [q EXCEPT !.in = "ident", !.escapes = FALSE, !.half = "none", !.dot = FALSE]
      BY <1>5, CodeArms
    <2> HIDE DEF r
    <2> QED
      BY <1>0, <2>1 DEF Follows, States, Shape, Modes, Halves
  <1>6. CASE c = "$"
    <2>1. r = [q EXCEPT !.in = "tag", !.text = <<>>, !.half = "none", !.dot = FALSE]
      BY <1>6, CodeArms
    <2> HIDE DEF r
    <2> QED
      BY <1>0, <2>1 DEF Follows, States, Shape, Modes, Halves
  <1>7. CASE c \in spaces
    <2>1. r = [q EXCEPT !.half = "none", !.dot = Pending(q)]
      BY <1>7, CodeArms
    <2> HIDE DEF r
    <2> QED
      BY <1>0, <2>1 DEF Follows, States, Shape, Modes, Halves
  <1>8. CASE c = "/" \/ (c = "-" /\ q.half # "-")
    <2>1. r = [q EXCEPT !.half = c, !.dot = Pending(q)]
      BY <1>8, CodeArms
    <2>2. c \in Halves /\ c \in {"none", "-", "/"}
      BY <1>8 DEF Halves
    <2> HIDE DEF r
    <2>3. r \in States(A)
      BY <1>0, <2>1, <2>2 DEF States
    <2>4. r.in = "code" /\ r.half = c /\ r.at = q.at /\ r.found = q.found
      BY <2>1 DEF States
    <2> QED
      BY <2>2, <2>3, <2>4 DEF Follows, Shape
  <1>9. CASE c \notin wordStart \cup spaces \cup {"'", "DQ", "$", "/", "-"} /\ ~(c = "*" /\ q.half = "/")
    <2>1. r = [q EXCEPT !.half = "none", !.dot = Selects(c)]
      BY <1>9, CodeArms
    <2> HIDE DEF r
    <2> QED
      BY <1>0, <2>1 DEF Follows, States, Shape, Modes, Halves
  <1> QED
    BY <1>1, <1>2, <1>3, <1>4, <1>5, <1>6, <1>7, <1>8, <1>9

\* A gap that holds a newline once c is read.
Newly(q, c) == q.newline \/ c \in newlines

\* What each symbol does after the closing quote of a string.
LEMMA GapArms ==
  ASSUME NEW q, NEW c
  PROVE  /\ c = "'" /\ q.half = "none" /\ q.newline => inGap(q, c) = [q EXCEPT !.in = "string"]
         /\ c \in spaces /\ q.half = "none" => inGap(q, c) = [q EXCEPT !.newline = Newly(q, c)]
         /\ c = "-" /\ q.half = "none" => inGap(q, c) = [q EXCEPT !.half = "-"]
         /\ c = "-" /\ q.half = "-" => inGap(q, c) = [q EXCEPT !.in = "remark", !.half = "none"]
         /\ /\ ~(c = "'" /\ q.half = "none" /\ q.newline) /\ ~(c \in spaces /\ q.half = "none")
            /\ ~(c = "-" /\ q.half \in {"none", "-"})
            => inGap(q, c) = inCode([q EXCEPT !.in = "code"], c)
  BY DEF inGap, Newly, spaces, newlines

\* What closes the literal that is being read.
QuoteOf(q) == IF q.in = "ident" THEN "DQ" ELSE "'"

\* What each symbol does in a literal.
LEMMA QuotedArms ==
  ASSUME NEW q, NEW c, NEW quote, quote = QuoteOf(q)
  PROVE  /\ q.half = "\\" \/ (q.half = quote /\ c = quote) => inQuoted(q, c) = [q EXCEPT !.half = "none"]
         /\ q.half = quote /\ c # quote /\ q.in = "ident" =>
              inQuoted(q, c) = inCode([q EXCEPT !.in = "code", !.half = "none"], c)
         /\ q.half = quote /\ c # quote /\ q.in # "ident" =>
              inQuoted(q, c) = inGap([q EXCEPT !.in = "gap", !.half = "none", !.newline = FALSE], c)
         /\ q.half = "none" /\ (c = quote \/ (c = "\\" /\ q.escapes)) =>
              inQuoted(q, c) = [q EXCEPT !.half = c]
         /\ q.half = "none" /\ c # quote /\ ~(c = "\\" /\ q.escapes) => inQuoted(q, c) = q
  BY DEF inQuoted, QuoteOf

\* What each symbol does in a word.
LEMMA WordArms ==
  ASSUME NEW q, NEW c
  PROVE  /\ c \in wordBytes => inWord(q, c) = [q EXCEPT !.text = Append(q.text, c)]
         /\ c = "'" /\ q.text = <<"E">> =>
              inWord(q, c) = [q EXCEPT !.in = "string", !.escapes = TRUE, !.dot = FALSE]
         /\ c \notin wordBytes /\ ~(c = "'" /\ q.text = <<"E">>) => inWord(q, c) = inCode(endWord(q), c)
  BY DEF inWord, wordBytes, tagBytes, wordStart

\* What each symbol does in the tag of a dollar quote.
LEMMA TagArms ==
  ASSUME NEW q, NEW c
  PROVE  /\ c = "$" => inTag(q, c) = [q EXCEPT !.in = "dollar", !.body = <<>>]
         /\ c \in tagBytes /\ (q.text # <<>> \/ c \in wordStart) =>
              inTag(q, c) = [q EXCEPT !.text = Append(q.text, c)]
         /\ c # "$" /\ q.text = <<>> /\ c \notin wordStart =>
              inTag(q, c) = inCode([q EXCEPT !.in = "code"], c)
         /\ c # "$" /\ q.text # <<>> /\ c \notin tagBytes =>
              inTag(q, c) = inWord([q EXCEPT !.in = "word"], c)
  BY DEF inTag, tagBytes, wordStart

\* What each symbol does in a block comment.
LEMMA BlockArms ==
  ASSUME NEW q, NEW c
  PROVE  /\ q.half = "/" /\ c = "*" => inBlock(q, c) = [q EXCEPT !.half = "none", !.depth = q.depth + 1]
         /\ q.half = "*" /\ c = "/" /\ q.depth = 1 =>
              inBlock(q, c) = [q EXCEPT !.in = "code", !.half = "none"]
         /\ q.half = "*" /\ c = "/" /\ q.depth # 1 =>
              inBlock(q, c) = [q EXCEPT !.half = "none", !.depth = q.depth - 1]
         /\ ~(q.half = "/" /\ c = "*") /\ ~(q.half = "*" /\ c = "/") /\ c \in {"/", "*"} =>
              inBlock(q, c) = [q EXCEPT !.half = c]
         /\ ~(q.half = "/" /\ c = "*") /\ ~(q.half = "*" /\ c = "/") /\ c \notin {"/", "*"} =>
              inBlock(q, c) = [q EXCEPT !.half = "none"]
  BY DEF inBlock

\* A line comment.
inLine(q, c) == IF c \in newlines THEN [q EXCEPT !.in = "code"] ELSE q

\* A symbol is read in the mode the lexer is in, and counted.
LEMMA ReadArms ==
  ASSUME NEW q, NEW c
  PROVE  /\ q.in = "code" => Read(q, c) = [inCode(q, c) EXCEPT !.at = q.at + 1]
         /\ q.in = "word" => Read(q, c) = [inWord(q, c) EXCEPT !.at = q.at + 1]
         /\ q.in \in {"string", "ident"} => Read(q, c) = [inQuoted(q, c) EXCEPT !.at = q.at + 1]
         /\ q.in = "gap" => Read(q, c) = [inGap(q, c) EXCEPT !.at = q.at + 1]
         /\ q.in = "remark" => Read(q, c) = [inRemark(q, c) EXCEPT !.at = q.at + 1]
         /\ q.in = "line" => Read(q, c) = [inLine(q, c) EXCEPT !.at = q.at + 1]
         /\ q.in = "block" => Read(q, c) = [inBlock(q, c) EXCEPT !.at = q.at + 1]
         /\ q.in = "tag" => Read(q, c) = [inTag(q, c) EXCEPT !.at = q.at + 1]
         /\ q.in = "dollar" => Read(q, c) = [inDollar(q, c) EXCEPT !.at = q.at + 1]
  BY DEF Read, inLine

\* The word that has been read is the row variable, and the first one.
IsBare(q) == q.found = 0 /\ q.text = <<"OLD">> /\ ~q.dot

\* A word that ends is code again.
LEMMA EndWordState ==
  ASSUME NEW A, NEW q \in States(A), NEW r, r = endWord(q)
  PROVE  /\ r \in States(A) /\ r.in = "code" /\ r.half = "none" /\ r.dot = FALSE /\ r.at = q.at
         /\ r.found = IF IsBare(q) THEN q.at ELSE q.found
  <1> DEFINE f == IF IsBare(q) THEN q.at ELSE q.found
  <1>1. r = [q EXCEPT !.in = "code", !.half = "none", !.dot = FALSE, !.found = f]
    BY DEF endWord, IsBare
  <1>2. f \in Nat
    BY DEF States
  <1> HIDE DEF f
  <1>3. r \in States(A) /\ r.in = "code" /\ r.half = "none" /\ r.dot = FALSE /\ r.at = q.at /\ r.found = f
    BY <1>1, <1>2, Names DEF States
  <1> QED
    BY <1>3 DEF f

\* What follows a string is read into a state of the lexer, and nothing is found.
LEMMA GapState ==
  ASSUME NEW A, NEW q \in States(A), NEW c \in A, q.in = "gap", q.half \in {"none", "-"}, q.dot = FALSE
  PROVE  Follows(A, q, inGap(q, c)) /\ inGap(q, c).found = q.found
  <1> DEFINE r == inGap(q, c)
  <1> SUFFICES Follows(A, q, r) /\ r.found = q.found
    OBVIOUS
  <1>0. Newly(q, c) \in BOOLEAN
    BY DEF Newly
  <1>1. CASE c = "'" /\ q.half = "none" /\ q.newline
    <2>1. r = [q EXCEPT !.in = "string"]
      BY <1>1, GapArms
    <2> HIDE DEF r
    <2>2. r \in States(A) /\ r.in = "string" /\ r.half = q.half /\ r.dot = q.dot /\ r.at = q.at
          /\ r.found = q.found
      BY <2>1, Names DEF States
    <2> QED
      BY <1>1, <2>2 DEF Follows, Shape
  <1>2. CASE c \in spaces /\ q.half = "none"
    <2>1. r = [q EXCEPT !.newline = Newly(q, c)]
      BY <1>2, GapArms
    <2> HIDE DEF r
    <2>2. r \in States(A) /\ r.in = q.in /\ r.half = q.half /\ r.dot = q.dot /\ r.at = q.at
          /\ r.found = q.found
      BY <1>0, <2>1 DEF States
    <2> QED
      BY <1>2, <2>2 DEF Follows, Shape
  <1>3. CASE c = "-" /\ q.half = "none"
    <2>1. r = [q EXCEPT !.half = "-"]
      BY <1>3, GapArms
    <2> HIDE DEF r
    <2>2. r \in States(A) /\ r.in = q.in /\ r.half = "-" /\ r.dot = q.dot /\ r.at = q.at
          /\ r.found = q.found
      BY <2>1, Names DEF States
    <2> QED
      BY <2>2 DEF Follows, Shape
  <1>4. CASE c = "-" /\ q.half = "-"
    <2>1. r = [q EXCEPT !.in = "remark", !.half = "none"]
      BY <1>4, GapArms
    <2> HIDE DEF r
    <2>2. r \in States(A) /\ r.in = "remark" /\ r.half = "none" /\ r.dot = q.dot /\ r.at = q.at
          /\ r.found = q.found
      BY <2>1, Names DEF States
    <2> QED
      BY <2>2 DEF Follows, Shape
  <1>5. CASE /\ ~(c = "'" /\ q.half = "none" /\ q.newline) /\ ~(c \in spaces /\ q.half = "none")
             /\ ~(c = "-" /\ q.half \in {"none", "-"})
    <2> DEFINE p == [q EXCEPT !.in = "code"]
    <2>1. r = inCode(p, c)
      BY <1>5, GapArms
    <2>2. p \in States(A) /\ p.in = "code" /\ p.at = q.at /\ p.found = q.found
      BY Names DEF States
    <2> HIDE DEF r, p
    <2>3. Follows(A, p, r) /\ r.found = p.found
      BY <2>1, <2>2, CodeState
    <2> QED
      BY <2>2, <2>3 DEF Follows
  <1> QED
    BY <1>1, <1>2, <1>3, <1>4, <1>5

\* So does a literal, which hands on to code or to the gap after a string.
LEMMA QuotedState ==
  ASSUME NEW A, NEW q \in States(A), NEW c \in A, q.in \in {"string", "ident"}, Shape(q)
  PROVE  Follows(A, q, inQuoted(q, c)) /\ inQuoted(q, c).found = q.found
  <1> DEFINE r == inQuoted(q, c)
             quote == QuoteOf(q)
  <1> SUFFICES Follows(A, q, r) /\ r.found = q.found
    OBVIOUS
  <1>0. quote = QuoteOf(q)
    OBVIOUS
  <1>a. /\ q.dot = FALSE /\ q.half \in {"none", "\\", quote} /\ quote \in Halves
        /\ q.in = "string" => quote = "'"
        /\ q.in = "ident" => quote = "DQ"
    BY DEF Shape, QuoteOf, Halves
  <1> HIDE DEF quote
  <1>1. CASE q.half = "\\" \/ (q.half = quote /\ c = quote)
    <2>1. r = [q EXCEPT !.half = "none"]
      BY <1>0, <1>1, QuotedArms
    <2> HIDE DEF r
    <2>2. r \in States(A) /\ r.in = q.in /\ r.half = "none" /\ r.dot = q.dot /\ r.at = q.at
          /\ r.found = q.found
      BY <2>1, Names DEF States
    <2> QED
      BY <1>a, <2>2 DEF Follows, Shape
  <1>2. CASE q.half = quote /\ c # quote /\ q.in = "ident"
    <2> DEFINE p == [q EXCEPT !.in = "code", !.half = "none"]
    <2>1. r = inCode(p, c)
      BY <1>0, <1>2, QuotedArms
    <2>2. p \in States(A) /\ p.in = "code" /\ p.at = q.at /\ p.found = q.found
      BY Names DEF States
    <2> HIDE DEF r, p
    <2>3. Follows(A, p, r) /\ r.found = p.found
      BY <2>1, <2>2, CodeState
    <2> QED
      BY <2>2, <2>3 DEF Follows
  <1>3. CASE q.half = quote /\ c # quote /\ q.in # "ident"
    <2> DEFINE p == [q EXCEPT !.in = "gap", !.half = "none", !.newline = FALSE]
    <2>1. r = inGap(p, c)
      BY <1>0, <1>3, QuotedArms
    <2>2. /\ p \in States(A) /\ p.in = "gap" /\ p.half = "none" /\ p.dot = q.dot
          /\ p.at = q.at /\ p.found = q.found
      BY Names DEF States
    <2> HIDE DEF r, p
    <2>3. Follows(A, p, r) /\ r.found = p.found
      BY <1>a, <2>1, <2>2, GapState
    <2> QED
      BY <2>2, <2>3 DEF Follows
  <1>4. CASE q.half = "none" /\ (c = quote \/ (c = "\\" /\ q.escapes))
    <2>1. r = [q EXCEPT !.half = c]
      BY <1>0, <1>4, QuotedArms
    <2>2. c \in Halves /\ c \in {"\\", quote}
      BY <1>a, <1>4, Names
    <2> HIDE DEF r
    <2>3. r \in States(A) /\ r.in = q.in /\ r.half = c /\ r.dot = q.dot /\ r.at = q.at
          /\ r.found = q.found
      BY <2>1, <2>2 DEF States
    <2> QED
      BY <1>a, <2>2, <2>3 DEF Follows, Shape
  <1>5. CASE q.half = "none" /\ c # quote /\ ~(c = "\\" /\ q.escapes)
    <2>1. r = q
      BY <1>0, <1>5, QuotedArms
    <2> QED
      BY <2>1 DEF Follows
  <1> QED
    BY <1>a, <1>1, <1>2, <1>3, <1>4, <1>5

\* A word, which may turn out to be the row variable.
LEMMA WordState ==
  ASSUME NEW A, NEW q \in States(A), NEW c \in A, q.in = "word", q.half = "none"
  PROVE  Follows(A, q, inWord(q, c))
  <1> DEFINE r == inWord(q, c)
  <1> SUFFICES Follows(A, q, r)
    OBVIOUS
  <1>1. CASE c \in wordBytes
    <2> DEFINE x == Append(q.text, c)
    <2>1. r = [q EXCEPT !.text = x]
      BY <1>1, WordArms
    <2>a. q.text \in Seq(A)
      BY DEF States
    <2>2. x \in Seq(A)
      BY <2>a, AppendProperties
    <2> HIDE DEF r, x
    <2>3. r \in States(A) /\ r.in = "word" /\ r.half = "none" /\ r.at = q.at /\ r.found = q.found
      BY <2>1, <2>2 DEF States
    <2> QED
      BY <2>3 DEF Follows, Shape
  <1>2. CASE c = "'" /\ q.text = <<"E">>
    <2>1. r = [q EXCEPT !.in = "string", !.escapes = TRUE, !.dot = FALSE]
      BY <1>2, WordArms
    <2> HIDE DEF r
    <2>2. r \in States(A) /\ r.in = "string" /\ r.half = "none" /\ r.dot = FALSE /\ r.at = q.at
          /\ r.found = q.found
      BY <2>1, Names DEF States
    <2> QED
      BY <2>2 DEF Follows, Shape
  <1>3. CASE c \notin wordBytes /\ ~(c = "'" /\ q.text = <<"E">>)
    <2> DEFINE p == endWord(q)
    <2>1. r = inCode(p, c)
      BY <1>3, WordArms
    <2>a. p = endWord(q)
      OBVIOUS
    <2> HIDE DEF p
    <2>b. /\ p \in States(A) /\ p.in = "code" /\ p.at = q.at
          /\ p.found = IF IsBare(q) THEN q.at ELSE q.found
      BY <2>a, EndWordState
    <2>2. p \in States(A) /\ p.in = "code" /\ p.at = q.at /\ (q.found # 0 => p.found = q.found)
      BY <2>b DEF IsBare
    <2> HIDE DEF r, p
    <2>3. Follows(A, p, r) /\ r.found = p.found
      BY <2>1, <2>2, CodeState
    <2> QED
      BY <2>2, <2>3 DEF Follows
  <1>4. c = "'" => c \notin wordBytes
    BY DEF wordBytes, tagBytes, wordStart
  <1> QED
    BY <1>1, <1>2, <1>3, <1>4

\* The tag of a dollar quote, or what turns out to be none.
LEMMA TagState ==
  ASSUME NEW A, NEW q \in States(A), NEW c \in A, q.in = "tag", Shape(q)
  PROVE  Follows(A, q, inTag(q, c))
  <1> DEFINE r == inTag(q, c)
  <1> SUFFICES Follows(A, q, r)
    OBVIOUS
  <1>0. q.half = "none" /\ q.dot = FALSE
    BY DEF Shape
  <1>1. CASE c = "$"
    <2> DEFINE x == <<>>
    <2>1. r = [q EXCEPT !.in = "dollar", !.body = x]
      BY <1>1, TagArms
    <2>a. x \in Seq(A)
      OBVIOUS
    <2> HIDE DEF r, x
    <2>2. r \in States(A) /\ r.in = "dollar" /\ r.half = q.half /\ r.dot = q.dot /\ r.at = q.at
          /\ r.found = q.found
      BY <2>1, <2>a, Names DEF States
    <2> QED
      BY <1>0, <2>2 DEF Follows, Shape
  <1>2. CASE c \in tagBytes /\ (q.text # <<>> \/ c \in wordStart)
    <2> DEFINE x == Append(q.text, c)
    <2>1. r = [q EXCEPT !.text = x]
      BY <1>2, TagArms
    <2>a. q.text \in Seq(A)
      BY DEF States
    <2>2. x \in Seq(A)
      BY <2>a, AppendProperties
    <2> HIDE DEF r, x
    <2>3. r \in States(A) /\ r.in = "tag" /\ r.half = q.half /\ r.dot = q.dot /\ r.at = q.at
          /\ r.found = q.found
      BY <2>1, <2>2 DEF States
    <2> QED
      BY <1>0, <2>3 DEF Follows, Shape
  <1>3. CASE c # "$" /\ q.text = <<>> /\ c \notin wordStart
    <2> DEFINE p == [q EXCEPT !.in = "code"]
    <2>1. r = inCode(p, c)
      BY <1>3, TagArms
    <2>2. p \in States(A) /\ p.in = "code" /\ p.at = q.at /\ p.found = q.found
      BY Names DEF States
    <2> HIDE DEF r, p
    <2>3. Follows(A, p, r)
      BY <2>1, <2>2, CodeState
    <2> QED
      BY <2>2, <2>3 DEF Follows
  <1>4. CASE c # "$" /\ q.text # <<>> /\ c \notin tagBytes
    <2> DEFINE p == [q EXCEPT !.in = "word"]
    <2>1. r = inWord(p, c)
      BY <1>4, TagArms
    <2>2. p \in States(A) /\ p.in = "word" /\ p.half = q.half /\ p.at = q.at /\ p.found = q.found
      BY Names DEF States
    <2> HIDE DEF r, p
    <2>3. Follows(A, p, r)
      BY <1>0, <2>1, <2>2, WordState
    <2> QED
      BY <2>2, <2>3 DEF Follows
  <1>5. c \in wordStart => c \in tagBytes
    BY DEF tagBytes
  <1> QED
    BY <1>1, <1>2, <1>3, <1>4, <1>5

\* The body of a dollar quote is kept until it ends with the delimiter.
LEMMA DollarState ==
  ASSUME NEW A, NEW q \in States(A), NEW c \in A, q.in = "dollar", Shape(q)
  PROVE  Follows(A, q, inDollar(q, c)) /\ inDollar(q, c).found = q.found
  <1> DEFINE r == inDollar(q, c)
             x == Append(q.body, c)
  <1> SUFFICES Follows(A, q, r) /\ r.found = q.found
    OBVIOUS
  <1>a. q.half = "none" /\ q.dot = FALSE /\ q.body \in Seq(A)
    BY DEF Shape, States
  <1>0. q.half = "none" /\ q.dot = FALSE /\ x \in Seq(A)
    BY <1>a, AppendProperties
  <1>1. r = [q EXCEPT !.in = "code"] \/ r = [q EXCEPT !.body = x]
    BY DEF inDollar
  <1> HIDE DEF r, x
  <1>2. CASE r = [q EXCEPT !.in = "code"]
    <2>1. r \in States(A) /\ r.in = "code" /\ r.half = q.half /\ r.at = q.at /\ r.found = q.found
      BY <1>2, Names DEF States
    <2> QED
      BY <1>0, <2>1 DEF Follows, Shape
  <1>3. CASE r = [q EXCEPT !.body = x]
    <2>1. r \in States(A) /\ r.in = "dollar" /\ r.half = q.half /\ r.dot = q.dot /\ r.at = q.at
          /\ r.found = q.found
      BY <1>0, <1>3 DEF States
    <2> QED
      BY <1>0, <2>1 DEF Follows, Shape
  <1> QED
    BY <1>1, <1>2, <1>3

\* A block comment, with the comments nested in it.
LEMMA BlockState ==
  ASSUME NEW A, NEW q \in States(A), NEW c \in A, q.in = "block", Shape(q)
  PROVE  Follows(A, q, inBlock(q, c)) /\ inBlock(q, c).found = q.found
  <1> DEFINE r == inBlock(q, c)
  <1> SUFFICES Follows(A, q, r) /\ r.found = q.found
    OBVIOUS
  <1>0. q.depth \in Int
    BY DEF States
  <1>1. CASE q.half = "/" /\ c = "*"
    <2> DEFINE d == q.depth + 1
    <2>a. d \in Int
      BY <1>0
    <2>1. r = [q EXCEPT !.half = "none", !.depth = d]
      BY <1>1, BlockArms
    <2> HIDE DEF r, d
    <2>2. r \in States(A) /\ r.in = "block" /\ r.half = "none" /\ r.at = q.at /\ r.found = q.found
      BY <2>1, <2>a, Names DEF States
    <2> QED
      BY <2>2 DEF Follows, Shape
  <1>2. CASE q.half = "*" /\ c = "/" /\ q.depth = 1
    <2>1. r = [q EXCEPT !.in = "code", !.half = "none"]
      BY <1>2, BlockArms
    <2> HIDE DEF r
    <2>2. r \in States(A) /\ r.in = "code" /\ r.half = "none" /\ r.at = q.at /\ r.found = q.found
      BY <2>1, Names DEF States
    <2> QED
      BY <2>2 DEF Follows, Shape
  <1>3. CASE q.half = "*" /\ c = "/" /\ q.depth # 1
    <2> DEFINE d == q.depth - 1
    <2>a. d \in Int
      BY <1>0
    <2>1. r = [q EXCEPT !.half = "none", !.depth = d]
      BY <1>3, BlockArms
    <2> HIDE DEF r, d
    <2>2. r \in States(A) /\ r.in = "block" /\ r.half = "none" /\ r.at = q.at /\ r.found = q.found
      BY <2>1, <2>a, Names DEF States
    <2> QED
      BY <2>2 DEF Follows, Shape
  <1>4. CASE ~(q.half = "/" /\ c = "*") /\ ~(q.half = "*" /\ c = "/") /\ c \in {"/", "*"}
    <2>1. r = [q EXCEPT !.half = c] /\ c \in Halves
      BY <1>4, BlockArms, Names
    <2> HIDE DEF r
    <2>2. r \in States(A) /\ r.in = "block" /\ r.half = c /\ r.at = q.at /\ r.found = q.found
      BY <2>1 DEF States
    <2> QED
      BY <1>4, <2>2 DEF Follows, Shape
  <1>5. CASE ~(q.half = "/" /\ c = "*") /\ ~(q.half = "*" /\ c = "/") /\ c \notin {"/", "*"}
    <2>1. r = [q EXCEPT !.half = "none"]
      BY <1>5, BlockArms
    <2> HIDE DEF r
    <2>2. r \in States(A) /\ r.in = "block" /\ r.half = "none" /\ r.at = q.at /\ r.found = q.found
      BY <2>1, Names DEF States
    <2> QED
      BY <2>2 DEF Follows, Shape
  <1> QED
    BY <1>1, <1>2, <1>3, <1>4, <1>5

\* A line comment, and one in the gap after a string.
LEMMA LineState ==
  ASSUME NEW A, NEW q \in States(A), NEW c, q.in \in {"line", "remark"}, Shape(q),
         NEW r, r = IF q.in = "line" THEN inLine(q, c) ELSE inRemark(q, c)
  PROVE  Follows(A, q, r) /\ r.found = q.found
  <1>0. q.half = "none" /\ (q.in = "remark" => q.dot = FALSE)
    BY DEF Shape
  <1>1. CASE c \in newlines /\ q.in = "line"
    <2>1. r = [q EXCEPT !.in = "code"]
      BY <1>1 DEF inLine
    <2>2. r \in States(A) /\ r.in = "code" /\ r.half = q.half /\ r.at = q.at /\ r.found = q.found
      BY <2>1, Names DEF States
    <2> QED
      BY <1>0, <2>2 DEF Follows, Shape
  <1>2. CASE c \in newlines /\ q.in = "remark"
    <2>1. r = [q EXCEPT !.in = "gap", !.newline = TRUE]
      BY <1>2 DEF inRemark
    <2>2. r \in States(A) /\ r.in = "gap" /\ r.half = q.half /\ r.dot = q.dot /\ r.at = q.at
          /\ r.found = q.found
      BY <2>1, Names DEF States
    <2> QED
      BY <1>0, <1>2, <2>2 DEF Follows, Shape
  <1>3. CASE c \notin newlines
    <2>1. r = q
      BY <1>3 DEF inLine, inRemark
    <2> QED
      BY <2>1 DEF Follows
  <1> QED
    BY <1>1, <1>2, <1>3

\* The lexer's state once the symbol is counted.
LEMMA Counted ==
  ASSUME NEW A, NEW h \in States(A), NEW n \in Nat, NEW r, r = [h EXCEPT !.at = n]
  PROVE  /\ r \in States(A) /\ r.at = n
         /\ r.in = h.in /\ r.half = h.half /\ r.dot = h.dot /\ r.text = h.text /\ r.body = h.body
         /\ r.depth = h.depth /\ r.escapes = h.escapes /\ r.newline = h.newline /\ r.found = h.found
  BY DEF States

\* The lexer moves from state to state, and what it has found stays found.
LEMMA ReadState ==
  ASSUME NEW A, NEW q \in States(A), Shape(q), NEW c \in A, NEW r, r = Read(q, c)
  PROVE  /\ r \in States(A) /\ Shape(r) /\ r.at = q.at + 1
         /\ q.found # 0 => r.found = q.found
  <1> DEFINE n == q.at + 1
  <1>0. n \in Nat
    BY DEF States
  <1> HIDE DEF n
  <1>1. ASSUME NEW h, Follows(A, q, h), r = [h EXCEPT !.at = n]
        PROVE  /\ r \in States(A) /\ Shape(r) /\ r.at = n
               /\ q.found # 0 => r.found = q.found
    <2>1. h \in States(A) /\ Shape(h) /\ (q.found # 0 => h.found = q.found)
      BY <1>1 DEF Follows
    <2>2. r \in States(A) /\ r.at = n /\ r.in = h.in /\ r.half = h.half /\ r.dot = h.dot
          /\ r.found = h.found
      BY <1>0, <1>1, <2>1, Counted
    <2> QED
      BY <2>1, <2>2 DEF Shape
  <1>2. q.half \in Halves /\ q.in \in Modes
    BY DEF States
  <1>3. CASE q.in = "code"
    <2> DEFINE h == inCode(q, c)
    <2>1. Follows(A, q, h)
      BY <1>3, CodeState
    <2>2. r = [h EXCEPT !.at = n]
      BY <1>3, ReadArms DEF n
    <2> HIDE DEF h
    <2> QED
      BY <1>1, <2>1, <2>2 DEF n
  <1>4. CASE q.in = "word"
    <2> DEFINE h == inWord(q, c)
    <2>a. q.half = "none"
      BY <1>4 DEF Shape
    <2>1. Follows(A, q, h)
      BY <1>4, <2>a, WordState
    <2>2. r = [h EXCEPT !.at = n]
      BY <1>4, ReadArms DEF n
    <2> HIDE DEF h
    <2> QED
      BY <1>1, <2>1, <2>2 DEF n
  <1>5. CASE q.in \in {"string", "ident"}
    <2> DEFINE h == inQuoted(q, c)
    <2>1. Follows(A, q, h)
      BY <1>5, QuotedState
    <2>2. r = [h EXCEPT !.at = n]
      BY <1>5, ReadArms DEF n
    <2> HIDE DEF h
    <2> QED
      BY <1>1, <2>1, <2>2 DEF n
  <1>6. CASE q.in = "gap"
    <2> DEFINE h == inGap(q, c)
    <2>a. q.half \in {"none", "-"} /\ q.dot = FALSE
      BY <1>6 DEF Shape
    <2>1. Follows(A, q, h)
      BY <1>6, <2>a, GapState
    <2>2. r = [h EXCEPT !.at = n]
      BY <1>6, ReadArms DEF n
    <2> HIDE DEF h
    <2> QED
      BY <1>1, <2>1, <2>2 DEF n
  <1>7. CASE q.in \in {"line", "remark"}
    <2> DEFINE h == IF q.in = "line" THEN inLine(q, c) ELSE inRemark(q, c)
    <2>0. h = IF q.in = "line" THEN inLine(q, c) ELSE inRemark(q, c)
      OBVIOUS
    <2>2. r = [h EXCEPT !.at = n]
      BY <1>7, ReadArms DEF n
    <2> HIDE DEF h
    <2>1. Follows(A, q, h)
      BY <1>7, <2>0, LineState
    <2> QED
      BY <1>1, <2>1, <2>2 DEF n
  <1>8. CASE q.in = "block"
    <2> DEFINE h == inBlock(q, c)
    <2>1. Follows(A, q, h)
      BY <1>8, BlockState
    <2>2. r = [h EXCEPT !.at = n]
      BY <1>8, ReadArms DEF n
    <2> HIDE DEF h
    <2> QED
      BY <1>1, <2>1, <2>2 DEF n
  <1>9. CASE q.in = "tag"
    <2> DEFINE h == inTag(q, c)
    <2>1. Follows(A, q, h)
      BY <1>9, TagState
    <2>2. r = [h EXCEPT !.at = n]
      BY <1>9, ReadArms DEF n
    <2> HIDE DEF h
    <2> QED
      BY <1>1, <2>1, <2>2 DEF n
  <1>10. CASE q.in = "dollar"
    <2> DEFINE h == inDollar(q, c)
    <2>1. Follows(A, q, h)
      BY <1>10, DollarState
    <2>2. r = [h EXCEPT !.at = n]
      BY <1>10, ReadArms DEF n
    <2> HIDE DEF h
    <2> QED
      BY <1>1, <2>1, <2>2 DEF n
  <1> QED
    BY <1>2, <1>3, <1>4, <1>5, <1>6, <1>7, <1>8, <1>9, <1>10 DEF Modes

\* What the lexer has found stays found.
LEMMA FoundStays ==
  ASSUME NEW A, NEW q \in States(A), Shape(q), NEW c \in A, q.found # 0
  PROVE  Read(q, c).found = q.found
  <1> DEFINE r == Read(q, c)
  <1>1. r = Read(q, c)
    OBVIOUS
  <1> HIDE DEF r
  <1>2. q.found # 0 => r.found = q.found
    BY <1>1, ReadState
  <1> QED
    BY <1>2 DEF r

\* The lexer begins in code.
LEMMA StartState == ASSUME NEW A PROVE Start \in States(A) /\ Shape(Start)
  <1> DEFINE e == <<>>
             z == 0
  <1>1. e \in Seq(A) /\ z \in Nat /\ z \in Int
    OBVIOUS
  <1>2. Start = [in |-> "code", half |-> "none", dot |-> FALSE, text |-> e, body |-> e,
                 depth |-> z, escapes |-> FALSE, newline |-> FALSE, at |-> z, found |-> z]
    BY DEF Start
  <1> HIDE DEF e, z
  <1>3. Start \in States(A) /\ Start.in = "code" /\ Start.half = "none"
    BY <1>1, <1>2, Names DEF States
  <1> QED
    BY <1>3 DEF Shape

\* The states the lexer goes through.
LEMMA ReadingDef ==
  ASSUME NEW A, NEW s \in Seq(A), NEW Q, Q = reading(s)
  PROVE  /\ Q[0] = Start
         /\ \A k \in 1..Len(s) : Q[k] = Read(Q[k - 1], s[k])
         /\ \A k \in 0..Len(s) : Q[k] \in States(A) /\ Shape(Q[k]) /\ Q[k].at = k
  <1> DEFINE N == Len(s)
             D == 0..N
             U == {q \in States(A) : Shape(q)}
             mu == [x \in D |-> x]
             body(f, x) == IF x = 0 THEN Start ELSE Read(f[x - 1], s[x])
             G == [z \in [D -> U] \X D |-> body(z[1], z[2])]
  <1>0. N \in Nat
    OBVIOUS
  <1>1. mu \in [D -> Nat] /\ \A x \in D : mu[x] < N + 1
    BY <1>0
  <1>2. ASSUME NEW f \in [D -> U], NEW x \in D PROVE body(f, x) \in U
    <2>1. CASE x = 0
      BY <2>1, StartState
    <2>2. CASE x # 0
      <3>1. x - 1 \in D /\ x \in 1..Len(s) /\ s[x] \in A
        BY <1>0, <2>2
      <3>2. f[x - 1] \in States(A) /\ Shape(f[x - 1])
        <4> HIDE DEF D
        <4> QED
          BY <3>1
      <3> DEFINE q == f[x - 1]
                 r == Read(q, s[x])
      <3>3. q \in States(A) /\ Shape(q) /\ r = Read(q, s[x])
        BY <3>2
      <3>4. body(f, x) = r
        BY <2>2
      <3> HIDE DEF q, r, body
      <3>5. r \in States(A) /\ Shape(r)
        BY <3>1, <3>3, ReadState
      <3> QED
        BY <3>4, <3>5
    <2> QED
      BY <2>1, <2>2
  <1>3. G \in [[D -> U] \X D -> U]
    <2> HIDE DEF body, D, U
    <2> QED
      BY <1>2
  <1>4. ASSUME NEW f \in [D -> U], NEW g \in [D -> U], NEW x \in D,
               \A y \in D : mu[y] < mu[x] => f[y] = g[y]
        PROVE  G[<<f, x>>] = G[<<g, x>>]
    <2>1. body(f, x) = body(g, x)
      <3>1. CASE x = 0
        BY <3>1
      <3>2. CASE x # 0
        <4>1. x - 1 \in D /\ x - 1 < x
          BY <1>0, <3>2
        <4>2. f[x - 1] = g[x - 1]
          BY <1>4, <4>1
        <4> QED
          BY <3>2, <4>2
      <3> QED
        BY <3>1, <3>2
    <2> HIDE DEF body, D, U
    <2> QED
      BY <2>1
  <1>5. RecursiveStep(G, D, U, mu, N + 1)
    <2>1. U # {} /\ N + 1 \in Nat
      BY <1>0, StartState
    <2> HIDE DEF D, U, mu, G
    <2> QED
      BY <1>1, <1>3, <1>4, <2>1 DEF RecursiveStep
  <1>6. PICK f \in [D -> U] : Fixed(f, G, D)
    <2> HIDE DEF D, U, mu, G
    <2> QED
      BY <1>5, RecursiveFunction
  <1>7. \A x \in D : f[x] = body(f, x)
    <2> HIDE DEF body, D, U
    <2> QED
      BY <1>6 DEF Fixed
  <1>8. f = [x \in D |-> body(f, x)]
    <2> HIDE DEF body, D, U
    <2> QED
      BY <1>7
  <1>9. reading(s) = CHOOSE h : h = [x \in D |-> body(h, x)]
    BY DEF reading
  <1>10. Q = [x \in D |-> body(Q, x)]
    <2> HIDE DEF body, D, U
    <2> QED
      BY <1>8, <1>9
  <1>11. \A x \in D : Q[x] = body(Q, x)
    <2> HIDE DEF body, D
    <2> QED
      BY <1>10
  <1>12. Q[0] = Start /\ \A k \in 1..N : Q[k] = Read(Q[k - 1], s[k])
    BY <1>0, <1>11
  <1> DEFINE Bad == {k \in D : ~(Q[k] \in States(A) /\ Shape(Q[k]) /\ Q[k].at = k)}
  <1>13. ASSUME Bad # {} PROVE FALSE
    <2>1. Bad \subseteq Nat
      BY <1>0
    <2> HIDE DEF Bad
    <2>2. PICK m \in Bad : \A j \in Bad : m <= j
      BY <1>13, <2>1, SmallestIndex
    <2> USE DEF Bad
    <2>3. m # 0
      <3>1. Start.at = 0
        BY DEF Start
      <3> QED
        BY <1>12, <3>1, StartState
    <2>4. m - 1 \in D /\ m - 1 \notin Bad /\ m \in 1..N /\ s[m] \in A /\ m - 1 \in Nat
      BY <1>0, <2>2, <2>3
    <2> DEFINE q == Q[m - 1]
               r == Q[m]
    <2>5. q \in States(A) /\ Shape(q) /\ q.at = m - 1
      BY <2>4
    <2>6. r = Read(q, s[m])
      BY <1>12, <2>4
    <2>7. ~(r \in States(A) /\ Shape(r) /\ r.at = m)
      BY <2>2
    <2> HIDE DEF q, r, Bad
    <2>8. r \in States(A) /\ Shape(r) /\ r.at = q.at + 1
      BY <2>4, <2>5, <2>6, ReadState
    <2> QED
      BY <2>4, <2>5, <2>7, <2>8
  <1> QED
    BY <1>12, <1>13

\* The same, token by token.
LEMMA BareLine ==
  ASSUME NEW A, NEW s \in Seq(A), NEW i \in 1..Len(s), NEW dot \in BOOLEAN, startsWith(s, i, "-", "-")
  PROVE  bareWord(s)[i][dot] = bareWord(s)[endOfLineComment(s, i)][dot]
  BY BareCases

\* A block comment.
LEMMA BareBlock ==
  ASSUME NEW A, NEW s \in Seq(A), NEW i \in 1..Len(s), NEW dot \in BOOLEAN, startsWith(s, i, "/", "*")
  PROVE  bareWord(s)[i][dot] = bareWord(s)[blockComment(s)[i + 2][1]][dot]
  BY BareCases

\* A string or a quoted identifier.
LEMMA BareQuoted ==
  ASSUME NEW A, NEW s \in Seq(A), NEW i \in 1..Len(s), NEW dot \in BOOLEAN, s[i] \in {"'", "DQ"}
  PROVE  bareWord(s)[i][dot] = bareWord(s)[quoted(s, s[i], FALSE)[i + 1]][FALSE]
  BY BareCases

\* A dollar sign.
LEMMA BareDollar ==
  ASSUME NEW A, NEW s \in Seq(A), NEW i \in 1..Len(s), NEW dot \in BOOLEAN, s[i] = "$"
  PROVE  bareWord(s)[i][dot] = bareWord(s)[endOfDollarQuoted(s, i)][FALSE]
  BY BareCases

\* Whitespace.
LEMMA BareSpace ==
  ASSUME NEW A, NEW s \in Seq(A), NEW i \in 1..Len(s), NEW dot \in BOOLEAN, s[i] \in spaces
  PROVE  bareWord(s)[i][dot] = bareWord(s)[i + 1][dot]
  BY BareCases

\* The field selector.
LEMMA BareDot ==
  ASSUME NEW A, NEW s \in Seq(A), NEW i \in 1..Len(s), NEW dot \in BOOLEAN, s[i] = "."
  PROVE  bareWord(s)[i][dot] = bareWord(s)[i + 1][TRUE]
  BY BareCases

\* A symbol that begins nothing is a token of its own.
LEMMA BareOther ==
  ASSUME NEW A, NEW s \in Seq(A), NEW i \in 1..Len(s), NEW dot \in BOOLEAN, Ordinary(s, i)
  PROVE  bareWord(s)[i][dot] = bareWord(s)[i + 1][FALSE]
  BY BareCases

-----------------------------------------------------------------------------
(* What the server's lexer will have found at the end, V, told from the    *)
(* state it is in before it reads the symbol at p: what the scan finds     *)
(* from the token on that the state stands in the middle of.               *)

CodePromise(s, V, p, half, dot) ==
    /\ half = "none" => V = bareWord(s)[p][dot]
    /\ half = "-" => V = IF p <= Len(s) /\ s[p] = "-" THEN bareWord(s)[endOfLineComment(s, p)][dot]
                         ELSE bareWord(s)[p][FALSE]
    /\ half = "/" => V = IF p <= Len(s) /\ s[p] = "*" THEN bareWord(s)[blockComment(s)[p + 1][1]][dot]
                         ELSE bareWord(s)[p][FALSE]

LinePromise(s, V, p, dot) == V = bareWord(s)[endOfLineComment(s, p)][dot]

BlockPromise(s, V, p, half, depth, dot) ==
    V = IF half = "/" /\ p <= Len(s) /\ s[p] = "*" THEN bareWord(s)[blockComment(s)[p + 1][depth + 1]][dot]
        ELSE IF half = "*" /\ p <= Len(s) /\ s[p] = "/" /\ depth = 1 THEN bareWord(s)[p + 1][dot]
        ELSE IF half = "*" /\ p <= Len(s) /\ s[p] = "/"
        THEN bareWord(s)[blockComment(s)[p + 1][depth - 1]][dot]
        ELSE bareWord(s)[blockComment(s)[p][depth]][dot]

QuotedPromise(s, V, p, half, quote, escapes) ==
    /\ half = "none" => V = bareWord(s)[quoted(s, quote, escapes)[p]][FALSE]
    /\ half = "\\" => V = bareWord(s)[quoted(s, quote, escapes)[p + 1]][FALSE]
    /\ half = quote =>
          V = IF p <= Len(s) /\ s[p] = quote THEN bareWord(s)[quoted(s, quote, escapes)[p + 1]][FALSE]
              ELSE IF continuationQuote(s, p, quote)
              THEN bareWord(s)[quoted(s, quote, escapes)[gap(s)[p] + 1]][FALSE]
              ELSE bareWord(s)[p][FALSE]

RemarkPromise(s, V, p, escapes) ==
    LET l == endOfLineComment(s, p)
        e == gap(s)[l]
    IN  V = IF e <= Len(s) /\ s[e] = "'" THEN bareWord(s)[quoted(s, "'", escapes)[e + 1]][FALSE]
            ELSE bareWord(s)[l][FALSE]

GapPromise(s, V, p, half, newline, escapes) ==
    /\ half = "none" =>
          V = IF gap(s)[p] <= Len(s) /\ s[gap(s)[p]] = "'"
                 /\ (newline \/ \E k \in p..(gap(s)[p] - 1) : s[k] \in newlines)
              THEN bareWord(s)[quoted(s, "'", escapes)[gap(s)[p] + 1]][FALSE]
              ELSE bareWord(s)[p][FALSE]
    /\ half = "-" => IF p <= Len(s) /\ s[p] = "-" THEN RemarkPromise(s, V, p, escapes)
                     ELSE V = bareWord(s)[p][FALSE]

\* The word that began at i is all there is from i up to p.
WordFrom(s, i, p, text) ==
    /\ s[i] \in wordStart /\ \A k \in (i + 1)..(p - 1) : s[k] \in wordBytes
    /\ text = SubSeq(s, i, p - 1)

WordPromise(s, V, p, text, dot) ==
    \A i \in 1..(p - 1) : WordFrom(s, i, p, text) => V = bareWord(s)[i][dot]

\* The dollar sign stood at i and a tag is all there is from there up to p.
TagFrom(s, i, p, text) ==
    /\ s[i] = "$" /\ \A k \in (i + 1)..(p - 1) : s[k] \in tagBytes
    /\ i + 1 < p => s[i + 1] \in wordStart
    /\ text = SubSeq(s, i + 1, p - 1)

TagPromise(s, V, p, text) ==
    \A i \in 1..(p - 1) :
        TagFrom(s, i, p, text) => V = bareWord(s)[endOfDollarQuoted(s, i)][FALSE]

\* The delimiter at i opened a dollar quote that nothing has closed up to p.
BodyFrom(s, i, n, p, text, body) ==
    /\ s[i] = "$" /\ n = dollarQuoteDelimiter(s, i) /\ n # 0 /\ i + n <= p
    /\ text = SubSeq(s, i + 1, i + n - 2) /\ body = SubSeq(s, i + n, p - 1)
    /\ \A k \in (i + n)..(p - n) : ~Closes(s, i, k)

DollarPromise(s, V, p, text, body) ==
    \A i \in 1..(p - 1) : \A n \in Nat :
        BodyFrom(s, i, n, p, text, body) => V = bareWord(s)[endOfDollarQuoted(s, i)][FALSE]

Promise(s, V, p, q) ==
    IF q.found # 0 THEN V = q.found
    ELSE /\ q.in = "code" => CodePromise(s, V, p, q.half, q.dot)
         /\ q.in = "line" => LinePromise(s, V, p, q.dot)
         /\ q.in = "block" => BlockPromise(s, V, p, q.half, q.depth, q.dot)
         /\ q.in = "string" => QuotedPromise(s, V, p, q.half, "'", q.escapes)
         /\ q.in = "ident" => QuotedPromise(s, V, p, q.half, "DQ", q.escapes)
         /\ q.in = "gap" => GapPromise(s, V, p, q.half, q.newline, q.escapes)
         /\ q.in = "remark" => RemarkPromise(s, V, p, q.escapes)
         /\ q.in = "word" => WordPromise(s, V, p, q.text, q.dot)
         /\ q.in = "tag" => TagPromise(s, V, p, q.text)
         /\ q.in = "dollar" => DollarPromise(s, V, p, q.text, q.body)

\* Code keeps the promise: if the state after the symbol at p keeps it, so does
\* the state before.
LEMMA CodeKeeps ==
  ASSUME NEW A, NEW s \in Seq(A), NEW V, NEW p \in 1..Len(s), NEW q \in States(A), q.in = "code",
         q.half \in {"none", "-", "/"}, q.found = 0, NEW r, r = inCode(q, s[p]), Promise(s, V, p + 1, r)
  PROVE  CodePromise(s, V, p, q.half, q.dot)
  <1> DEFINE N == Len(s)
             b == bareWord(s)
             c == s[p]
             d == Pending(q)
  <1>0. N \in Nat /\ p \in 1..(N + 1) /\ c \in A /\ p <= N
    OBVIOUS
  <1>1. /\ d \in BOOLEAN /\ q.dot \in BOOLEAN
        /\ q.half = "none" => d = q.dot
        /\ q.half # "none" => d = FALSE
    BY DEF Pending, States
  <1> HIDE DEF d
  <1>2. ASSUME V = b[p][d], ~(c = "-" /\ q.half = "-"), ~(c = "*" /\ q.half = "/")
        PROVE  CodePromise(s, V, p, q.half, q.dot)
    BY <1>0, <1>1, <1>2 DEF CodePromise
  <1>3. CASE c \in wordStart
    <2> DEFINE x == <<c>>
    <2>1. r = [q EXCEPT !.in = "word", !.text = x, !.half = "none", !.dot = d]
      BY <1>3, CodeArms DEF d
    <2>a. x \in Seq(A)
      BY <1>0
    <2> HIDE DEF x
    <2>2. r.in = "word" /\ r.text = x /\ r.dot = d /\ r.found = 0
      BY <1>1, <2>1 DEF States
    <2>3. WordPromise(s, V, p + 1, x, d)
      BY <2>2 DEF Promise
    <2>4. p \in 1..(p + 1 - 1) /\ p + 1 - 1 = p
      BY <1>0
    <2>5. x = SubSeq(s, p, p)
      BY <1>0, SubSeqOne DEF x
    <2>6. WordFrom(s, p, p + 1, x)
      BY <1>0, <1>3, <2>4, <2>5 DEF WordFrom
    <2>7. V = b[p][d]
      BY <2>3, <2>4, <2>6 DEF WordPromise
    <2>8. c # "-" /\ c # "*"
      BY <1>3 DEF wordStart
    <2> QED
      BY <1>2, <2>7, <2>8
  <1>4. CASE c = "-" /\ q.half = "-"
    <2>1. r = [q EXCEPT !.in = "line", !.half = "none"]
      BY <1>4, CodeArms
    <2>2. r.in = "line" /\ r.dot = q.dot /\ r.found = 0
      BY <2>1 DEF States
    <2>3. V = b[endOfLineComment(s, p + 1)][q.dot]
      BY <2>2 DEF Promise, LinePromise
    <2>4. endOfLineComment(s, p) = endOfLineComment(s, p + 1)
      BY <1>0, <1>4, LineStep DEF newlines
    <2> QED
      BY <1>0, <1>4, <2>3, <2>4 DEF CodePromise
  <1>5. CASE c = "*" /\ q.half = "/"
    <2>1. r = [q EXCEPT !.in = "block", !.depth = 1, !.half = "none"]
      BY <1>5, CodeArms
    <2>2. r.in = "block" /\ r.half = "none" /\ r.dot = q.dot /\ r.found = 0 /\ r.depth = 1
      BY <2>1 DEF States
    <2>3. V = b[blockComment(s)[p + 1][1]][q.dot]
      BY <2>2 DEF Promise, BlockPromise
    <2> QED
      BY <1>0, <1>5, <2>3 DEF CodePromise
  <1>6. CASE c = "'"
    <2>1. r = [q EXCEPT !.in = "string", !.escapes = FALSE, !.half = "none", !.dot = FALSE]
      BY <1>6, CodeArms
    <2>2. r.in = "string" /\ r.half = "none" /\ r.found = 0 /\ r.escapes = FALSE
      BY <2>1 DEF States
    <2>3. V = b[quoted(s, c, FALSE)[p + 1]][FALSE]
      BY <1>6, <2>2 DEF Promise, QuotedPromise
    <2>4. b[p][d] = b[quoted(s, c, FALSE)[p + 1]][FALSE]
      BY <1>1, <1>6, BareQuoted
    <2> QED
      BY <1>2, <1>6, <2>3, <2>4
  <1>7. CASE c = "DQ"
    <2>1. r = [q EXCEPT !.in = "ident", !.escapes = FALSE, !.half = "none", !.dot = FALSE]
      BY <1>7, CodeArms
    <2>2. r.in = "ident" /\ r.half = "none" /\ r.found = 0 /\ r.escapes = FALSE
      BY <2>1 DEF States
    <2>3. V = b[quoted(s, c, FALSE)[p + 1]][FALSE]
      BY <1>7, <2>2 DEF Promise, QuotedPromise
    <2>4. b[p][d] = b[quoted(s, c, FALSE)[p + 1]][FALSE]
      BY <1>1, <1>7, BareQuoted
    <2> QED
      BY <1>2, <1>7, <2>3, <2>4
  <1>8. CASE c = "$"
    <2> DEFINE x == <<>>
    <2>1. r = [q EXCEPT !.in = "tag", !.text = x, !.half = "none", !.dot = FALSE]
      BY <1>8, CodeArms
    <2> HIDE DEF x
    <2>2. r.in = "tag" /\ r.text = x /\ r.found = 0
      BY <2>1 DEF States
    <2>3. TagPromise(s, V, p + 1, x)
      BY <2>2 DEF Promise
    <2>4. p \in 1..(p + 1 - 1) /\ p + 1 - 1 = p /\ p \in Int /\ p + 1 \in Int /\ p < p + 1
      BY <1>0
    <2>5. x = SubSeq(s, p + 1, p)
      BY <2>4, SubSeqEmpty DEF x
    <2>6. TagFrom(s, p, p + 1, x)
      BY <1>0, <1>8, <2>4, <2>5 DEF TagFrom
    <2>7. V = b[endOfDollarQuoted(s, p)][FALSE]
      <3> DEFINE t == p + 1
      <3>1. TagPromise(s, V, t, x) /\ TagFrom(s, p, t, x) /\ p \in 1..(t - 1)
        BY <2>3, <2>4, <2>6
      <3> HIDE DEF t
      <3> QED
        BY <3>1 DEF TagPromise
    <2>8. b[p][d] = b[endOfDollarQuoted(s, p)][FALSE]
      BY <1>1, <1>8, BareDollar
    <2> QED
      BY <1>2, <1>8, <2>7, <2>8
  <1>9. CASE c \in spaces
    <2>1. r = [q EXCEPT !.half = "none", !.dot = d]
      BY <1>9, CodeArms DEF d
    <2>2. r.in = "code" /\ r.half = "none" /\ r.dot = d /\ r.found = 0
      BY <1>1, <2>1 DEF States
    <2>3. V = b[p + 1][d]
      BY <2>2 DEF Promise, CodePromise
    <2>4. b[p][d] = b[p + 1][d]
      BY <1>1, <1>9, BareSpace
    <2>5. c # "-" /\ c # "*"
      BY <1>9 DEF spaces, newlines
    <2> QED
      BY <1>2, <2>3, <2>4, <2>5
  <1>10. CASE c = "/" \/ (c = "-" /\ q.half # "-")
    <2>1. r = [q EXCEPT !.half = c, !.dot = d]
      BY <1>10, CodeArms DEF d
    <2>2. r.in = "code" /\ r.half = c /\ r.dot = d /\ r.found = 0
      BY <1>1, <2>1 DEF States
    <2>3. CodePromise(s, V, p + 1, c, d)
      BY <2>2 DEF Promise
    <2>4. c \notin wordStart \cup spaces \cup {"'", "DQ", "$"} /\ c # "."
      BY <1>10 DEF wordStart, spaces, newlines
    <2>a. p + 1 <= N <=> p < N
      BY <1>0
    <2>5. CASE startsWith(s, p, "-", "-")
      <3>1. c = "-" /\ p + 1 <= N /\ s[p + 1] = "-"
        BY <1>0, <2>5 DEF startsWith
      <3>2. V = b[endOfLineComment(s, p + 1)][d]
        BY <2>3, <3>1 DEF CodePromise
      <3>3. endOfLineComment(s, p) = endOfLineComment(s, p + 1)
        BY <1>0, <3>1, LineStep DEF newlines
      <3>4. b[p][d] = b[endOfLineComment(s, p)][d]
        BY <1>1, <2>5, BareLine
      <3> QED
        BY <1>2, <1>10, <3>2, <3>3, <3>4
    <2>6. CASE startsWith(s, p, "/", "*")
      <3>1. c = "/" /\ p + 1 <= N /\ s[p + 1] = "*" /\ p + 1 + 1 = p + 2
        BY <1>0, <2>6 DEF startsWith
      <3>2. V = b[blockComment(s)[p + 2][1]][d]
        BY <2>3, <3>1 DEF CodePromise
      <3>3. b[p][d] = b[blockComment(s)[p + 2][1]][d]
        BY <1>1, <2>6, BareBlock
      <3> QED
        BY <1>2, <1>10, <3>2, <3>3
    <2>7. CASE ~startsWith(s, p, "-", "-") /\ ~startsWith(s, p, "/", "*")
      <3>1. b[p][d] = b[p + 1][FALSE]
        <4>1. Ordinary(s, p)
          BY <2>4, <2>7 DEF Ordinary
        <4> QED
          BY <1>1, <4>1, BareOther
      <3>2. ~(c = "-" /\ p + 1 <= N /\ s[p + 1] = "-") /\ ~(c = "/" /\ p + 1 <= N /\ s[p + 1] = "*")
        BY <2>7, <2>a DEF startsWith
      <3>3. V = b[p + 1][FALSE]
        BY <1>10, <2>3, <3>2 DEF CodePromise
      <3> QED
        BY <1>2, <1>10, <3>1, <3>3
    <2> QED
      BY <2>5, <2>6, <2>7
  <1>11. CASE c \notin wordStart \cup spaces \cup {"'", "DQ", "$", "/", "-"} /\ ~(c = "*" /\ q.half = "/")
    <2> DEFINE x == Selects(c)
    <2>0. x \in BOOLEAN /\ (c = "." => x = TRUE) /\ (c # "." => x = FALSE)
      BY DEF Selects
    <2>1. r = [q EXCEPT !.half = "none", !.dot = x]
      <3>1. inCode(q, c) = [q EXCEPT !.half = "none", !.dot = Selects(c)]
        BY <1>11, OtherArm
      <3> QED
        BY <3>1
    <2> HIDE DEF x
    <2>2. r.in = "code" /\ r.half = "none" /\ r.dot = x /\ r.found = 0
      BY <2>0, <2>1 DEF States
    <2>3. V = b[p + 1][x]
      BY <2>2 DEF Promise, CodePromise
    <2>4. ~startsWith(s, p, "-", "-") /\ ~startsWith(s, p, "/", "*")
      BY <1>11 DEF startsWith
    <2>5. b[p][d] = b[p + 1][x]
      <3>1. CASE c = "."
        BY <1>1, <2>0, <3>1, BareDot
      <3>2. CASE c # "."
        <4>1. Ordinary(s, p)
          BY <1>11, <2>4, <3>2 DEF Ordinary
        <4>2. b[p][d] = b[p + 1][FALSE]
          BY <1>1, <4>1, BareOther
        <4> QED
          BY <2>0, <3>2, <4>2
      <3> QED
        BY <3>1, <3>2
    <2> QED
      BY <1>2, <1>11, <2>3, <2>5
  <1> QED
    BY <1>3, <1>4, <1>5, <1>6, <1>7, <1>8, <1>9, <1>10, <1>11

\* A line comment keeps the promise.
LEMMA LineKeeps ==
  ASSUME NEW A, NEW s \in Seq(A), NEW V, NEW p \in 1..Len(s), NEW q \in States(A), q.in = "line",
         q.half = "none", q.found = 0, NEW r, r = inLine(q, s[p]), Promise(s, V, p + 1, r)
  PROVE  LinePromise(s, V, p, q.dot)
  <1>0. p \in 1..(Len(s) + 1) /\ p <= Len(s)
    OBVIOUS
  <1>1. CASE s[p] \in newlines
    <2>1. r = [q EXCEPT !.in = "code"]
      BY <1>1 DEF inLine
    <2>2. r.in = "code" /\ r.half = "none" /\ r.dot = q.dot /\ r.found = 0
      BY <2>1 DEF States
    <2>3. V = bareWord(s)[p + 1][q.dot]
      BY <2>2 DEF Promise, CodePromise
    <2>4. endOfLineComment(s, p) = p + 1
      BY <1>0, <1>1, LineStep
    <2> QED
      BY <2>3, <2>4 DEF LinePromise
  <1>2. CASE s[p] \notin newlines
    <2>1. r = q
      BY <1>2 DEF inLine
    <2>2. V = bareWord(s)[endOfLineComment(s, p + 1)][q.dot]
      BY <2>1 DEF Promise, LinePromise
    <2>3. endOfLineComment(s, p) = endOfLineComment(s, p + 1)
      BY <1>0, <1>2, LineStep
    <2> QED
      BY <2>2, <2>3 DEF LinePromise
  <1> QED
    BY <1>1, <1>2

\* A block comment keeps the promise, however deep it is nested.
LEMMA BlockKeeps ==
  ASSUME NEW A, NEW s \in Seq(A), NEW V, NEW p \in 1..Len(s), NEW q \in States(A), q.in = "block",
         q.half \in {"none", "/", "*"}, q.found = 0, NEW r, r = inBlock(q, s[p]), Promise(s, V, p + 1, r)
  PROVE  BlockPromise(s, V, p, q.half, q.depth, q.dot)
  <1> DEFINE N == Len(s)
             b == bareWord(s)
             c == s[p]
             d == q.depth
             blk == blockComment(s)
  <1>0. N \in Nat /\ p \in 1..(N + 1) /\ p <= N /\ ~(p > N) /\ p + 1 + 1 = p + 2 /\ (p + 1 <= N <=> p < N)
    OBVIOUS
  <1>1. d \in Int
    BY DEF States
  <1>2. blk[p][d] = IF startsWith(s, p, "/", "*") THEN blk[p + 2][d + 1]
                    ELSE IF startsWith(s, p, "*", "/")
                    THEN IF d = 1 THEN p + 2 ELSE blk[p + 2][d - 1]
                    ELSE blk[p + 1][d]
    <2> HIDE DEF d
    <2>1. blockComment(s)[p][d] = BlockPiece(s, p, d)
      BY <1>1, BlockStep
    <2> QED
      BY <2>1 DEF BlockPiece
  <1> HIDE DEF b, blk
  <1>3. CASE q.half = "/" /\ c = "*"
    <2> DEFINE k == d + 1
    <2>1. r = [q EXCEPT !.half = "none", !.depth = k]
      BY <1>3, BlockArms
    <2> HIDE DEF k
    <2>2. r.in = "block" /\ r.half = "none" /\ r.depth = k /\ r.dot = q.dot /\ r.found = 0
      BY <2>1 DEF States
    <2>3. V = b[blk[p + 1][k]][q.dot]
      BY <2>2 DEF Promise, BlockPromise, b, blk
    <2> QED
      BY <1>0, <1>3, <2>3 DEF BlockPromise, k, b, blk
  <1>4. CASE q.half = "*" /\ c = "/" /\ d = 1
    <2>1. r = [q EXCEPT !.in = "code", !.half = "none"]
      BY <1>4, BlockArms
    <2>2. r.in = "code" /\ r.half = "none" /\ r.dot = q.dot /\ r.found = 0
      BY <2>1 DEF States
    <2>3. V = b[p + 1][q.dot]
      BY <2>2 DEF Promise, CodePromise, b
    <2> QED
      BY <1>0, <1>4, <2>3 DEF BlockPromise, b
  <1>5. CASE q.half = "*" /\ c = "/" /\ d # 1
    <2> DEFINE k == d - 1
    <2>1. r = [q EXCEPT !.half = "none", !.depth = k]
      BY <1>5, BlockArms
    <2> HIDE DEF k
    <2>2. r.in = "block" /\ r.half = "none" /\ r.depth = k /\ r.dot = q.dot /\ r.found = 0
      BY <2>1 DEF States
    <2>3. V = b[blk[p + 1][k]][q.dot]
      BY <2>2 DEF Promise, BlockPromise, b, blk
    <2> QED
      BY <1>0, <1>5, <2>3 DEF BlockPromise, k, b, blk
  <1>6. ASSUME ~(q.half = "/" /\ c = "*"), ~(q.half = "*" /\ c = "/"), V = b[blk[p][d]][q.dot]
        PROVE  BlockPromise(s, V, p, q.half, q.depth, q.dot)
    BY <1>6 DEF BlockPromise, b, blk
  <1>7. CASE ~(q.half = "/" /\ c = "*") /\ ~(q.half = "*" /\ c = "/") /\ c \in {"/", "*"}
    <2>1. r = [q EXCEPT !.half = c]
      BY <1>7, BlockArms
    <2>2. r.in = "block" /\ r.half = c /\ r.depth = d /\ r.dot = q.dot /\ r.found = 0
      BY <2>1 DEF States
    <2>3. BlockPromise(s, V, p + 1, c, d, q.dot)
      BY <2>2 DEF Promise
    <2>4. V = IF c = "/" /\ p + 1 <= N /\ s[p + 1] = "*" THEN b[blk[p + 2][d + 1]][q.dot]
              ELSE IF c = "*" /\ p + 1 <= N /\ s[p + 1] = "/" /\ d = 1 THEN b[p + 2][q.dot]
              ELSE IF c = "*" /\ p + 1 <= N /\ s[p + 1] = "/" THEN b[blk[p + 2][d - 1]][q.dot]
              ELSE b[blk[p + 1][d]][q.dot]
      BY <1>0, <2>3 DEF BlockPromise, b, blk
    <2>5. V = b[blk[p][d]][q.dot]
      BY <1>0, <1>2, <1>7, <2>4 DEF startsWith
    <2> QED
      BY <1>6, <1>7, <2>5
  <1>8. CASE ~(q.half = "/" /\ c = "*") /\ ~(q.half = "*" /\ c = "/") /\ c \notin {"/", "*"}
    <2>1. r = [q EXCEPT !.half = "none"]
      BY <1>8, BlockArms
    <2>2. r.in = "block" /\ r.half = "none" /\ r.depth = d /\ r.dot = q.dot /\ r.found = 0
      BY <2>1 DEF States
    <2>3. V = b[blk[p + 1][d]][q.dot]
      BY <2>2 DEF Promise, BlockPromise, b, blk
    <2>4. V = b[blk[p][d]][q.dot]
      BY <1>2, <1>8, <2>3 DEF startsWith
    <2> QED
      BY <1>6, <1>8, <2>4
  <1> QED
    BY <1>3, <1>4, <1>5, <1>7, <1>8

\* A comment in the gap after a string keeps the promise.
LEMMA RemarkKeeps ==
  ASSUME NEW A, NEW s \in Seq(A), NEW V, NEW p \in 1..Len(s), NEW q \in States(A), q.in = "remark",
         q.half = "none", q.found = 0, NEW r, r = inRemark(q, s[p]), Promise(s, V, p + 1, r)
  PROVE  RemarkPromise(s, V, p, q.escapes)
  <1>0. p \in 1..(Len(s) + 1) /\ p <= Len(s)
    OBVIOUS
  <1>1. CASE s[p] \in newlines
    <2>1. r = [q EXCEPT !.in = "gap", !.newline = TRUE]
      BY <1>1 DEF inRemark
    <2>2. r.in = "gap" /\ r.half = "none" /\ r.newline = TRUE /\ r.escapes = q.escapes /\ r.found = 0
      BY <2>1 DEF States
    <2>3. GapPromise(s, V, p + 1, "none", TRUE, q.escapes)
      BY <2>2 DEF Promise
    <2>4. endOfLineComment(s, p) = p + 1
      BY <1>0, <1>1, LineStep
    <2> QED
      BY <2>3, <2>4 DEF RemarkPromise, GapPromise
  <1>2. CASE s[p] \notin newlines
    <2>1. r = q
      BY <1>2 DEF inRemark
    <2>2. RemarkPromise(s, V, p + 1, q.escapes)
      BY <2>1 DEF Promise
    <2>3. endOfLineComment(s, p) = endOfLineComment(s, p + 1)
      BY <1>0, <1>2, LineStep
    <2> QED
      BY <2>2, <2>3 DEF RemarkPromise
  <1> QED
    BY <1>1, <1>2

\* A line comment that ends within the clause ends with a newline.
LEMMA LineEnds ==
  ASSUME NEW A, NEW s \in Seq(A), NEW p \in 1..Len(s), NEW l, l = endOfLineComment(s, p), l <= Len(s)
  PROVE  l - 1 \in p..Len(s) /\ s[l - 1] \in newlines
  <1> DEFINE e == endOfByteRun(s, p, Inline(s))
  <1>0. Len(s) \in Nat /\ p \in 1..(Len(s) + 1)
    OBVIOUS
  <1>1. EndsRun(s, p, Inline(s), e)
    BY <1>0, RunEnd
  <1>2. l = IF e > Len(s) THEN e ELSE e + 1
    BY DEF endOfLineComment, Inline
  <1> HIDE DEF e
  <1>3. e \in p..(Len(s) + 1) /\ (e = Len(s) + 1 \/ s[e] \notin Inline(s))
    BY <1>1 DEF EndsRun
  <1>4. e <= Len(s) /\ l = e + 1 /\ l - 1 = e /\ e \in p..Len(s) /\ e \in 1..Len(s)
    BY <1>0, <1>2, <1>3
  <1>5. s[e] \notin Inline(s)
    BY <1>0, <1>3, <1>4
  <1>6. s[e] \in newlines
    BY <1>4, <1>5 DEF Inline
  <1> QED
    BY <1>4, <1>6

\* The gap after a string keeps the promise: only a newline and a quote carry the
\* string on.
LEMMA GapKeeps ==
  ASSUME NEW A, NEW s \in Seq(A), NEW V, NEW p \in 1..Len(s), NEW q \in States(A), q.in = "gap",
         q.half \in {"none", "-"}, q.dot = FALSE, q.found = 0,
         NEW r, r = inGap(q, s[p]), Promise(s, V, p + 1, r)
  PROVE  GapPromise(s, V, p, q.half, q.newline, q.escapes)
  <1> DEFINE N == Len(s)
             b == bareWord(s)
             c == s[p]
             g == gap(s)[p]
             esc == q.escapes
             body(x) == quoted(s, "'", esc)[x]
             held == q.newline \/ \E k \in p..(g - 1) : s[k] \in newlines
  <1>0. N \in Nat /\ p \in 1..(N + 1) /\ p <= N /\ p \in Int
    OBVIOUS
  <1>1. q.newline \in BOOLEAN
    BY DEF States
  <1>2. q.half = "none" => (GapPromise(s, V, p, q.half, q.newline, esc) <=>
           V = IF g <= N /\ s[g] = "'" /\ held THEN b[body(g + 1)][FALSE] ELSE b[p][FALSE])
    BY DEF GapPromise
  <1>3. CASE c = "'" /\ q.half = "none" /\ q.newline
    <2>1. r = [q EXCEPT !.in = "string"]
      BY <1>3, GapArms
    <2>2. r.in = "string" /\ r.half = "none" /\ r.escapes = esc /\ r.found = 0
      BY <1>3, <2>1 DEF States
    <2>3. V = b[body(p + 1)][FALSE]
      BY <2>2 DEF Promise, QuotedPromise
    <2>4. c \notin spaces /\ ~startsWith(s, p, "-", "-")
      BY <1>3 DEF spaces, newlines, startsWith
    <2>5. g = p
      BY <1>0, <2>4, GapStep
    <2> HIDE DEF b, g, body
    <2>6. held
      BY <1>3
    <2> QED
      BY <1>0, <1>2, <1>3, <2>3, <2>5, <2>6
  <1>4. CASE c \in spaces /\ q.half = "none"
    <2> DEFINE nl == Newly(q, c)
               h == gap(s)[p + 1]
    <2>1. r = [q EXCEPT !.newline = nl]
      BY <1>4, GapArms
    <2>2. nl \in BOOLEAN /\ (nl <=> q.newline \/ c \in newlines)
      BY DEF Newly
    <2> HIDE DEF nl
    <2>3. r.in = "gap" /\ r.half = "none" /\ r.newline = nl /\ r.escapes = esc /\ r.found = 0
      BY <1>4, <2>1, <2>2 DEF States
    <2>4. GapPromise(s, V, p + 1, "none", nl, esc)
      BY <2>3 DEF Promise
    <2>5. V = IF h <= N /\ s[h] = "'" /\ (nl \/ \E k \in (p + 1)..(h - 1) : s[k] \in newlines)
              THEN b[body(h + 1)][FALSE] ELSE b[p + 1][FALSE]
      BY <2>4 DEF GapPromise
    <2>6. g = h
      BY <1>0, <1>4, GapStep
    <2>7. h \in (p + 1)..(N + 1)
      <3>1. p + 1 \in 1..(N + 1)
        BY <1>0
      <3> QED
        BY <3>1, GapStep
    <2>8. b[p][FALSE] = b[p + 1][FALSE]
      BY <1>4, BareSpace
    <2> HIDE DEF b, g, h, body
    <2>9. held <=> (nl \/ \E k \in (p + 1)..(h - 1) : s[k] \in newlines)
      BY <1>0, <2>2, <2>6, <2>7
    <2> HIDE DEF held
    <2> QED
      BY <1>2, <1>4, <2>5, <2>6, <2>8, <2>9
  <1>5. CASE c = "-" /\ q.half = "none"
    <2>1. r = [q EXCEPT !.half = "-"]
      BY <1>5, GapArms
    <2>2. r.in = "gap" /\ r.half = "-" /\ r.escapes = esc /\ r.found = 0
      BY <2>1 DEF States
    <2>3. GapPromise(s, V, p + 1, "-", r.newline, esc)
      BY <2>2 DEF Promise
    <2>4. IF p + 1 <= N /\ s[p + 1] = "-" THEN RemarkPromise(s, V, p + 1, esc) ELSE V = b[p + 1][FALSE]
      BY <2>3 DEF GapPromise
    <2>a. c \notin spaces /\ c \notin newlines
      BY <1>5 DEF spaces, newlines
    <2>5. CASE startsWith(s, p, "-", "-")
      <3> DEFINE l == endOfLineComment(s, p)
      <3>1. p + 1 <= N /\ s[p + 1] = "-"
        BY <1>0, <2>5 DEF startsWith
      <3>2. endOfLineComment(s, p + 1) = l
        BY <1>0, <2>a, LineStep
      <3>3. RemarkPromise(s, V, p + 1, esc)
        BY <2>4, <3>1
      <3>4. g = gap(s)[l]
        BY <1>0, <2>5, GapStep
      <3>5. V = IF g <= N /\ s[g] = "'" THEN b[body(g + 1)][FALSE] ELSE b[l][FALSE]
        BY <3>2, <3>3, <3>4 DEF RemarkPromise
      <3>6. b[p][FALSE] = b[l][FALSE]
        BY <2>5, BareLine
      <3>7. l \in 1..(N + 1) /\ l \in Int
        BY <1>0, LineStep
      <3>8. g \in l..(N + 1) /\ g \in Int
        BY <1>0, <3>4, <3>7, GapStep
      <3>9. l <= N => l - 1 \in p..N /\ s[l - 1] \in newlines
        BY LineEnds
      <3> HIDE DEF l, g, b, body
      <3>10. ASSUME g <= N PROVE held
        <4>1. l <= N
          BY <1>0, <3>7, <3>8, <3>10
        <4>2. l - 1 \in p..(g - 1)
          BY <1>0, <3>7, <3>8, <3>9, <4>1
        <4> QED
          BY <3>9, <4>1, <4>2
      <3> HIDE DEF held
      <3> QED
        BY <1>2, <1>5, <3>5, <3>6, <3>10
    <2>6. CASE ~startsWith(s, p, "-", "-")
      <3>1. ~(p + 1 <= N /\ s[p + 1] = "-")
        BY <1>0, <1>5, <2>6 DEF startsWith
      <3>2. V = b[p + 1][FALSE]
        BY <2>4, <3>1
      <3>3. g = p
        BY <1>0, <2>6, <2>a, GapStep
      <3>4. Ordinary(s, p)
        BY <1>5, <2>6 DEF Ordinary, wordStart, spaces, newlines, startsWith
      <3>5. b[p][FALSE] = b[p + 1][FALSE]
        BY <3>4, BareOther
      <3> HIDE DEF g, b, body, held
      <3> QED
        BY <1>2, <1>5, <3>2, <3>3, <3>5
    <2> QED
      BY <2>5, <2>6
  <1>6. CASE c = "-" /\ q.half = "-"
    <2>1. r = [q EXCEPT !.in = "remark", !.half = "none"]
      BY <1>6, GapArms
    <2>2. r.in = "remark" /\ r.escapes = esc /\ r.found = 0
      BY <2>1 DEF States
    <2>3. RemarkPromise(s, V, p + 1, esc)
      BY <2>2 DEF Promise
    <2>4. c \notin newlines
      BY <1>6 DEF newlines
    <2>5. endOfLineComment(s, p) = endOfLineComment(s, p + 1)
      BY <1>0, <2>4, LineStep
    <2>6. RemarkPromise(s, V, p, esc)
      BY <2>3, <2>5 DEF RemarkPromise
    <2> QED
      BY <1>0, <1>6, <2>6 DEF GapPromise
  <1>7. CASE /\ ~(c = "'" /\ q.half = "none" /\ q.newline) /\ ~(c \in spaces /\ q.half = "none")
             /\ ~(c = "-" /\ q.half \in {"none", "-"})
    <2> DEFINE t == [q EXCEPT !.in = "code"]
    <2>1. r = inCode(t, c)
      BY <1>7, GapArms
    <2>2. t \in States(A) /\ t.in = "code" /\ t.half = q.half /\ t.dot = FALSE /\ t.found = 0
      BY Names DEF States
    <2> HIDE DEF t
    <2>3. CodePromise(s, V, p, q.half, FALSE)
      <3>1. CodePromise(s, V, p, t.half, t.dot)
        BY <2>1, <2>2, CodeKeeps
      <3> QED
        BY <2>2, <3>1
    <2>4. c # "-"
      BY <1>7
    <2>5. V = b[p][FALSE]
      BY <2>3, <2>4 DEF CodePromise
    <2>6. CASE q.half = "none"
      <3>1. ~startsWith(s, p, "-", "-") /\ c \notin spaces
        BY <1>7, <2>4, <2>6 DEF startsWith
      <3>2. g = p
        BY <1>0, <3>1, GapStep
      <3> HIDE DEF g, b, body
      <3>3. ~(s[g] = "'" /\ held)
        <4>1. ASSUME s[g] = "'" PROVE ~held
          <5>1. ~q.newline
            BY <1>7, <2>6, <3>2, <4>1
          <5>2. \A k \in p..(g - 1) : FALSE
            BY <1>0, <3>2
          <5> QED
            BY <5>1, <5>2
        <4> QED
          BY <4>1
      <3> HIDE DEF held
      <3> QED
        BY <1>2, <2>5, <2>6, <3>3
    <2>7. CASE q.half = "-"
      BY <2>4, <2>5, <2>7 DEF GapPromise
    <2> QED
      BY <2>6, <2>7
  <1> QED
    BY <1>3, <1>4, <1>5, <1>6, <1>7

\* A literal keeps the promise.
LEMMA QuotedKeeps ==
  ASSUME NEW A, NEW s \in Seq(A), NEW V, NEW p \in 1..Len(s), NEW q \in States(A),
         q.in \in {"string", "ident"}, Shape(q), q.found = 0,
         NEW r, r = inQuoted(q, s[p]), Promise(s, V, p + 1, r), NEW quote, quote = QuoteOf(q)
  PROVE  QuotedPromise(s, V, p, q.half, quote, q.escapes)
  <1> DEFINE N == Len(s)
             b == bareWord(s)
             c == s[p]
             esc == q.escapes
             body == quoted(s, quote, esc)
             joins(x) == continuationQuote(s, x, quote)
  <1>0. N \in Nat /\ p \in 1..(N + 1) /\ p <= N /\ ~(p > N) /\ p + 1 + 1 = p + 2
        /\ (p + 1 <= N <=> p < N) /\ p \in 1..(N + 2)
    OBVIOUS
  <1>1. /\ q.dot = FALSE /\ q.half \in {"none", "\\", quote} /\ quote \in {"'", "DQ"}
        /\ q.in = "string" <=> quote = "'"
        /\ q.in = "ident" <=> quote = "DQ"
    BY DEF Shape, QuoteOf
  <1>2. body[p] = IF esc /\ c = "\\" THEN body[p + 2]
                  ELSE IF c # quote THEN body[p + 1]
                  ELSE IF startsWith(s, p, quote, quote) THEN body[p + 2]
                  ELSE IF joins(p + 1) THEN body[gap(s)[p + 1] + 1]
                  ELSE p + 1
    BY <1>0, QuotedDef
  <1> HIDE DEF body, b, joins
  <1>3. QuotedPromise(s, V, p, q.half, quote, esc) <=>
           /\ q.half = "none" => V = b[body[p]][FALSE]
           /\ q.half = "\\" => V = b[body[p + 1]][FALSE]
           /\ q.half = quote => V = IF c = quote THEN b[body[p + 1]][FALSE]
                                    ELSE IF joins(p) THEN b[body[gap(s)[p] + 1]][FALSE]
                                    ELSE b[p][FALSE]
    BY <1>0 DEF QuotedPromise, body, b, joins
  <1>4. ASSUME r.in = q.in, r.escapes = esc, r.found = 0
        PROVE  /\ r.half = "none" => V = b[body[p + 1]][FALSE]
               /\ r.half = "\\" => V = b[body[p + 2]][FALSE]
               /\ r.half = quote =>
                     V = IF p + 1 <= N /\ s[p + 1] = quote THEN b[body[p + 2]][FALSE]
                         ELSE IF joins(p + 1) THEN b[body[gap(s)[p + 1] + 1]][FALSE]
                         ELSE b[p + 1][FALSE]
    <2>1. QuotedPromise(s, V, p + 1, r.half, quote, esc)
      BY <1>1, <1>4 DEF Promise
    <2> QED
      BY <1>0, <2>1 DEF QuotedPromise, body, b, joins
  <1>5. CASE q.half = "\\" \/ (q.half = quote /\ c = quote)
    <2>1. r = [q EXCEPT !.half = "none"]
      BY <1>5, QuotedArms
    <2>2. r.in = q.in /\ r.escapes = esc /\ r.found = 0 /\ r.half = "none"
      BY <2>1 DEF States
    <2>3. V = b[body[p + 1]][FALSE]
      BY <1>4, <2>2
    <2> QED
      BY <1>1, <1>3, <1>5, <2>3
  <1>6. CASE q.half = quote /\ c # quote /\ q.in = "ident"
    <2> DEFINE t == [q EXCEPT !.in = "code", !.half = "none"]
    <2>1. r = inCode(t, c)
      BY <1>6, QuotedArms
    <2>2. t \in States(A) /\ t.in = "code" /\ t.half = "none" /\ t.dot = FALSE /\ t.found = 0
      BY <1>1, Names DEF States
    <2> HIDE DEF t
    <2>3. CodePromise(s, V, p, t.half, t.dot)
      BY <2>1, <2>2, CodeKeeps
    <2>4. V = b[p][FALSE]
      BY <2>2, <2>3 DEF CodePromise, b
    <2>5. ~joins(p)
      BY <1>1, <1>6 DEF continuationQuote, joins
    <2> QED
      BY <1>1, <1>3, <1>6, <2>4, <2>5
  <1>7. CASE q.half = quote /\ c # quote /\ q.in # "ident"
    <2> DEFINE t == [q EXCEPT !.in = "gap", !.half = "none", !.newline = FALSE]
    <2>1. r = inGap(t, c)
      BY <1>7, QuotedArms
    <2>2. /\ t \in States(A) /\ t.in = "gap" /\ t.half = "none" /\ t.dot = FALSE /\ t.found = 0
          /\ t.newline = FALSE /\ t.escapes = esc
      BY <1>1, Names DEF States
    <2> HIDE DEF t
    <2>3. GapPromise(s, V, p, t.half, t.newline, t.escapes)
      BY <2>1, <2>2, GapKeeps
    <2>4. quote = "'"
      BY <1>1, <1>7
    <2>5. joins(p) <=> gap(s)[p] <= N /\ s[gap(s)[p]] = "'"
                       /\ \E k \in p..(gap(s)[p] - 1) : s[k] \in newlines
      BY <2>4 DEF continuationQuote, joins
    <2>6. V = IF joins(p) THEN b[body[gap(s)[p] + 1]][FALSE] ELSE b[p][FALSE]
      BY <2>2, <2>3, <2>4, <2>5 DEF GapPromise, b, body
    <2> QED
      BY <1>1, <1>3, <1>7, <2>6
  <1>8. CASE q.half = "none" /\ (c = quote \/ (c = "\\" /\ esc))
    <2>1. r = [q EXCEPT !.half = c]
      BY <1>8, QuotedArms
    <2>2. r.in = q.in /\ r.escapes = esc /\ r.found = 0 /\ r.half = c
      BY <2>1 DEF States
    <2>3. CASE c = quote
      <3>1. V = IF p + 1 <= N /\ s[p + 1] = quote THEN b[body[p + 2]][FALSE]
                ELSE IF joins(p + 1) THEN b[body[gap(s)[p + 1] + 1]][FALSE]
                ELSE b[p + 1][FALSE]
        BY <1>4, <2>2, <2>3
      <3>2. startsWith(s, p, quote, quote) <=> p + 1 <= N /\ s[p + 1] = quote
        BY <1>0, <2>3 DEF startsWith
      <3>3. c # "\\"
        BY <1>1, <2>3
      <3>4. V = b[body[p]][FALSE]
        BY <1>2, <2>3, <3>1, <3>2, <3>3
      <3> QED
        BY <1>1, <1>3, <1>8, <3>4
    <2>4. CASE c = "\\" /\ esc
      <3>1. V = b[body[p + 2]][FALSE]
        BY <1>4, <2>2, <2>4
      <3>2. V = b[body[p]][FALSE]
        BY <1>2, <2>4, <3>1
      <3> QED
        BY <1>1, <1>3, <1>8, <3>2
    <2> QED
      BY <1>8, <2>3, <2>4
  <1>9. CASE q.half = "none" /\ c # quote /\ ~(c = "\\" /\ esc)
    <2>1. r = q
      BY <1>9, QuotedArms
    <2>2. V = b[body[p + 1]][FALSE]
      BY <1>4, <1>9, <2>1
    <2>3. V = b[body[p]][FALSE]
      BY <1>2, <1>9, <2>2
    <2> QED
      BY <1>1, <1>3, <1>9, <2>3
  <1> QED
    BY <1>1, <1>5, <1>6, <1>7, <1>8, <1>9

\* A stretch of the clause and the symbol after it.
LEMMA Longer ==
  ASSUME NEW A, NEW s \in Seq(A), NEW p \in 1..Len(s), NEW i \in 1..p
  PROVE  Append(SubSeq(s, i, p - 1), s[p]) = SubSeq(s, i, p)
  <1> DEFINE u == SubSeq(s, i, p - 1)
             w == SubSeq(s, i, p)
  <1>0. Len(s) \in Nat /\ p \in i..Len(s) /\ i \in 1..Len(s) /\ s[p] \in A /\ p - 1 \in Int
    OBVIOUS
  <1>1. w = u \o <<s[p]>>
    BY <1>0, SubSeqRecursiveSecond
  <1>2. u \in Seq(A)
    BY <1>0, SubSeqProperties
  <1> HIDE DEF u, w
  <1>3. Append(u, s[p]) = u \o <<s[p]>>
    BY <1>0, <1>2, AppendIsConcat
  <1> QED
    BY <1>1, <1>3 DEF u, w

\* A word ends where no word byte follows.
LEMMA WordEnds ==
  ASSUME NEW A, NEW s \in Seq(A), NEW p \in 1..(Len(s) + 1), NEW i \in 1..(p - 1), NEW text,
         WordFrom(s, i, p, text), p = Len(s) + 1 \/ s[p] \notin wordBytes
  PROVE  /\ endOfByteRun(s, i + 1, wordBytes) = p
         /\ i \in 1..Len(s) /\ p \in (i + 1)..(Len(s) + 1)
         /\ \A c : text = <<c>> <=> p = i + 1 /\ s[i] = c
  <1>0. Len(s) \in Nat /\ i \in 1..Len(s) /\ p \in (i + 1)..(Len(s) + 1) /\ i + 1 \in 1..(Len(s) + 1)
    OBVIOUS
  <1>1. EndsRun(s, i + 1, wordBytes, p)
    BY <1>0 DEF EndsRun, WordFrom
  <1>2. EndsRun(s, i + 1, wordBytes, endOfByteRun(s, i + 1, wordBytes))
    BY <1>0, RunEnd
  <1>3. endOfByteRun(s, i + 1, wordBytes) = p
    BY <1>0, <1>1, <1>2, RunEndsOnce
  <1>4. \A c : SubSeq(s, i, p - 1) = <<c>> <=> p = i + 1 /\ s[i] = c
    BY <1>0, WordOfOne
  <1> QED
    BY <1>0, <1>3, <1>4 DEF WordFrom

\* A word keeps the promise: it is the row variable, it opens an escape string, or
\* the scan goes on after it.
LEMMA WordKeeps ==
  ASSUME NEW A, NEW s \in Seq(A), NEW V, NEW p \in 1..Len(s), NEW q \in States(A), q.in = "word",
         q.half = "none", q.found = 0, q.at = p - 1,
         NEW r, r = inWord(q, s[p]), Promise(s, V, p + 1, r)
  PROVE  WordPromise(s, V, p, q.text, q.dot)
  <1> DEFINE N == Len(s)
             b == bareWord(s)
             c == s[p]
             dot == q.dot
  <1> SUFFICES ASSUME NEW i \in 1..(p - 1), WordFrom(s, i, p, q.text)
               PROVE  V = b[i][dot]
    BY DEF WordPromise
  <1>0. N \in Nat /\ p \in 1..(N + 1) /\ i \in 1..N /\ i \in 1..p /\ i \in 1..(p + 1 - 1) /\ p + 1 - 1 = p
        /\ c \in A /\ p <= N /\ p # N + 1
    OBVIOUS
  <1>1. dot \in BOOLEAN /\ s[i] \in wordStart
    BY DEF States, WordFrom
  <1>2. CASE c \in wordBytes
    <2> DEFINE x == Append(q.text, c)
    <2>1. r = [q EXCEPT !.text = x]
      BY <1>2, WordArms
    <2>2. x = SubSeq(s, i, p)
      BY <1>0, Longer DEF WordFrom
    <2> HIDE DEF x
    <2>3. r.in = "word" /\ r.text = x /\ r.dot = dot /\ r.found = 0
      BY <2>1 DEF States
    <2>4. WordPromise(s, V, p + 1, x, dot)
      BY <2>3 DEF Promise
    <2>5. \A k \in (i + 1)..p : s[k] \in wordBytes
      <3>1. \A k \in (i + 1)..(p - 1) : s[k] \in wordBytes
        BY DEF WordFrom
      <3>2. \A k \in (i + 1)..p : k \in (i + 1)..(p - 1) \/ k = p
        BY <1>0
      <3> QED
        BY <1>2, <3>1, <3>2
    <2>6. WordFrom(s, i, p + 1, x)
      BY <1>0, <1>1, <2>2, <2>5 DEF WordFrom
    <2> QED
      BY <1>0, <2>4, <2>6 DEF WordPromise
  <1>3. ASSUME c \notin wordBytes
        PROVE  /\ endOfByteRun(s, i + 1, wordBytes) = p
               /\ \A x : q.text = <<x>> <=> p = i + 1 /\ s[i] = x
    <2> DEFINE w == q.text
    <2>1. WordFrom(s, i, p, w) /\ s[p] \notin wordBytes
      BY <1>3
    <2> HIDE DEF w
    <2>a. p \in 1..(Len(s) + 1)
      BY <1>0
    <2>2. endOfByteRun(s, i + 1, wordBytes) = p
      BY <2>1, <2>a, WordEnds
    <2>3. \A x : w = <<x>> <=> p = i + 1 /\ s[i] = x
      BY <2>1, <2>a, WordEnds
    <2> QED
      BY <2>2, <2>3 DEF w
  <1> DEFINE e == endOfByteRun(s, i + 1, wordBytes)
  <1>4. b[i][dot] = IF e = i + 1 /\ e <= N /\ s[i] = "E" /\ s[e] = "'"
                    THEN b[quoted(s, "'", TRUE)[e + 1]][FALSE]
                    ELSE IF e = i + 1 /\ s[i] = "OLD" /\ ~dot THEN i
                    ELSE b[e][FALSE]
    <2>1. e = endOfByteRun(s, i + 1, wordBytes)
      OBVIOUS
    <2> HIDE DEF e, dot
    <2>2. bareWord(s)[i][dot] = AfterWord(s, i, e, dot)
      BY <1>0, <1>1, <2>1, BareWordCase
    <2> QED
      BY <2>2 DEF AfterWord
  <1> HIDE DEF b, e
  <1>5. CASE c = "'" /\ q.text = <<"E">>
    <2>0. c \notin wordBytes
      BY <1>5 DEF wordBytes, tagBytes, wordStart
    <2>1. r = [q EXCEPT !.in = "string", !.escapes = TRUE, !.dot = FALSE]
      BY <1>5, WordArms
    <2>2. r.in = "string" /\ r.half = "none" /\ r.escapes = TRUE /\ r.found = 0
      BY <2>1 DEF States
    <2>3. V = b[quoted(s, "'", TRUE)[p + 1]][FALSE]
      BY <2>2 DEF Promise, QuotedPromise, b
    <2>4. e = p
      BY <1>3, <2>0 DEF e
    <2>5. p = i + 1 /\ s[i] = "E"
      BY <1>3, <1>5, <2>0
    <2> QED
      BY <1>0, <1>4, <1>5, <2>3, <2>4, <2>5
  <1>6. CASE c \notin wordBytes /\ ~(c = "'" /\ q.text = <<"E">>)
    <2> DEFINE t == endWord(q)
    <2>1. r = inCode(t, c)
      BY <1>6, WordArms
    <2>a. t = endWord(q)
      OBVIOUS
    <2> HIDE DEF t
    <2>2. /\ t \in States(A) /\ t.in = "code" /\ t.half = "none" /\ t.dot = FALSE
          /\ t.found = IF IsBare(q) THEN q.at ELSE q.found
      BY <2>a, EndWordState
    <2>3. r.found = t.found
      BY <1>0, <2>1, <2>2, CodeState
    <2>4. e = p
      BY <1>3, <1>6 DEF e
    <2>5. (q.text = <<"OLD">> <=> p = i + 1 /\ s[i] = "OLD") /\ (q.text = <<"E">> <=> p = i + 1 /\ s[i] = "E")
      BY <1>3, <1>6
    <2>6. IsBare(q) <=> p = i + 1 /\ s[i] = "OLD" /\ ~dot
      BY <2>5 DEF IsBare
    <2>7. b[i][dot] = IF IsBare(q) THEN i ELSE b[p][FALSE]
      BY <1>4, <1>6, <2>4, <2>5, <2>6
    <2>8. CASE IsBare(q)
      <3>1. r.found = p - 1 /\ p = i + 1
        BY <2>2, <2>3, <2>6, <2>8
      <3>2. r.found = i /\ i # 0
        BY <1>0, <3>1
      <3>3. V = i
        BY <3>2 DEF Promise
      <3> QED
        BY <2>7, <2>8, <3>3
    <2>9. CASE ~IsBare(q)
      <3>1. t.found = 0
        BY <2>2, <2>9
      <3>2. CodePromise(s, V, p, t.half, t.dot)
        BY <2>1, <2>2, <3>1, CodeKeeps
      <3>3. V = b[p][FALSE]
        BY <2>2, <3>2 DEF CodePromise, b
      <3> QED
        BY <2>7, <2>9, <3>3
    <2> QED
      BY <2>8, <2>9
  <1> QED
    BY <1>2, <1>5, <1>6

\* A delimiter of length n at i ends where the run of tag bytes does, at e.
Delimits(s, i, n, e) ==
    /\ e \in (i + 1)..(Len(s) + 1)
    /\ n = IF e <= Len(s) /\ s[e] = "$" /\ (e = i + 1 \/ s[i + 1] \in wordStart) THEN e - i + 1 ELSE 0
    /\ n \in Nat

\* The delimiter, and what follows a dollar sign that opens nothing.
LEMMA DelimiterDef ==
  ASSUME NEW A, NEW s \in Seq(A), NEW i \in 1..Len(s)
  PROVE  /\ Delimits(s, i, dollarQuoteDelimiter(s, i), endOfByteRun(s, i + 1, tagBytes))
         /\ dollarQuoteDelimiter(s, i) = 0 => endOfDollarQuoted(s, i) = i + 1
  <1> DEFINE n == dollarQuoteDelimiter(s, i)
             e == endOfByteRun(s, i + 1, tagBytes)
  <1>0. Len(s) \in Nat /\ i + 1 \in 1..(Len(s) + 1)
    OBVIOUS
  <1>1. EndsRun(s, i + 1, tagBytes, e)
    BY <1>0, RunEnd
  <1>2. n = IF e <= Len(s) /\ s[e] = "$" /\ (e = i + 1 \/ s[i + 1] \in wordStart) THEN e - i + 1 ELSE 0
    BY DEF dollarQuoteDelimiter
  <1>3. n = 0 => endOfDollarQuoted(s, i) = i + 1
    BY DEF endOfDollarQuoted
  <1> HIDE DEF n, e
  <1>4. e \in (i + 1)..(Len(s) + 1)
    BY <1>1 DEF EndsRun
  <1>5. n \in Nat
    BY <1>0, <1>2, <1>4
  <1>6. Delimits(s, i, n, e)
    BY <1>2, <1>4, <1>5 DEF Delimits
  <1> QED
    BY <1>3, <1>6 DEF n, e

\* A tag ends where no tag byte follows.
LEMMA TagEnds ==
  ASSUME NEW A, NEW s \in Seq(A), NEW p \in 1..(Len(s) + 1), NEW i \in 1..(p - 1), NEW text,
         TagFrom(s, i, p, text)
  PROVE  /\ p = Len(s) + 1 \/ s[p] \notin tagBytes => endOfByteRun(s, i + 1, tagBytes) = p
         /\ text = <<>> <=> p = i + 1
  <1>0. /\ Len(s) \in Nat /\ i \in 1..Len(s) /\ p \in (i + 1)..(Len(s) + 1) /\ i + 1 \in 1..(Len(s) + 1)
        /\ i + 1 \in Int /\ p - 1 \in Int
    OBVIOUS
  <1>1. ASSUME p = Len(s) + 1 \/ s[p] \notin tagBytes PROVE endOfByteRun(s, i + 1, tagBytes) = p
    <2>1. EndsRun(s, i + 1, tagBytes, p)
      BY <1>0, <1>1 DEF EndsRun, TagFrom
    <2>2. EndsRun(s, i + 1, tagBytes, endOfByteRun(s, i + 1, tagBytes))
      BY <1>0, RunEnd
    <2> QED
      BY <1>0, <2>1, <2>2, RunEndsOnce
  <1>2. text = SubSeq(s, i + 1, p - 1)
    BY DEF TagFrom
  <1>3. ASSUME p = i + 1 PROVE text = <<>>
    <2>1. p - 1 < i + 1
      BY <1>0, <1>3
    <2> QED
      BY <1>0, <1>2, <2>1, SubSeqEmpty
  <1>4. ASSUME p # i + 1 PROVE text # <<>>
    <2>1. i + 1 <= p - 1 /\ \A k \in (i + 1)..(p - 1) : s[k] \in A
      BY <1>0, <1>4
    <2>2. Len(text) = (p - 1) - (i + 1) + 1
      BY <1>0, <1>2, <2>1, SubSeqProperties
    <2>3. Len(text) > 0
      BY <1>0, <2>1, <2>2
    <2>4. Len(<<>>) = 0
      OBVIOUS
    <2> QED
      BY <2>3, <2>4
  <1> QED
    BY <1>1, <1>3, <1>4

\* A tag keeps the promise: it opens a dollar quote, or the scan goes on after the
\* dollar sign.
LEMMA TagKeeps ==
  ASSUME NEW A, NEW s \in Seq(A), NEW V, NEW p \in 1..Len(s), NEW q \in States(A), q.in = "tag",
         q.half = "none", q.dot = FALSE, q.found = 0, q.at = p - 1,
         NEW r, r = inTag(q, s[p]), Promise(s, V, p + 1, r)
  PROVE  TagPromise(s, V, p, q.text)
  <1> DEFINE N == Len(s)
             b == bareWord(s)
             c == s[p]
             w == q.text
  <1> SUFFICES ASSUME NEW i \in 1..(p - 1), TagFrom(s, i, p, w)
               PROVE  V = b[endOfDollarQuoted(s, i)][FALSE]
    BY DEF TagPromise
  <1> DEFINE n == dollarQuoteDelimiter(s, i)
             e == endOfByteRun(s, i + 1, tagBytes)
             end == endOfDollarQuoted(s, i)
  <1>0. /\ N \in Nat /\ p \in 1..(N + 1) /\ i \in 1..N /\ i + 1 \in 1..p /\ i \in 1..(p + 1 - 1)
        /\ p + 1 - 1 = p /\ c \in A /\ p <= N /\ i \in Int /\ p \in Int
    OBVIOUS
  <1>1. n = dollarQuoteDelimiter(s, i) /\ e = endOfByteRun(s, i + 1, tagBytes) /\ end = endOfDollarQuoted(s, i)
    OBVIOUS
  <1> HIDE DEF n, e, end, w, b
  <1>2. /\ e \in (i + 1)..(N + 1)
        /\ n = IF e <= N /\ s[e] = "$" /\ (e = i + 1 \/ s[i + 1] \in wordStart) THEN e - i + 1 ELSE 0
        /\ n \in Nat
        /\ n = 0 => end = i + 1
    <2>1. Delimits(s, i, n, e)
      BY <1>0, DelimiterDef DEF n, e
    <2>2. n = 0 => end = i + 1
      BY <1>0, DelimiterDef DEF n, end
    <2> QED
      BY <2>1, <2>2 DEF Delimits
  <1>3. c \notin tagBytes => e = p
    BY <1>0, <1>1, TagEnds
  <1>4. w = <<>> <=> p = i + 1
    BY <1>0, TagEnds
  <1>5. CASE c = "$"
    <2> DEFINE x == <<>>
               t == p + 1
    <2>0. c \notin tagBytes
      BY <1>5 DEF tagBytes, wordStart
    <2>1. r = [q EXCEPT !.in = "dollar", !.body = x]
      BY <1>5, TagArms
    <2>2. i + 1 < p => s[i + 1] \in wordStart
      BY DEF TagFrom
    <2>3. e = p /\ n = p - i + 1
      BY <1>0, <1>2, <1>3, <1>5, <2>0, <2>2
    <2>4. /\ n # 0 /\ i + n = t /\ t - 1 = p /\ i + n - 2 = p - 1 /\ i \in 1..(t - 1)
          /\ t \in Int /\ p < t /\ \A k \in (i + n)..(t - n) : FALSE
      BY <1>0, <2>3
    <2>5. x = SubSeq(s, t, p)
      BY <1>0, <2>4, SubSeqEmpty
    <2>6. DollarPromise(s, V, t, w, x)
      <3> HIDE DEF x, t
      <3>1. r.in = "dollar" /\ r.text = w /\ r.body = x /\ r.found = 0
        BY <2>1 DEF States, w
      <3> QED
        BY <3>1 DEF Promise, t
    <2> HIDE DEF x, t
    <2>7. BodyFrom(s, i, n, t, w, x)
      BY <1>1, <2>4, <2>5 DEF BodyFrom, TagFrom
    <2> QED
      BY <1>1, <1>2, <2>4, <2>6, <2>7 DEF DollarPromise, b
  <1>6. CASE c \in tagBytes /\ (w # <<>> \/ c \in wordStart)
    <2> DEFINE x == Append(w, c)
               t == p + 1
    <2>1. r = [q EXCEPT !.text = x]
      BY <1>6, TagArms DEF w
    <2>2. x = SubSeq(s, i + 1, p)
      BY <1>0, Longer DEF TagFrom
    <2> HIDE DEF x
    <2>3. r.in = "tag" /\ r.text = x /\ r.found = 0
      BY <2>1 DEF States
    <2>4. TagPromise(s, V, t, x)
      BY <2>3 DEF Promise
    <2>5. \A k \in (i + 1)..p : s[k] \in tagBytes
      <3>1. \A k \in (i + 1)..(p - 1) : s[k] \in tagBytes
        BY DEF TagFrom
      <3>2. \A k \in (i + 1)..p : k \in (i + 1)..(p - 1) \/ k = p
        BY <1>0
      <3> QED
        BY <1>6, <3>1, <3>2
    <2>6. s[i + 1] \in wordStart
      <3>1. CASE p = i + 1
        BY <1>4, <1>6, <3>1
      <3>2. CASE p # i + 1
        <4>1. i + 1 < p
          BY <1>0, <3>2
        <4> QED
          BY <4>1 DEF TagFrom
      <3> QED
        BY <3>1, <3>2
    <2>7. t - 1 = p /\ i \in 1..(t - 1)
      BY <1>0
    <2> HIDE DEF t
    <2>8. TagFrom(s, i, t, x)
      BY <2>2, <2>5, <2>6, <2>7 DEF TagFrom
    <2> QED
      BY <1>1, <2>4, <2>7, <2>8 DEF TagPromise, b
  <1>7. CASE c # "$" /\ w = <<>> /\ c \notin wordStart
    <2> DEFINE t == [q EXCEPT !.in = "code"]
    <2>1. r = inCode(t, c)
      BY <1>7, TagArms DEF w
    <2>2. t \in States(A) /\ t.in = "code" /\ t.half = "none" /\ t.dot = FALSE /\ t.found = 0
      BY Names DEF States
    <2> HIDE DEF t
    <2>3. CodePromise(s, V, p, t.half, t.dot)
      BY <2>1, <2>2, CodeKeeps
    <2>4. V = b[p][FALSE]
      BY <2>2, <2>3 DEF CodePromise, b
    <2>5. p = i + 1
      BY <1>4, <1>7
    <2>6. n = 0
      BY <1>2, <1>7, <2>5
    <2> QED
      BY <1>1, <1>2, <2>4, <2>5, <2>6
  <1>8. CASE c # "$" /\ w # <<>> /\ c \notin tagBytes
    <2> DEFINE t == [q EXCEPT !.in = "word"]
    <2>1. r = inWord(t, c)
      BY <1>8, TagArms DEF w
    <2>2. /\ t \in States(A) /\ t.in = "word" /\ t.half = "none" /\ t.dot = FALSE /\ t.found = 0
          /\ t.at = p - 1 /\ t.text = w
      BY Names DEF States, w
    <2> HIDE DEF t
    <2>3. WordPromise(s, V, p, w, FALSE)
      <3>1. WordPromise(s, V, p, t.text, t.dot)
        BY <2>1, <2>2, WordKeeps
      <3> QED
        BY <2>2, <3>1
    <2>4. i + 1 < p /\ i + 1 \in 1..(p - 1)
      BY <1>0, <1>4, <1>8
    <2>5. n = 0
      BY <1>2, <1>3, <1>8
    <2>6. WordFrom(s, i + 1, p, w)
      <3>1. \A k \in (i + 1 + 1)..(p - 1) : k \in (i + 1)..(p - 1)
        BY <1>0
      <3>2. \A x : x \in tagBytes => x \in wordBytes
        BY DEF wordBytes
      <3> QED
        BY <2>4, <3>1, <3>2 DEF WordFrom, TagFrom
    <2>7. V = b[i + 1][FALSE]
      BY <2>3, <2>4, <2>6 DEF WordPromise, b
    <2> QED
      BY <1>1, <1>2, <2>5, <2>7
  <1>9. c \in wordStart => c \in tagBytes
    BY DEF tagBytes
  <1> QED
    BY <1>5, <1>6, <1>7, <1>8, <1>9

\* The delimiter at i is the n symbols from i on: a tag between dollar signs.
Spelled(s, i, n) ==
    /\ n \in Nat /\ n >= 2 /\ i + n - 1 <= Len(s)
    /\ <<"$">> \o SubSeq(s, i + 1, i + n - 2) \o <<"$">> = SubSeq(s, i, i + n - 1)
    /\ Len(SubSeq(s, i, i + n - 1)) = n

\* The delimiter at i, spelled out.
LEMMA DelimiterText ==
  ASSUME NEW A, NEW s \in Seq(A), NEW i \in 1..Len(s), s[i] = "$",
         NEW n, n = dollarQuoteDelimiter(s, i), n # 0
  PROVE  Spelled(s, i, n)
  <1> DEFINE e == endOfByteRun(s, i + 1, tagBytes)
             d == s[i]
             text == SubSeq(s, i + 1, e - 1)
  <1>1. Delimits(s, i, n, e)
    BY DelimiterDef
  <1> HIDE DEF e
  <1>2. e \in (i + 1)..Len(s) /\ s[e] = d /\ n = e - i + 1
    <2>1. Len(s) \in Nat
      OBVIOUS
    <2> QED
      BY <1>1, <2>1 DEF Delimits
  <1>3. /\ Len(s) \in Nat /\ i + 1 \in 1..Len(s) /\ e \in i..Len(s) /\ e \in (i + 1)..Len(s) /\ e \in 1..Len(s)
        /\ i + n - 1 = e /\ i + n - 2 = e - 1 /\ n \in Nat /\ n >= 2 /\ i + n - 1 <= Len(s)
        /\ i \in Int /\ e \in Int /\ e - 1 \in Int /\ i + 1 \in Int /\ i <= e
    BY <1>2
  <1>4. d \in A /\ <<d>> \in Seq(A) /\ \A k \in 1..Len(s) : s[k] \in A
    OBVIOUS
  <1>5. SubSeq(s, i, e) = <<d>> \o SubSeq(s, i + 1, e)
    BY <1>3, SubSeqRecursiveFirst
  <1>6. SubSeq(s, i + 1, e) = text \o <<d>>
    <2>1. SubSeq(s, i + 1, e) = SubSeq(s, i + 1, e - 1) \o <<s[e]>>
      BY <1>3, SubSeqRecursiveSecond
    <2> QED
      BY <1>2, <2>1
  <1>7. text \in Seq(A)
    <2>1. \A k \in (i + 1)..(e - 1) : s[k] \in A
      BY <1>3, <1>4
    <2> QED
      BY <1>3, <2>1, SubSeqProperties
  <1>8. Len(SubSeq(s, i, e)) = e - i + 1
    <2>1. \A k \in i..e : s[k] \in A
      BY <1>3, <1>4
    <2> QED
      BY <1>3, <2>1, SubSeqProperties
  <1> HIDE DEF text, d
  <1>9. (<<d>> \o text) \o <<d>> = <<d>> \o (text \o <<d>>)
    BY <1>4, <1>7, ConcatAssociative
  <1>10. (<<d>> \o text) \o <<d>> = SubSeq(s, i, e)
    BY <1>5, <1>6, <1>9
  <1>11. /\ n \in Nat /\ n >= 2 /\ i + n - 1 <= Len(s)
         /\ <<"$">> \o SubSeq(s, i + 1, i + n - 2) \o <<"$">> = SubSeq(s, i, i + n - 1)
         /\ Len(SubSeq(s, i, i + n - 1)) = n
    BY <1>2, <1>3, <1>8, <1>10 DEF text, d
  <1> QED
    BY <1>11 DEF Spelled

\* The quote that a delimiter of length n opens at i ends at end.
QuoteEnds(s, i, n, end) ==
    \/ end = Len(s) + 1 /\ \A k \in (i + n)..(Len(s) - n + 1) : ~Closes(s, i, k)
    \/ \E k \in (i + n)..(Len(s) - n + 1) :
          /\ end = k + n /\ Closes(s, i, k)
          /\ \A m \in (i + n)..(k - 1) : ~Closes(s, i, m)

\* It ends at the nearest closing delimiter, or with the clause.
LEMMA DollarEnds ==
  ASSUME NEW A, NEW s \in Seq(A), NEW i \in 1..Len(s), dollarQuoteDelimiter(s, i) # 0
  PROVE  QuoteEnds(s, i, dollarQuoteDelimiter(s, i), endOfDollarQuoted(s, i))
  <1> DEFINE n == dollarQuoteDelimiter(s, i)
             e == endOfByteRun(s, i + 1, tagBytes)
             end == endOfDollarQuoted(s, i)
  <1>1. n = dollarQuoteDelimiter(s, i) /\ e = endOfByteRun(s, i + 1, tagBytes)
        /\ end = endOfDollarQuoted(s, i) /\ n # 0
    OBVIOUS
  <1> HIDE DEF n, e, end
  <1>2. \/ end = Len(s) + 1 /\ \A k \in (i + n)..(Len(s) - n + 1) : ~Closes(s, i, k)
        \/ \E k \in (i + n)..(Len(s) - n + 1) :
              /\ end = k + n /\ Closes(s, i, k)
              /\ \A m \in (i + n)..(k - 1) : ~Closes(s, i, m)
    BY <1>1, DollarDef
  <1>3. QuoteEnds(s, i, n, end)
    BY <1>2 DEF QuoteEnds
  <1> QED
    BY <1>3 DEF n, end

\* The last n symbols of the stretch from j to p.
LEMMA LastOfStretch ==
  ASSUME NEW A, NEW s \in Seq(A), NEW p \in 1..Len(s), NEW j \in 1..p, NEW n \in Nat \ {0}
  PROVE  /\ Len(SubSeq(s, j, p)) = p - j + 1
         /\ p - j + 1 - n + 1 > 0 <=> p - n + 1 >= j
         /\ p - n + 1 >= j =>
              SubSeq(SubSeq(s, j, p), p - j + 1 - n + 1, p - j + 1) = SubSeq(s, p - n + 1, p)
  <1> DEFINE from == p - j + 1 - n + 1
             last == p - j + 1
             k == p - n + 1
  <1>0. Len(s) \in Nat /\ p \in Int /\ j \in Int /\ j \in 1..Len(s) /\ j <= p
    OBVIOUS
  <1>1. Len(SubSeq(s, j, p)) = p - j + 1
    <2>1. \A m \in j..p : s[m] \in A
      BY <1>0
    <2> QED
      BY <1>0, <2>1, SubSeqProperties
  <1>2. from > 0 <=> k >= j
    BY <1>0
  <1>3. ASSUME k >= j PROVE SubSeq(SubSeq(s, j, p), from, last) = SubSeq(s, k, p)
    <2>1. /\ from \in 1..(p - j + 1) /\ last \in 1..(p - j + 1)
          /\ j + from - 1 = k /\ j + last - 1 = p
      BY <1>0, <1>3
    <2> HIDE DEF from, last, k
    <2>2. SubSeq(SubSeq(s, j, p), from, last) = SubSeq(s, j + from - 1, j + last - 1)
      BY <1>0, <2>1, SubSeqOfSubSeq
    <2> QED
      BY <2>1, <2>2
  <1> QED
    BY <1>1, <1>2, <1>3


\* A dollar quote keeps the promise: it ends with the first delimiter that begins
\* after the opening one.
LEMMA DollarKeeps ==
  ASSUME NEW A, NEW s \in Seq(A), NEW V, NEW p \in 1..Len(s), NEW q \in States(A), q.in = "dollar",
         q.half = "none", q.dot = FALSE, q.found = 0,
         NEW r, r = inDollar(q, s[p]), Promise(s, V, p + 1, r)
  PROVE  DollarPromise(s, V, p, q.text, q.body)
  <1> DEFINE N == Len(s)
             b == bareWord(s)
             w == q.text
             x == Append(q.body, s[p])
             close == <<"$">> \o w \o <<"$">>
  <1> SUFFICES ASSUME NEW i \in 1..(p - 1), NEW n \in Nat, BodyFrom(s, i, n, p, w, q.body)
               PROVE  V = b[endOfDollarQuoted(s, i)][FALSE]
    BY DEF DollarPromise
  <1> DEFINE j == i + n
             k == p - n + 1
             t == p + 1
             end == endOfDollarQuoted(s, i)
  <1>0. /\ s[i] = "$" /\ n = dollarQuoteDelimiter(s, i) /\ n # 0 /\ j <= p
        /\ w = SubSeq(s, i + 1, i + n - 2) /\ q.body = SubSeq(s, j, p - 1)
        /\ \A m \in j..(p - n) : ~Closes(s, i, m)
    BY DEF BodyFrom
  <1>a. n # 0 /\ j <= p /\ i \in 1..(p - 1) /\ p \in 1..N /\ N \in Nat /\ n \in Nat
    BY <1>0
  <1>b. s[i] = "$" /\ n = dollarQuoteDelimiter(s, i)
    BY <1>0
  <1>c. w = SubSeq(s, i + 1, i + n - 2)
    BY <1>0
  <1>d. q.body = SubSeq(s, j, p - 1)
    BY <1>0
  <1>1. /\ N \in Nat /\ i \in 1..N /\ p \in Int /\ i \in Int /\ n \in Nat \ {0} /\ j \in 1..p /\ j \in Int
        /\ t - 1 = p /\ i \in 1..(t - 1) /\ j <= t /\ k \in Int /\ k + n = t /\ k + n - 1 = p
    BY <1>a
  <1>2. close = SubSeq(s, i, i + n - 1) /\ Len(SubSeq(s, i, i + n - 1)) = n
    <2> HIDE DEF w
    <2>1. Spelled(s, i, n)
      <3>1. n # 0 /\ i \in 1..Len(s)
        BY <1>1
      <3> QED
        BY <1>b, <3>1, DelimiterText
    <2> QED
      BY <1>c, <2>1 DEF Spelled
  <1>3. x = SubSeq(s, j, p)
    <2> HIDE DEF j
    <2>1. Append(SubSeq(s, j, p - 1), s[p]) = SubSeq(s, j, p)
      BY <1>1, Longer
    <2> QED
      BY <1>d, <2>1
  <1> DEFINE from == Len(x) - Len(close) + 1
             closed == from > 0 /\ SubSeq(x, from, Len(x)) = close
  <1>4. r = IF closed THEN [q EXCEPT !.in = "code"] ELSE [q EXCEPT !.body = x]
    BY DEF inDollar
  <1>5. closed <=> k >= j /\ Closes(s, i, k)
    <2> DEFINE z == SubSeq(s, j, p)
               l == p - j + 1
    <2>1. Len(z) = l
      BY <1>1, LastOfStretch
    <2>2. l - n + 1 > 0 <=> k >= j
      BY <1>1
    <2>3. k >= j => SubSeq(z, l - n + 1, l) = SubSeq(s, k, p)
      <3>1. p - n + 1 >= j => SubSeq(SubSeq(s, j, p), p - j + 1 - n + 1, p - j + 1) = SubSeq(s, p - n + 1, p)
        BY <1>1, LastOfStretch
      <3> QED
        BY <3>1
    <2>4. Closes(s, i, k) <=> SubSeq(s, k, p) = SubSeq(s, i, i + n - 1)
      <3> HIDE DEF k
      <3> QED
        BY <1>0, <1>1 DEF Closes
    <2>5. Len(close) = n
      BY <1>2
    <2>6. x = z
      BY <1>3
    <2> HIDE DEF x, z, close, l, k
    <2>7. from = l - n + 1
      BY <2>1, <2>5, <2>6
    <2> HIDE DEF from
    <2>8. closed <=> l - n + 1 > 0 /\ SubSeq(z, l - n + 1, l) = close
      BY <2>1, <2>6, <2>7
    <2> QED
      BY <1>2, <2>2, <2>3, <2>4, <2>8
  <1> HIDE DEF closed, x, close, w, b
  <1>6. CASE closed
    <2>1. r = [q EXCEPT !.in = "code"]
      BY <1>4, <1>6
    <2>2. r.in = "code" /\ r.half = "none" /\ r.dot = FALSE /\ r.found = 0
      BY <2>1 DEF States
    <2>3. V = b[t][FALSE]
      BY <2>2 DEF Promise, CodePromise, b
    <2>4. k >= j /\ Closes(s, i, k) /\ k \in j..(N - n + 1)
      <3>1. k >= j /\ Closes(s, i, k)
        BY <1>5, <1>6
      <3>2. k <= N - n + 1
        BY <1>1
      <3> QED
        BY <1>1, <3>1, <3>2
    <2>5. \/ end = N + 1 /\ \A m \in j..(N - n + 1) : ~Closes(s, i, m)
          \/ \E m \in j..(N - n + 1) :
                /\ end = m + n /\ Closes(s, i, m)
                /\ \A o \in j..(m - 1) : ~Closes(s, i, o)
      <3>1. n # 0 /\ i \in 1..Len(s)
        BY <1>1
      <3>2. QuoteEnds(s, i, n, end)
        BY <1>b, <3>1, DollarEnds
      <3> HIDE DEF end
      <3> QED
        BY <3>2 DEF QuoteEnds
    <2>6. PICK m \in j..(N - n + 1) : /\ end = m + n /\ Closes(s, i, m)
                                      /\ \A o \in j..(m - 1) : ~Closes(s, i, o)
      BY <2>4, <2>5
    <2>7. m = k
      <3>1. ~(m < k)
        <4>1. m < k => m \in j..(p - n)
          BY <1>1
        <4> QED
          BY <1>0, <2>6, <4>1
      <3>2. ~(k < m)
        <4>1. k < m => k \in j..(m - 1)
          BY <1>1, <2>4
        <4> QED
          BY <2>4, <2>6, <4>1
      <3> QED
        BY <1>1, <3>1, <3>2
    <2>8. end = t
      BY <1>1, <2>6, <2>7
    <2> QED
      BY <2>3, <2>8
  <1>7. CASE ~closed
    <2>1. r = [q EXCEPT !.body = x]
      BY <1>4, <1>7
    <2>2. r.in = "dollar" /\ r.text = w /\ r.body = x /\ r.found = 0
      BY <2>1 DEF States, w
    <2>3. DollarPromise(s, V, t, w, x)
      BY <2>2 DEF Promise
    <2>4. \A m \in j..(t - n) : ~Closes(s, i, m)
      <3>1. \A m \in j..(t - n) : m \in j..(p - n) \/ (m = k /\ k >= j)
        BY <1>1
      <3>2. ~(k >= j /\ Closes(s, i, k))
        BY <1>5, <1>7
      <3> QED
        BY <1>0, <3>1, <3>2
    <2> HIDE DEF t
    <2>5. BodyFrom(s, i, n, t, w, x)
      BY <1>0, <1>1, <1>3, <2>4 DEF BodyFrom
    <2> QED
      BY <1>1, <2>3, <2>5 DEF DollarPromise, b
  <1> QED
    BY <1>6, <1>7

\* The end of the clause ends a word.
LEMMA WordAtEnd ==
  ASSUME NEW A, NEW s \in Seq(A), NEW q \in States(A), q.found = 0, q.at = Len(s),
         NEW i \in 1..Len(s), WordFrom(s, i, Len(s) + 1, q.text)
  PROVE  endWord(q).found = bareWord(s)[i][q.dot]
  <1> DEFINE N == Len(s)
             p == N + 1
             b == bareWord(s)
             dot == q.dot
             w == q.text
             e == endOfByteRun(s, i + 1, wordBytes)
             t == endWord(q)
  <1>0. N \in Nat /\ p \in 1..(N + 1) /\ i \in 1..(p - 1) /\ p = N + 1 /\ ~(p <= N)
    OBVIOUS
  <1>1. dot \in BOOLEAN /\ s[i] \in wordStart /\ WordFrom(s, i, p, w)
    BY DEF States, WordFrom
  <1>a. e = endOfByteRun(s, i + 1, wordBytes) /\ t = endWord(q)
    OBVIOUS
  <1> HIDE DEF p, w, dot, t
  <1>2. e = p
    BY <1>0, <1>1, WordEnds
  <1>3. \A c : w = <<c>> <=> p = i + 1 /\ s[i] = c
    BY <1>0, <1>1, WordEnds
  <1> HIDE DEF e
  <1>4. b[i][dot] = AfterWord(s, i, e, dot)
    BY <1>1, <1>a, BareWordCase
  <1>5. b[p][FALSE] = 0
    BY BareEnd DEF p
  <1>6. b[i][dot] = IF p = i + 1 /\ s[i] = "OLD" /\ ~dot THEN i ELSE 0
    BY <1>0, <1>2, <1>4, <1>5 DEF AfterWord
  <1>7. t.found = IF IsBare(q) THEN q.at ELSE q.found
    BY <1>a, EndWordState
  <1>8. IsBare(q) <=> p = i + 1 /\ s[i] = "OLD" /\ ~dot
    BY <1>3 DEF IsBare, w, dot
  <1>9. p = i + 1 => i = N
    BY <1>0
  <1> HIDE DEF N
  <1>10. q.at = N
    BY DEF N
  <1> QED
    BY <1>6, <1>7, <1>8, <1>9, <1>10 DEF b, dot, t

\* Past the end of the clause nothing more is found in any comment, literal or gap.
LEMMA PastEnd ==
  ASSUME NEW A, NEW s \in Seq(A), NEW p, p = Len(s) + 1
  PROVE  /\ \A dot \in BOOLEAN : bareWord(s)[p][dot] = 0
         /\ endOfLineComment(s, p) = p /\ gap(s)[p] = p
         /\ \A d \in Int : blockComment(s)[p][d] = p
         /\ \A quote, esc : quoted(s, quote, esc)[p] = p /\ quoted(s, quote, esc)[p + 1] = p
  <1>0. Len(s) \in Nat /\ p \in 1..(Len(s) + 1) /\ p > Len(s) /\ p \in 1..(Len(s) + 2)
        /\ p + 1 \in 1..(Len(s) + 2) /\ p + 1 > Len(s)
    OBVIOUS
  <1>1. \A dot \in BOOLEAN : bareWord(s)[p][dot] = 0
    BY BareEnd
  <1>2. endOfLineComment(s, p) = p /\ gap(s)[p] = p
    BY <1>0, LineStep, GapStep
  <1>3. \A d \in Int : blockComment(s)[p][d] = p
    BY <1>0, BlockDef
  <1>4. \A quote, esc : quoted(s, quote, esc)[p] = p
    BY <1>0, QuotedDef
  <1>5. \A quote, esc : quoted(s, quote, esc)[p + 1] = p
    <2> DEFINE k == p + 1
    <2>1. k \in 1..(Len(s) + 2) /\ k > Len(s)
      BY <1>0
    <2> HIDE DEF k
    <2>2. \A quote, esc : quoted(s, quote, esc)[k] = p
      BY <2>1, QuotedDef
    <2> QED
      BY <2>2 DEF k
  <1> QED
    BY <1>1, <1>2, <1>3, <1>4, <1>5

\* At the end of the clause the lexer has found what its state promises.
LEMMA EndKeeps ==
  ASSUME NEW A, NEW s \in Seq(A), NEW q \in States(A), Shape(q), q.at = Len(s)
  PROVE  Promise(s, AtEnd(q).found, Len(s) + 1, q)
  <1> DEFINE N == Len(s)
             p == N + 1
             b == bareWord(s)
             V == AtEnd(q).found
  <1>0. N \in Nat /\ p \in 1..(N + 1) /\ ~(p <= N) /\ p - 1 = N /\ p = Len(s) + 1 /\ p > N
    OBVIOUS
  <1>1. /\ q.in \in Modes /\ q.half \in Halves /\ q.dot \in BOOLEAN /\ q.depth \in Int
        /\ q.newline \in BOOLEAN /\ q.found \in Nat
    BY DEF States
  <1>2. V = IF q.in = "word" \/ (q.in = "tag" /\ q.text # <<>>) THEN endWord(q).found ELSE q.found
    BY DEF AtEnd
  <1> HIDE DEF V, p
  <1>3. /\ \A dot \in BOOLEAN : bareWord(s)[p][dot] = 0
        /\ endOfLineComment(s, p) = p /\ gap(s)[p] = p
        /\ \A d \in Int : blockComment(s)[p][d] = p
        /\ \A quote, esc : quoted(s, quote, esc)[p] = p /\ quoted(s, quote, esc)[p + 1] = p
    BY <1>0, PastEnd
  <1>4. CASE q.found # 0
    <2> DEFINE t == endWord(q)
    <2>a. t = endWord(q)
      OBVIOUS
    <2> HIDE DEF t
    <2>1. t.found = IF IsBare(q) THEN q.at ELSE q.found
      BY <2>a, EndWordState
    <2>2. t.found = q.found
      BY <1>4, <2>1 DEF IsBare
    <2>3. V = q.found
      BY <1>2, <2>2 DEF t
    <2> QED
      BY <1>4, <2>3 DEF Promise, V, p
  <1>5. ASSUME q.found = 0 PROVE Promise(s, V, p, q)
    <2>1. CASE q.in = "word"
      <3>1. WordPromise(s, V, p, q.text, q.dot)
        <4> SUFFICES ASSUME NEW i \in 1..N, WordFrom(s, i, p, q.text) PROVE V = b[i][q.dot]
          BY <1>0 DEF WordPromise
        <4>1. endWord(q).found = b[i][q.dot]
          BY <1>0, <1>5, WordAtEnd
        <4> QED
          BY <1>2, <2>1, <4>1
      <3> QED
        BY <1>5, <2>1, <3>1 DEF Promise
    <2>2. CASE q.in = "tag"
      <3>0. q.dot = FALSE
        BY <2>2 DEF Shape
      <3>1. TagPromise(s, V, p, q.text)
        <4> SUFFICES ASSUME NEW i \in 1..N, TagFrom(s, i, p, q.text)
                     PROVE  V = b[endOfDollarQuoted(s, i)][FALSE]
          BY <1>0 DEF TagPromise
        <4> DEFINE w == q.text
                   n == dollarQuoteDelimiter(s, i)
                   e == endOfByteRun(s, i + 1, tagBytes)
        <4>1. TagFrom(s, i, p, w) /\ i \in 1..(p - 1) /\ i \in 1..Len(s)
          BY <1>0
        <4>a. p - 1 = N /\ i + 1 \in Int /\ (i + 1 # p => i + 1 \in 1..N /\ i + 1 < p)
          BY <1>0
        <4> HIDE DEF w
        <4>2. e = p
          BY <1>0, <4>1, TagEnds
        <4>3. w = <<>> <=> p = i + 1
          BY <1>0, <4>1, TagEnds
        <4>4. Delimits(s, i, n, e) /\ (n = 0 => endOfDollarQuoted(s, i) = i + 1)
          BY DelimiterDef
        <4> HIDE DEF n, e
        <4>5. n = 0
          BY <1>0, <4>2, <4>4 DEF Delimits
        <4>6. endOfDollarQuoted(s, i) = i + 1
          BY <4>4, <4>5
        <4>7. CASE p = i + 1
          <5>1. V = 0
            BY <1>2, <1>5, <2>2, <4>3, <4>7 DEF w
          <5> QED
            BY <1>3, <4>6, <4>7, <5>1
        <4>8. CASE p # i + 1
          <5> DEFINE k == i + 1
          <5>1. k \in 1..Len(s) /\ i + 1 < p
            BY <4>a, <4>8
          <5>2. WordFrom(s, k, p, w)
            <6>1. \A m \in (k + 1)..(p - 1) : m \in (i + 1)..(p - 1)
              BY <1>0
            <6>2. \A x : x \in tagBytes => x \in wordBytes
              BY DEF wordBytes
            <6> QED
              BY <4>1, <5>1, <6>1, <6>2 DEF WordFrom, TagFrom
          <5> HIDE DEF k
          <5>3. WordFrom(s, k, Len(s) + 1, q.text)
            BY <1>0, <5>2 DEF w
          <5>4. endWord(q).found = b[k][q.dot]
            BY <1>5, <5>1, <5>3, WordAtEnd
          <5>5. V = endWord(q).found
            BY <1>2, <2>2, <4>3, <4>8 DEF w
          <5> QED
            BY <3>0, <4>6, <5>4, <5>5 DEF k
        <4> QED
          BY <4>7, <4>8
      <3> QED
        BY <1>5, <2>2, <3>1 DEF Promise
    <2>3. q.in \notin {"word", "tag"} => V = 0
      BY <1>2, <1>5
    <2>4. CASE q.in = "dollar"
      <3>1. DollarPromise(s, V, p, q.text, q.body)
        <4> SUFFICES ASSUME NEW i \in 1..N, NEW n \in Nat, BodyFrom(s, i, n, p, q.text, q.body)
                     PROVE  V = b[endOfDollarQuoted(s, i)][FALSE]
          BY <1>0 DEF DollarPromise
        <4> DEFINE end == endOfDollarQuoted(s, i)
        <4>1. n = dollarQuoteDelimiter(s, i) /\ n # 0 /\ \A k \in (i + n)..(p - n) : ~Closes(s, i, k)
          BY DEF BodyFrom
        <4>2. QuoteEnds(s, i, n, end)
          BY <4>1, DollarEnds
        <4>3. \A k \in (i + n)..(N - n + 1) : k \in (i + n)..(p - n)
          BY <1>0
        <4> HIDE DEF end
        <4>4. end = p
          BY <1>0, <4>1, <4>2, <4>3 DEF QuoteEnds
        <4> QED
          BY <1>3, <2>3, <2>4, <4>4 DEF end
      <3> QED
        BY <1>5, <2>4, <3>1 DEF Promise
    <2>5. CASE q.in = "code"
      <3>1. CodePromise(s, V, p, q.half, q.dot)
        BY <1>0, <1>1, <1>3, <2>3, <2>5 DEF CodePromise
      <3> QED
        BY <1>5, <2>5, <3>1 DEF Promise
    <2>6. CASE q.in = "line"
      <3>1. LinePromise(s, V, p, q.dot)
        BY <1>1, <1>3, <2>3, <2>6 DEF LinePromise
      <3> QED
        BY <1>5, <2>6, <3>1 DEF Promise
    <2>7. CASE q.in = "block"
      <3>1. BlockPromise(s, V, p, q.half, q.depth, q.dot)
        BY <1>0, <1>1, <1>3, <2>3, <2>7 DEF BlockPromise
      <3> QED
        BY <1>5, <2>7, <3>1 DEF Promise
    <2>8. CASE q.in \in {"string", "ident"}
      <3>1. \A quote : ~continuationQuote(s, p, quote)
        BY <1>0, <1>3 DEF continuationQuote
      <3>2. ASSUME NEW quote PROVE QuotedPromise(s, V, p, q.half, quote, q.escapes)
        <4> DEFINE z == quoted(s, quote, q.escapes)
        <4>1. z[p] = p /\ z[p + 1] = p
          BY <1>3
        <4>2. V = 0 /\ b[p][FALSE] = 0
          BY <1>3, <2>3, <2>8
        <4>3. ~(p <= Len(s) /\ s[p] = quote) /\ ~continuationQuote(s, p, quote)
          BY <1>0, <3>1
        <4> HIDE DEF z, b
        <4>4. V = b[z[p]][FALSE] /\ V = b[z[p + 1]][FALSE] /\ V = b[p][FALSE]
          BY <4>1, <4>2
        <4> QED
          BY <4>3, <4>4 DEF QuotedPromise, z, b
      <3> QED
        BY <1>5, <2>8, <3>2 DEF Promise
    <2>9. CASE q.in = "remark"
      <3>1. RemarkPromise(s, V, p, q.escapes)
        BY <1>0, <1>3, <2>3, <2>9 DEF RemarkPromise
      <3> QED
        BY <1>5, <2>9, <3>1 DEF Promise
    <2>10. CASE q.in = "gap"
      <3>1. GapPromise(s, V, p, q.half, q.newline, q.escapes)
        BY <1>0, <1>3, <2>3, <2>10 DEF GapPromise
      <3> QED
        BY <1>5, <2>10, <3>1 DEF Promise
    <2> QED
      BY <1>1, <2>1, <2>2, <2>4, <2>5, <2>6, <2>7, <2>8, <2>9, <2>10 DEF Modes
  <1> QED
    BY <1>1, <1>4, <1>5 DEF V, p

\* A promise says nothing of how many symbols have been read.
LEMMA PromiseUncounted ==
  ASSUME NEW A, NEW s, NEW V, NEW p, NEW h \in States(A), NEW n \in Nat,
         Promise(s, V, p, [h EXCEPT !.at = n])
  PROVE  Promise(s, V, p, h)
  <1> DEFINE r == [h EXCEPT !.at = n]
  <1>a. r = [h EXCEPT !.at = n] /\ Promise(s, V, p, r)
    OBVIOUS
  <1> HIDE DEF r
  <1>1. /\ r.in = h.in /\ r.half = h.half /\ r.dot = h.dot /\ r.text = h.text /\ r.body = h.body
        /\ r.depth = h.depth /\ r.escapes = h.escapes /\ r.newline = h.newline /\ r.found = h.found
    BY <1>a, Counted
  <1> QED
    BY <1>a, <1>1 DEF Promise

\* Every symbol keeps the promise: what the state after it promises, the state
\* before it promised too.
LEMMA ReadKeeps ==
  ASSUME NEW A, NEW s \in Seq(A), NEW V, NEW p \in 1..Len(s), NEW q \in States(A), Shape(q),
         q.at = p - 1, Promise(s, V, p + 1, Read(q, s[p]))
  PROVE  Promise(s, V, p, q)
  <1> DEFINE c == s[p]
             n == q.at + 1
             t == p + 1
  <1>0. n \in Nat /\ c \in A /\ q.half \in Halves /\ q.in \in Modes /\ q.found \in Nat
    BY DEF States
  <1>1. CASE q.found # 0
    <2> DEFINE r == Read(q, c)
    <2>1. Promise(s, V, t, r)
      OBVIOUS
    <2>2. r.found = q.found
      <3>1. c \in A
        BY <1>0
      <3> HIDE DEF c
      <3> QED
        BY <1>1, <3>1, FoundStays
    <2> HIDE DEF r, c
    <2> HIDE DEF t
    <2>3. V = q.found
      BY <1>1, <2>1, <2>2 DEF Promise
    <2> QED
      BY <1>1, <2>3 DEF Promise
  <1>2. ASSUME NEW h, Follows(A, q, h), Read(q, c) = [h EXCEPT !.at = n]
        PROVE  Promise(s, V, t, h)
    <2>1. h \in States(A)
      BY <1>2 DEF Follows
    <2>2. Promise(s, V, t, [h EXCEPT !.at = n])
      BY <1>2
    <2> HIDE DEF n, t
    <2> QED
      BY <1>0, <2>1, <2>2, PromiseUncounted
  <1>3. ASSUME q.found = 0 PROVE Promise(s, V, p, q)
    <2>1. CASE q.in = "code"
      <3> DEFINE h == inCode(q, c)
      <3>0. q.half \in {"none", "-", "/"}
        BY <2>1 DEF Shape
      <3>1. Follows(A, q, h) /\ Read(q, c) = [h EXCEPT !.at = n]
        BY <1>0, <2>1, CodeState, ReadArms
      <3>2. h = inCode(q, s[p])
        OBVIOUS
      <3> HIDE DEF h
      <3>3. Promise(s, V, p + 1, h)
        BY <1>2, <3>1
      <3>4. CodePromise(s, V, p, q.half, q.dot)
        BY <1>3, <2>1, <3>0, <3>2, <3>3, CodeKeeps
      <3> QED
        BY <1>3, <2>1, <3>4 DEF Promise
    <2>2. CASE q.in = "word"
      <3> DEFINE h == inWord(q, c)
      <3>0. q.half = "none"
        BY <2>2 DEF Shape
      <3>1. Follows(A, q, h) /\ Read(q, c) = [h EXCEPT !.at = n]
        BY <1>0, <2>2, <3>0, WordState, ReadArms
      <3>2. h = inWord(q, s[p])
        OBVIOUS
      <3> HIDE DEF h
      <3>3. Promise(s, V, p + 1, h)
        BY <1>2, <3>1
      <3>4. WordPromise(s, V, p, q.text, q.dot)
        BY <1>3, <2>2, <3>0, <3>2, <3>3, WordKeeps
      <3> QED
        BY <1>3, <2>2, <3>4 DEF Promise
    <2>3. CASE q.in \in {"string", "ident"}
      <3> DEFINE h == inQuoted(q, c)
                 quote == QuoteOf(q)
      <3>1. Follows(A, q, h) /\ Read(q, c) = [h EXCEPT !.at = n]
        BY <1>0, <2>3, QuotedState, ReadArms
      <3>2. h = inQuoted(q, s[p]) /\ quote = QuoteOf(q)
        OBVIOUS
      <3> HIDE DEF h, quote
      <3>3. Promise(s, V, p + 1, h)
        BY <1>2, <3>1
      <3>4. QuotedPromise(s, V, p, q.half, quote, q.escapes)
        BY <1>3, <2>3, <3>2, <3>3, QuotedKeeps
      <3> QED
        BY <1>3, <2>3, <3>4 DEF Promise, quote, QuoteOf
    <2>4. CASE q.in = "gap"
      <3> DEFINE h == inGap(q, c)
      <3>0. q.half \in {"none", "-"} /\ q.dot = FALSE
        BY <2>4 DEF Shape
      <3>1. Follows(A, q, h) /\ Read(q, c) = [h EXCEPT !.at = n]
        BY <1>0, <2>4, <3>0, GapState, ReadArms
      <3>2. h = inGap(q, s[p])
        OBVIOUS
      <3> HIDE DEF h
      <3>3. Promise(s, V, p + 1, h)
        BY <1>2, <3>1
      <3>4. GapPromise(s, V, p, q.half, q.newline, q.escapes)
        BY <1>3, <2>4, <3>0, <3>2, <3>3, GapKeeps
      <3> QED
        BY <1>3, <2>4, <3>4 DEF Promise
    <2>5. CASE q.in \in {"line", "remark"}
      <3> DEFINE h == IF q.in = "line" THEN inLine(q, c) ELSE inRemark(q, c)
      <3>0. q.half = "none"
        BY <2>5 DEF Shape
      <3>1. Read(q, c) = [h EXCEPT !.at = n]
        BY <2>5, ReadArms
      <3>2. h = IF q.in = "line" THEN inLine(q, s[p]) ELSE inRemark(q, s[p])
        OBVIOUS
      <3> HIDE DEF h
      <3>3. Follows(A, q, h)
        BY <1>0, <2>5, <3>2, LineState DEF c
      <3>4. Promise(s, V, p + 1, h)
        BY <1>2, <3>1, <3>3
      <3>5. CASE q.in = "line"
        <4>1. LinePromise(s, V, p, q.dot)
          BY <1>3, <3>0, <3>2, <3>4, <3>5, LineKeeps
        <4> QED
          BY <1>3, <3>5, <4>1 DEF Promise
      <3>6. CASE q.in = "remark"
        <4>1. RemarkPromise(s, V, p, q.escapes)
          BY <1>3, <3>0, <3>2, <3>4, <3>6, RemarkKeeps
        <4> QED
          BY <1>3, <3>6, <4>1 DEF Promise
      <3> QED
        BY <2>5, <3>5, <3>6
    <2>6. CASE q.in = "block"
      <3> DEFINE h == inBlock(q, c)
      <3>0. q.half \in {"none", "/", "*"}
        BY <2>6 DEF Shape
      <3>1. Follows(A, q, h) /\ Read(q, c) = [h EXCEPT !.at = n]
        BY <1>0, <2>6, BlockState, ReadArms
      <3>2. h = inBlock(q, s[p])
        OBVIOUS
      <3> HIDE DEF h
      <3>3. Promise(s, V, p + 1, h)
        BY <1>2, <3>1
      <3>4. BlockPromise(s, V, p, q.half, q.depth, q.dot)
        BY <1>3, <2>6, <3>0, <3>2, <3>3, BlockKeeps
      <3> QED
        BY <1>3, <2>6, <3>4 DEF Promise
    <2>7. CASE q.in = "tag"
      <3> DEFINE h == inTag(q, c)
      <3>0. q.half = "none" /\ q.dot = FALSE
        BY <2>7 DEF Shape
      <3>1. Follows(A, q, h) /\ Read(q, c) = [h EXCEPT !.at = n]
        BY <1>0, <2>7, TagState, ReadArms
      <3>2. h = inTag(q, s[p])
        OBVIOUS
      <3> HIDE DEF h
      <3>3. Promise(s, V, p + 1, h)
        BY <1>2, <3>1
      <3>4. TagPromise(s, V, p, q.text)
        BY <1>3, <2>7, <3>0, <3>2, <3>3, TagKeeps
      <3> QED
        BY <1>3, <2>7, <3>4 DEF Promise
    <2>8. CASE q.in = "dollar"
      <3> DEFINE h == inDollar(q, c)
      <3>0. q.half = "none" /\ q.dot = FALSE
        BY <2>8 DEF Shape
      <3>1. Follows(A, q, h) /\ Read(q, c) = [h EXCEPT !.at = n]
        BY <1>0, <2>8, DollarState, ReadArms
      <3>2. h = inDollar(q, s[p])
        OBVIOUS
      <3> HIDE DEF h
      <3>3. Promise(s, V, p + 1, h)
        BY <1>2, <3>1
      <3>4. DollarPromise(s, V, p, q.text, q.body)
        BY <1>3, <2>8, <3>0, <3>2, <3>3, DollarKeeps
      <3> QED
        BY <1>3, <2>8, <3>4 DEF Promise
    <2> QED
      BY <1>0, <2>1, <2>2, <2>3, <2>4, <2>5, <2>6, <2>7, <2>8 DEF Modes
  <1> QED
    BY <1>0, <1>1, <1>3

\* The scan and the server's lexer find the same, in a clause of any length.
LEMMA SameFind ==
  ASSUME NEW A, NEW s \in Seq(A)
  PROVE  firstBareWord(s) = ServerFinds(s)
  <1> DEFINE N == Len(s)
             Q == reading(s)
             V == AtEnd(Q[N]).found
             S == {p \in 1..(N + 1) : Promise(s, V, p, Q[p - 1])}
  <1>0. N \in Nat
    OBVIOUS
  <1>a. Q = reading(s)
    OBVIOUS
  <1> HIDE DEF Q
  <1>1. /\ Q[0] = Start
        /\ \A k \in 1..Len(s) : Q[k] = Read(Q[k - 1], s[k])
        /\ \A k \in 0..Len(s) : Q[k] \in States(A) /\ Shape(Q[k]) /\ Q[k].at = k
    BY <1>a, ReadingDef
  <1>2. Promise(s, V, N + 1, Q[N])
    <2> DEFINE q == Q[N]
    <2>1. q \in States(A) /\ Shape(q) /\ q.at = Len(s)
      BY <1>0, <1>1
    <2> HIDE DEF q
    <2>2. Promise(s, AtEnd(q).found, Len(s) + 1, q)
      BY <2>1, EndKeeps
    <2> QED
      BY <2>2 DEF q
  <1> HIDE DEF V
  <1>3. ASSUME NEW p \in 1..(N + 1), \A r \in (p + 1)..(N + 1) : r \in S PROVE p \in S
    <2>1. CASE p = N + 1
      <3>1. p - 1 = N
        BY <1>0, <2>1
      <3> QED
        BY <1>2, <2>1, <3>1
    <2>2. CASE p # N + 1
      <3> DEFINE q == Q[p - 1]
                 t == p + 1
      <3>1. p \in 1..Len(s) /\ p - 1 \in 0..Len(s) /\ t - 1 = p /\ t \in (p + 1)..(N + 1)
        BY <1>0, <2>2
      <3>2. q \in States(A) /\ Shape(q) /\ q.at = p - 1 /\ Q[p] = Read(q, s[p])
        BY <1>1, <3>1
      <3>3. Promise(s, V, t, Q[p])
        <4>1. t \in S
          BY <1>3, <3>1
        <4> HIDE DEF t
        <4>2. Promise(s, V, t, Q[t - 1])
          BY <4>1
        <4> QED
          BY <3>1, <4>2
      <3> HIDE DEF q
      <3>4. Promise(s, V, p + 1, Read(q, s[p]))
        BY <3>2, <3>3
      <3>5. Promise(s, V, p, q)
        BY <3>1, <3>2, <3>4, ReadKeeps
      <3> QED
        BY <3>5 DEF q
    <2> QED
      BY <2>1, <2>2
  <1>4. \A p \in 1..(N + 1) : p \in S
    <2> DEFINE n == N + 1
    <2>1. n \in Nat
      BY <1>0
    <2> HIDE DEF S
    <2>2. \A p \in 1..n : (\A r \in (p + 1)..n : r \in S) => p \in S
      BY <1>3
    <2> HIDE DEF n
    <2>3. \A p \in 1..n : p \in S
      BY <2>1, <2>2, Downward
    <2> QED
      BY <2>3 DEF n
  <1>5. Promise(s, V, 1, Start)
    <2> DEFINE o == 1
    <2>1. o \in 1..(N + 1) /\ o - 1 = 0
      BY <1>0
    <2> HIDE DEF o
    <2>2. Promise(s, V, o, Q[o - 1])
      BY <1>4, <2>1
    <2> QED
      BY <1>1, <2>1, <2>2 DEF o
  <1>6. Start.in = "code" /\ Start.half = "none" /\ Start.dot = FALSE /\ Start.found = 0
    BY DEF Start
  <1>7. V = bareWord(s)[1][FALSE]
    BY <1>5, <1>6 DEF Promise, CodePromise
  <1> QED
    BY <1>7 DEF firstBareWord, ServerFinds, V, Q

\* The clause is written in its alphabet.
WInv == \E A \in Alphabets : \E text \in Seq(A) : clause = [in |-> A, text |-> text]

\* The pre-check and the server agree on every clause, of any length and over any
\* alphabet: the scanner's index arithmetic (nextToken and the endOf functions it
\* calls) finds the first bare row variable exactly where the lexer that reads one
\* symbol at a time does, and nothing where it finds none.
THEOREM ScannerExact == LSpec => []ScannerAgreesWithServer
  <1>1. LInit => WInv
    <2> SUFFICES ASSUME NEW A \in Alphabets, clause = [in |-> A, text |-> <<>>] PROVE WInv
      BY DEF LInit
    <2> DEFINE text == <<>>
    <2>1. text \in Seq(A) /\ clause = [in |-> A, text |-> text]
      OBVIOUS
    <2> HIDE DEF text
    <2> QED
      BY <2>1 DEF WInv
  <1>2. WInv /\ [Write]_clause => WInv'
    <2> SUFFICES ASSUME WInv, [Write]_clause PROVE WInv'
      OBVIOUS
    <2>1. CASE UNCHANGED clause
      BY <2>1 DEF WInv
    <2>2. CASE Write
      <3>0. PICK A \in Alphabets : \E text \in Seq(A) : clause = [in |-> A, text |-> text]
        BY DEF WInv
      <3>1. PICK text \in Seq(A) : clause = [in |-> A, text |-> text]
        BY <3>0
      <3>2. PICK c \in clause.in : clause' = [clause EXCEPT !.text = Append(@, c)]
        BY <2>2 DEF Write
      <3> DEFINE longer == Append(text, c)
      <3>3. longer \in Seq(A)
        BY <3>1, <3>2
      <3> HIDE DEF longer
      <3>4. clause' = [in |-> A, text |-> longer]
        BY <3>1, <3>2 DEF longer
      <3> QED
        BY <3>3, <3>4 DEF WInv
    <2> QED
      BY <2>1, <2>2
  <1>3. WInv => ScannerAgreesWithServer
    BY SameFind DEF WInv, ScannerAgreesWithServer
  <1> QED
    BY <1>1, <1>2, <1>3, PTL DEF LSpec

===============================================================================
