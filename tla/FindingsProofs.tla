--------------------------- MODULE FindingsProofs ---------------------------
(* What TLAPS proves of the findings of a scan: the AI's validations, the    *)
(* passes of findings.normalize and the review, for every number of          *)
(* analyzers, passes, validations, findings, rules and transactions. The     *)
(* passes are proved for whatever normalize makes of the artifacts; that the *)
(* rows are those of the artifacts is proved of what it does make of them.   *)
EXTENDS FindingEvidence, FindingReview, FiniteSetTheorems, SequenceTheorems,
        WellFoundedInduction, TLAPS

-----------------------------------------------------------------------------
(* FindingEvidence: AI validation.                                           *)

Active == {"running", "answered", "notes", "critiques", "noted", "succeeded"}
AtRest == {"idle", "queued", "packed", "done"}

IsAiRun(row) ==
  row \in [about : {row.about}, status : {row.status}, pack : {row.pack}, output : {row.output},
           cited : {row.cited}, validated : {row.validated}, critiques : {row.critiques},
           note : {row.note}, usage : {row.usage}]

Working(v) ==
  asked[v] \in [at : Active, run : DOMAIN aiRuns, crashes : {asked[v].crashes}]

AiTypes ==
  /\ aiRuns \in Seq({aiRuns[i] : i \in DOMAIN aiRuns})
  /\ \A i \in DOMAIN aiRuns : IsAiRun(aiRuns[i])
  /\ asked = [v \in Validations |-> asked[v]]
  /\ \A v \in Validations : asked[v].at \in AtRest \/ Working(v)

OneWorker ==
  \A v, w \in Validations :
    asked[v].at \in Active /\ asked[w].at \in Active /\ asked[v].run = asked[w].run => v = w

Whole(row) ==
  /\ row.output /\ row.note
  /\ row.about # Summary => row.validated /\ row.critiques = Critiqued(row)

(* What the row of a run holds by the time its worker is there.              *)
SoFar(where, row) ==
  /\ row.status = "SUCCEEDED" <=> where = "succeeded"
  /\ where \in {"running", "answered"} => row.critiques = {}
  /\ where = "answered" => row.output /\ row.about # Summary
  /\ where = "notes" => row.output /\ row.about = Summary
  /\ where = "critiques" => row.output /\ row.about # Summary /\ row.validated
                            /\ row.critiques \subseteq Critiqued(row)
  /\ where \in {"noted", "succeeded"} => Whole(row)

AiInv ==
  /\ AiTypes /\ OneWorker
  /\ \A v \in Validations : asked[v].at \in Active => SoFar(asked[v].at, RunOf(v))
  /\ SucceededIsComplete

LEMMA SeqOfOwn ==
  ASSUME NEW S, NEW s \in Seq(S)
  PROVE  s \in Seq({s[i] : i \in DOMAIN s})
<1>1. s \in [1 .. Len(s) -> S] /\ Len(s) \in Nat /\ DOMAIN s = 1 .. Len(s)
  BY LenProperties
<1>2. s \in [1 .. Len(s) -> {s[i] : i \in DOMAIN s}]
  BY <1>1
<1> QED BY <1>1, <1>2, SeqDef

LEMMA ActiveIsWorking ==
  ASSUME AiTypes, NEW v \in Validations, asked[v].at \in Active
  PROVE  Working(v) /\ asked[v].run \in DOMAIN aiRuns /\ IsAiRun(RunOf(v))
BY DEF AiTypes, Working, Active, AtRest, RunOf

(* A validation moves and the rows stay.                                     *)
LEMMA OneRests ==
  ASSUME AiInv, NEW v \in Validations, NEW c, c.at \in AtRest, Goes(v, c), UNCHANGED aiRuns
  PROVE  AiInv'
<1>0. AiTypes /\ OneWorker
  BY DEF AiInv
<1>1. /\ asked' = [w \in Validations |-> asked'[w]] /\ asked'[v] = c
      /\ \A w \in Validations \ {v} : asked'[w] = asked[w]
  BY <1>0 DEF AiTypes, Goes
<1>2. AiTypes'
  <2>1. \A w \in Validations \ {v} : Working(w)' <=> Working(w)
    BY <1>1 DEF Working
  <2> QED BY <1>0, <1>1, <2>1 DEF AiTypes
<1>3. c.at \notin Active
  BY DEF AtRest, Active
<1>4. OneWorker'
  BY <1>0, <1>1, <1>3 DEF OneWorker
<1>5. \A w \in Validations : asked'[w].at \in Active => SoFar(asked[w].at, RunOf(w))'
  BY <1>1, <1>3 DEF AiInv, RunOf, SoFar
<1> QED BY <1>2, <1>4, <1>5 DEF AiInv, SucceededIsComplete

(* It writes the row of its run, which is nobody else's.                     *)
LEMMA OneWrites ==
  ASSUME AiInv, NEW v \in Validations, asked[v].at \in Active,
         NEW row, NEW where \in Active \cup {"done"}, Writes(v, row, where), IsAiRun(row),
         where = "done" => row.status # "SUCCEEDED" \/ Whole(row),
         where # "done" => SoFar(where, row)
  PROVE  AiInv'
<1> DEFINE i == asked[v].run
           Rows == {aiRuns[j] : j \in DOMAIN aiRuns} \cup {row}
<1>0. AiTypes /\ OneWorker
  BY DEF AiInv
<1>1. i \in DOMAIN aiRuns /\ Working(v)
  BY <1>0, ActiveIsWorking
<1>2. aiRuns \in Seq(Rows) /\ DOMAIN aiRuns = 1 .. Len(aiRuns)
  <2>1. aiRuns \in Seq({aiRuns[j] : j \in DOMAIN aiRuns})
    BY <1>0 DEF AiTypes
  <2>2. {aiRuns[j] : j \in DOMAIN aiRuns} \subseteq Rows
    OBVIOUS
  <2>3. aiRuns \in Seq(Rows)
    BY <2>1, <2>2, SeqMonotonic
  <2> QED BY <2>1, <2>3, LenProperties
<1>3. /\ aiRuns' \in Seq(Rows) /\ DOMAIN aiRuns' = DOMAIN aiRuns /\ aiRuns'[i] = row
      /\ \A j \in DOMAIN aiRuns \ {i} : aiRuns'[j] = aiRuns[j]
  <2>1. aiRuns' = [aiRuns EXCEPT ![i] = row]
    BY DEF Writes
  <2>2. row \in Rows
    OBVIOUS
  <2>3. aiRuns' \in Seq(Rows) /\ Len(aiRuns') = Len(aiRuns)
    BY <1>1, <1>2, <2>1, <2>2, ExceptSeq
  <2>4. DOMAIN aiRuns' = DOMAIN aiRuns
    BY <1>2, <2>3, LenProperties
  <2> QED BY <1>1, <1>2, <2>1, <2>3, <2>4
<1>4. aiRuns' \in Seq({aiRuns'[j] : j \in DOMAIN aiRuns'})
  BY <1>3, SeqOfOwn
<1>5. /\ asked' = [w \in Validations |-> asked'[w]] /\ asked'[v].at = where
      /\ asked'[v] \in [at : {where}, run : {i}, crashes : {asked[v].crashes}]
      /\ \A w \in Validations \ {v} : asked'[w] = asked[w]
  <2>1. asked' = [asked EXCEPT ![v] = [asked[v] EXCEPT !.at = where]]
    BY DEF Writes, Goes
  <2>2. [asked[v] EXCEPT !.at = where] \in [at : {where}, run : {i}, crashes : {asked[v].crashes}]
    BY <1>1 DEF Working
  <2> HIDE DEF i
  <2> QED BY <1>0, <2>1, <2>2 DEF AiTypes
<1>6. AiTypes'
  <2>1. \A w \in Validations \ {v} : Working(w)' <=> Working(w)
    BY <1>3, <1>5 DEF Working
  <2>2. asked'[v].at \in AtRest \/ Working(v)'
    <3>1. asked'[v].crashes = asked[v].crashes
      BY <1>5
    <3> QED BY <1>1, <1>3, <1>5, <3>1 DEF Working, AtRest
  <2>3. \A j \in DOMAIN aiRuns' : IsAiRun(aiRuns'[j])
    BY <1>0, <1>3 DEF AiTypes
  <2> QED BY <1>0, <1>4, <1>5, <2>1, <2>2, <2>3 DEF AiTypes
<1>7. OneWorker'
  <2>1. asked'[v].run = asked[v].run
    BY <1>5
  <2> QED BY <1>0, <1>5, <2>1 DEF OneWorker
<1>8. ASSUME NEW w \in Validations, asked'[w].at \in Active PROVE SoFar(asked[w].at, RunOf(w))'
  <2>1. CASE w = v
    BY <1>3, <1>5, <1>8, <2>1 DEF RunOf, SoFar, Active
  <2>2. CASE w # v
    <3>1. asked[w].run # i /\ asked[w].run \in DOMAIN aiRuns
      BY <1>0, <1>5, <1>8, <2>2, ActiveIsWorking DEF OneWorker
    <3>2. aiRuns'[asked[w].run] = aiRuns[asked[w].run] /\ asked'[w] = asked[w]
      BY <1>3, <1>5, <2>2, <3>1
    <3> QED BY <1>8, <3>2 DEF AiInv, RunOf, SoFar
  <2> QED BY <2>1, <2>2
<1>9. SucceededIsComplete'
  BY <1>3 DEF AiInv, SucceededIsComplete, Whole, SoFar, Active, Critiqued, Summary
<1> QED BY <1>6, <1>7, <1>8, <1>9 DEF AiInv

(* A run is created.                                                         *)
LEMMA OneBegins ==
  ASSUME AiInv, NEW v \in Validations, NEW row, IsAiRun(row), row.status # "SUCCEEDED", row.critiques = {},
         NEW c, Goes(v, c), aiRuns' = Append(aiRuns, row),
         c.at \in AtRest \/ c = [at |-> "running", run |-> Len(aiRuns) + 1, crashes |-> c.crashes]
  PROVE  AiInv'
<1> DEFINE Rows == {aiRuns[j] : j \in DOMAIN aiRuns} \cup {row}
           n == Len(aiRuns) + 1
<1>0. AiTypes /\ OneWorker
  BY DEF AiInv
<1>2. aiRuns \in Seq(Rows) /\ DOMAIN aiRuns = 1 .. Len(aiRuns) /\ Len(aiRuns) \in Nat
  <2>1. aiRuns \in Seq({aiRuns[j] : j \in DOMAIN aiRuns})
    BY <1>0 DEF AiTypes
  <2>2. {aiRuns[j] : j \in DOMAIN aiRuns} \subseteq Rows
    OBVIOUS
  <2>3. aiRuns \in Seq(Rows)
    BY <2>1, <2>2, SeqMonotonic
  <2> QED BY <2>1, <2>3, LenProperties
<1>3. /\ aiRuns' \in Seq(Rows) /\ DOMAIN aiRuns' = 1 .. n /\ aiRuns'[n] = row
      /\ \A j \in DOMAIN aiRuns : aiRuns'[j] = aiRuns[j]
  <2>1. row \in Rows
    OBVIOUS
  <2>2. aiRuns' \in Seq(Rows) /\ Len(aiRuns') = n /\ aiRuns'[n] = row
        /\ \A j \in 1 .. Len(aiRuns) : aiRuns'[j] = aiRuns[j]
    BY <1>2, <2>1, AppendProperties
  <2>3. DOMAIN aiRuns' = 1 .. Len(aiRuns')
    BY <2>2, LenProperties
  <2> QED BY <1>2, <2>2, <2>3
<1>4. aiRuns' \in Seq({aiRuns'[j] : j \in DOMAIN aiRuns'})
  BY <1>3, SeqOfOwn
<1>5. /\ asked' = [w \in Validations |-> asked'[w]] /\ asked'[v] = c
      /\ \A w \in Validations \ {v} : asked'[w] = asked[w]
  BY <1>0 DEF AiTypes, Goes
<1>6. \A w \in Validations \ {v} : asked[w].at \in Active =>
        asked[w].run \in DOMAIN aiRuns /\ asked[w].run # n /\ aiRuns'[asked[w].run] = aiRuns[asked[w].run]
  BY <1>0, <1>2, <1>3, ActiveIsWorking
<1>n. n \in 1 .. n /\ DOMAIN aiRuns \subseteq 1 .. n
  BY <1>2
<1>7. AiTypes'
  <2>1. \A w \in Validations \ {v} : Working(w) => Working(w)'
    BY <1>3, <1>5, <1>n DEF Working
  <2>2. c.at \in AtRest \/ Working(v)'
    BY <1>3, <1>5, <1>n DEF Working, Active
  <2>3. \A j \in DOMAIN aiRuns' : IsAiRun(aiRuns'[j])
    BY <1>0, <1>2, <1>3 DEF AiTypes
  <2> QED BY <1>0, <1>4, <1>5, <2>1, <2>2, <2>3 DEF AiTypes
<1>8. c.at \in Active => c.at = "running" /\ c.run = n
  BY DEF AtRest, Active
<1> HIDE DEF n
<1>9. OneWorker'
  BY <1>0, <1>5, <1>6, <1>8 DEF OneWorker
<1>10. \A w \in Validations : asked'[w].at \in Active => SoFar(asked[w].at, RunOf(w))'
  <2>1. ASSUME asked'[v].at \in Active PROVE SoFar(asked[v].at, RunOf(v))'
    <3>1. asked'[v].at = "running" /\ RunOf(v)' = row
      BY <1>3, <1>5, <1>8, <1>n, <2>1 DEF RunOf
    <3> QED BY <3>1 DEF SoFar
  <2>2. ASSUME NEW w \in Validations \ {v}, asked'[w].at \in Active PROVE SoFar(asked[w].at, RunOf(w))'
    <3>1. asked'[w] = asked[w] /\ RunOf(w)' = RunOf(w)
      BY <1>5, <1>6, <2>2 DEF RunOf
    <3>2. SoFar(asked[w].at, RunOf(w))
      BY <2>2, <3>1 DEF AiInv
    <3> QED BY <3>1, <3>2 DEF SoFar
  <2> QED BY <2>1, <2>2
<1>11. SucceededIsComplete'
  <2>1. \A j \in DOMAIN aiRuns' : j \in DOMAIN aiRuns \/ aiRuns'[j] = row
    BY <1>2, <1>3 DEF n
  <2> QED BY ZenonT(60), <1>3, <2>1 DEF AiInv, SucceededIsComplete
<1> QED BY <1>7, <1>9, <1>10, <1>11 DEF AiInv

(* What is written of a run leaves the rest of its row.                      *)
LEMMA RunRows ==
  ASSUME NEW row, IsAiRun(row), NEW e
  PROVE  /\ IsAiRun([row EXCEPT !.status = e]) /\ [row EXCEPT !.status = e].status = e
         /\ IsAiRun([row EXCEPT !.pack = e]) /\ [row EXCEPT !.pack = e].status = row.status
         /\ [row EXCEPT !.pack = e].critiques = row.critiques
         /\ IsAiRun([row EXCEPT !.critiques = e]) /\ [row EXCEPT !.critiques = e].critiques = e
BY DEF IsAiRun

LEMMA NewRuns ==
  ASSUME NEW about, NEW s
  PROVE  /\ IsAiRun(NewRun(about, s)) /\ NewRun(about, s).status = s /\ NewRun(about, s).critiques = {}
BY DEF IsAiRun, NewRun

LEMMA ValidationStepInv ==
  ASSUME AiInv, NEW v \in Validations, ValidationStep(v)
  PROVE  AiInv'
<1>0. AiTypes
  BY DEF AiInv
<1>1. ASSUME NEW about, enqueueValidation(v, about) PROVE AiInv'
  <2>1. PICK c : c.at = "queued" /\ Goes(v, c) /\ UNCHANGED aiRuns
    BY <1>1 DEF enqueueValidation, Goes
  <2> QED BY <2>1, OneRests DEF AtRest
<1>2. CASE persistProviderNotConfigured(v)
  <2>1. /\ aiRuns' = Append(aiRuns, NewRun(asked[v].about, "PROVIDER_NOT_CONFIGURED"))
        /\ Goes(v, [at |-> "done"])
    BY <1>2 DEF persistProviderNotConfigured
  <2> QED BY <2>1, NewRuns, OneBegins DEF AtRest
<1>3. CASE buildPack(v)
  BY <1>3, OneRests DEF buildPack, AtRest
<1>4. CASE createRunningRun(v)
  <2> DEFINE row == [NewRun(asked[v].about, "RUNNING") EXCEPT !.pack = asked[v].pack]
             c == [at |-> "running", run |-> Len(aiRuns) + 1, crashes |-> asked[v].crashes]
  <2>1. aiRuns' = Append(aiRuns, row) /\ Goes(v, c)
    BY <1>4 DEF createRunningRun
  <2>2. IsAiRun(row) /\ row.status # "SUCCEEDED" /\ row.critiques = {}
    <3> DEFINE new == NewRun(asked[v].about, "RUNNING")
    <3>1. IsAiRun(new) /\ new.status = "RUNNING" /\ new.critiques = {}
      BY NewRuns
    <3> HIDE DEF new
    <3>2. \A e : /\ IsAiRun([new EXCEPT !.pack = e]) /\ [new EXCEPT !.pack = e].status = new.status
                /\ [new EXCEPT !.pack = e].critiques = new.critiques
      BY <3>1, RunRows
    <3> QED BY <3>1, <3>2 DEF new
  <2>3. c = [at |-> "running", run |-> Len(aiRuns) + 1, crashes |-> c.crashes]
    OBVIOUS
  <2> HIDE DEF row, c
  <2> QED BY <2>1, <2>2, <2>3, OneBegins
<1>w. ASSUME asked[v].at \in Active
      PROVE  IsAiRun(RunOf(v)) /\ SoFar(asked[v].at, RunOf(v))
  BY <1>0, <1>w, ActiveIsWorking DEF AiInv
<1>5. ASSUME NEW cited, generateJson(v, cited) PROVE AiInv'
  <2> DEFINE row == [RunOf(v) EXCEPT !.output = TRUE, !.cited = cited]
             where == IF RunOf(v).about = Summary THEN "notes" ELSE "answered"
  <2>1. asked[v].at = "running" /\ asked[v].at \in Active /\ Writes(v, row, where)
    BY <1>5 DEF generateJson, Wait, Active
  <2>2. IsAiRun(RunOf(v)) /\ SoFar("running", RunOf(v))
    BY <1>w, <2>1
  <2>3. IsAiRun(row) /\ row.status = RunOf(v).status /\ row.about = RunOf(v).about /\ row.output
        /\ row.critiques = RunOf(v).critiques
    BY <2>2 DEF IsAiRun
  <2>4. where \in Active /\ where # "done" /\ SoFar(where, row)
    BY <2>2, <2>3 DEF SoFar, Active
  <2> HIDE DEF row, where
  <2> QED BY <2>1, <2>3, <2>4, OneWrites
<1>6. CASE persistFindingValidation(v)
  <2> DEFINE row == [RunOf(v) EXCEPT !.validated = TRUE]
  <2>1. asked[v].at = "answered" /\ asked[v].at \in Active /\ Writes(v, row, "critiques")
    BY <1>6 DEF persistFindingValidation, Wait, Active
  <2>2. IsAiRun(RunOf(v)) /\ SoFar("answered", RunOf(v))
    BY <1>w, <2>1
  <2>3. IsAiRun(row) /\ row.status = RunOf(v).status /\ row.about = RunOf(v).about /\ row.validated
        /\ row.critiques = RunOf(v).critiques /\ row.output = RunOf(v).output
    BY <2>2 DEF IsAiRun
  <2>4. SoFar("critiques", row)
    BY <2>2, <2>3 DEF SoFar
  <2> HIDE DEF row
  <2> QED BY <2>1, <2>3, <2>4, OneWrites DEF Active
<1>7. ASSUME NEW id, persistCritique(v, id) PROVE AiInv'
  <2> DEFINE row == [RunOf(v) EXCEPT !.critiques = RunOf(v).critiques \cup {id}]
  <2>1. asked[v].at = "critiques" /\ asked[v].at \in Active /\ Writes(v, row, "critiques")
        /\ id \in Critiqued(RunOf(v))
    BY <1>7 DEF persistCritique, Wait, Active
  <2>2. IsAiRun(RunOf(v)) /\ SoFar("critiques", RunOf(v))
    BY <1>w, <2>1
  <2>3. IsAiRun(row) /\ row.status = RunOf(v).status /\ row.about = RunOf(v).about
        /\ row.validated = RunOf(v).validated /\ row.output = RunOf(v).output
        /\ row.cited = RunOf(v).cited /\ row.pack = RunOf(v).pack
    BY <2>2 DEF IsAiRun
  <2>4. row.critiques = RunOf(v).critiques \cup {id}
    BY <2>2, RunRows
  <2>5. row.critiques \subseteq Critiqued(row)
    BY <2>1, <2>2, <2>3, <2>4 DEF SoFar, Critiqued
  <2> HIDE DEF row
  <2>6. SoFar("critiques", row)
    BY <2>2, <2>3, <2>5 DEF SoFar
  <2> QED BY <2>1, <2>3, <2>6, OneWrites DEF Active
<1>8. CASE persistReviewNote(v)
  <2> DEFINE row == [RunOf(v) EXCEPT !.note = TRUE]
  <2>1. asked[v].at \in {"notes", "critiques"} /\ asked[v].at \in Active /\ Writes(v, row, "noted")
        /\ (asked[v].at = "critiques" => Critiqued(RunOf(v)) \subseteq RunOf(v).critiques)
    BY <1>8 DEF persistReviewNote, Wait, Active
  <2>2. IsAiRun(RunOf(v)) /\ SoFar(asked[v].at, RunOf(v))
    BY <1>w, <2>1
  <2>3. IsAiRun(row) /\ row.status = RunOf(v).status /\ row.about = RunOf(v).about
        /\ row.validated = RunOf(v).validated /\ row.output = RunOf(v).output /\ row.note
        /\ row.cited = RunOf(v).cited /\ row.pack = RunOf(v).pack /\ row.critiques = RunOf(v).critiques
    BY <2>2 DEF IsAiRun
  <2>4. asked[v].at = "critiques" => RunOf(v).critiques = Critiqued(RunOf(v))
    BY <2>1, <2>2 DEF SoFar
  <2> HIDE DEF row
  <2>5. Whole(row)
    BY <2>1, <2>2, <2>3, <2>4 DEF SoFar, Whole, Critiqued
  <2>6. SoFar("noted", row)
    BY <2>1, <2>2, <2>3, <2>5 DEF SoFar
  <2> QED BY <2>1, <2>3, <2>6, OneWrites DEF Active
<1>9. CASE finalizeRun(v)
  <2> DEFINE row == [RunOf(v) EXCEPT !.status = "SUCCEEDED"]
  <2>1. asked[v].at = "noted" /\ asked[v].at \in Active /\ Writes(v, row, "succeeded")
    BY <1>9 DEF finalizeRun, Wait, Active
  <2>2. IsAiRun(RunOf(v)) /\ SoFar("noted", RunOf(v))
    BY <1>w, <2>1
  <2>3. IsAiRun(row) /\ row.status = "SUCCEEDED" /\ row.about = RunOf(v).about
        /\ row.validated = RunOf(v).validated /\ row.output = RunOf(v).output /\ row.note = RunOf(v).note
        /\ row.cited = RunOf(v).cited /\ row.pack = RunOf(v).pack /\ row.critiques = RunOf(v).critiques
    BY <2>2 DEF IsAiRun
  <2> HIDE DEF row
  <2>4. SoFar("succeeded", row)
    BY <2>2, <2>3 DEF SoFar, Whole, Critiqued
  <2> QED BY <2>1, <2>3, <2>4, OneWrites DEF Active
<1>10. CASE persistUsage(v)
  <2> DEFINE row == [RunOf(v) EXCEPT !.usage = TRUE]
  <2>1. asked[v].at = "succeeded" /\ asked[v].at \in Active /\ Writes(v, row, "done")
    BY <1>10 DEF persistUsage, Wait, Active
  <2>2. IsAiRun(RunOf(v)) /\ SoFar("succeeded", RunOf(v))
    BY <1>w, <2>1
  <2>3. IsAiRun(row) /\ row.about = RunOf(v).about
        /\ row.validated = RunOf(v).validated /\ row.output = RunOf(v).output /\ row.note = RunOf(v).note
        /\ row.cited = RunOf(v).cited /\ row.pack = RunOf(v).pack /\ row.critiques = RunOf(v).critiques
    BY <2>2 DEF IsAiRun
  <2> HIDE DEF row
  <2>4. Whole(row)
    BY <2>2, <2>3 DEF SoFar, Whole, Critiqued
  <2> QED BY <2>1, <2>3, <2>4, OneWrites
<1>11. ASSUME NEW s \in {"FAILED", "TIMEOUT"}, failRun(v, s) PROVE AiInv'
  <2> DEFINE row == [RunOf(v) EXCEPT !.status = s]
  <2>1. asked[v].at \in Active /\ Writes(v, row, "done")
    BY <1>0, <1>11 DEF failRun, AiTypes, Working, AtRest
  <2>2. IsAiRun(RunOf(v))
    BY <1>w, <2>1
  <2>3. IsAiRun(row) /\ row.status # "SUCCEEDED"
    BY <2>2, RunRows
  <2> HIDE DEF row
  <2> QED BY <2>1, <2>3, OneWrites
<1>12. CASE WorkerCrashes(v)
  <2>1. PICK c : c.at = "queued" /\ Goes(v, c) /\ UNCHANGED aiRuns
    BY <1>12 DEF WorkerCrashes
  <2> QED BY <2>1, OneRests DEF AtRest
<1> QED BY <1>1, <1>2, <1>3, <1>4, <1>5, <1>6, <1>7, <1>8, <1>9, <1>10, <1>11, <1>12 DEF ValidationStep

(* The other steps leave the validations alone.                              *)
LEMMA OnlyValidations ==
  ASSUME [FindingNext]_findingVars
  PROVE  UNCHANGED aiVars \/ \E v \in Validations : ValidationStep(v)
<1>1. AnalyzerStep => UNCHANGED aiVars
  BY DEF AnalyzerStep, startAnalyzerRun, finalizeAnalyzerRun, recordAnalyzerCompletion,
         recordAnalyzerFailure, enqueueNormalize
<1>2. \A p \in Passes : PassStep(p) => UNCHANGED aiVars
  BY DEF PassStep, startPass, normalizeArtifacts, readAnalyzerRuns, persistNormalizedVulnerabilities,
         deleteFindingCodeLinks, deleteIrRuns, replaceIrRun, enqueueRiskScore, PassFails
<1>3. scoreRisk \/ (\E mark \in DOMAIN rows, s \in Verdicts : reviewFinding(mark, s)) => UNCHANGED aiVars
  BY DEF scoreRisk, reviewFinding
<1>4. UNCHANGED findingVars => UNCHANGED aiVars
  BY DEF findingVars
<1> QED BY <1>1, <1>2, <1>3, <1>4 DEF FindingNext

LEMMA AiInvariant == FindingSpec => []AiInv
<1>1. FindingInit => AiInv
  BY EmptySeq DEF FindingInit, AiInv, AiTypes, OneWorker, SucceededIsComplete, Idle, AtRest, Active
<1>2. ASSUME AiInv, UNCHANGED aiVars PROVE AiInv'
  <2>1. asked' = asked /\ aiRuns' = aiRuns
    BY <1>2 DEF aiVars
  <2>2. AiTypes' /\ OneWorker'
    BY <1>2, <2>1 DEF AiInv, AiTypes, OneWorker, Working
  <2>3. \A v \in Validations : asked'[v].at \in Active => SoFar(asked[v].at, RunOf(v))'
    BY <1>2, <2>1 DEF AiInv, SoFar, RunOf
  <2>4. SucceededIsComplete'
    BY <1>2, <2>1 DEF AiInv, SucceededIsComplete
  <2> QED BY <2>2, <2>3, <2>4 DEF AiInv
<1>3. AiInv /\ [FindingNext]_findingVars => AiInv'
  BY <1>2, ValidationStepInv, OnlyValidations
<1> QED BY <1>1, <1>3, PTL DEF FindingSpec

(* What is shown as a success has everything that belongs to it              *)
(* (ai-validation.service.ts of the worker, finalizeRun): however many       *)
(* validations run at a time, over findings that passes write again          *)
(* meanwhile, and however often a worker crashes.                            *)
THEOREM SuccessIsWhole == FindingSpec => []SucceededIsComplete
<1>1. AiInv => SucceededIsComplete
  BY DEF AiInv
<1> QED BY <1>1, AiInvariant, PTL

-----------------------------------------------------------------------------
(* FindingEvidence: the passes.                                              *)

(* A pass that writes a finding again never takes back a reviewer's verdict  *)
(* (persistNormalizedVulnerabilities): the rows that are there keep their    *)
(* status, whichever passes run and fail.                                    *)
THEOREM VerdictsStand == FindingSpec => ReviewSurvives
<1> DEFINE Kept == \A mark \in DOMAIN rows : mark \in DOMAIN rows' /\ rows'[mark].status = rows[mark].status
<1>1. ASSUME UNCHANGED rows PROVE Kept
  BY <1>1
<1>2. ASSUME NEW p \in Passes, persistNormalizedVulnerabilities(p) PROVE Kept
  <2> DEFINE written == {found.fingerprint : found \in pass[p].found}
             of(mark) == CHOOSE found \in pass[p].found : found.fingerprint = mark
             old(mark) == {rows[mark] : m \in {mark} \cap DOMAIN rows}
             row(mark) == IF mark \notin written THEN rows[mark] ELSE upsertVulnerability(p, of(mark), old(mark))
  <2>1. rows' = [mark \in DOMAIN rows \cup written |-> row(mark)]
    BY <1>2 DEF persistNormalizedVulnerabilities
  <2>2. ASSUME NEW mark \in DOMAIN rows PROVE row(mark).status = rows[mark].status
    <3>1. old(mark) = {rows[mark]}
      BY <2>2
    <3> HIDE DEF old
    <3>2. \A found : upsertVulnerability(p, found, old(mark)).status = rows[mark].status
      BY <3>1 DEF upsertVulnerability, toVulnerability
    <3> HIDE DEF of
    <3> QED BY <3>2
  <2> HIDE DEF row, written
  <2> QED BY <2>1, <2>2
<1>3. ASSUME NEW p \in Passes, PassStep(p) PROVE Kept
  BY <1>1, <1>2, <1>3
     DEF PassStep, startPass, normalizeArtifacts, readAnalyzerRuns, deleteFindingCodeLinks,
         deleteIrRuns, replaceIrRun, enqueueRiskScore, PassFails
<1>4. ASSUME AnalyzerStep \/ scoreRisk PROVE Kept
  BY <1>1, <1>4
     DEF AnalyzerStep, startAnalyzerRun, finalizeAnalyzerRun, recordAnalyzerCompletion,
         recordAnalyzerFailure, enqueueNormalize, scoreRisk, passVars
<1>5. ASSUME NEW v \in Validations, ValidationStep(v) PROVE Kept
  BY <1>1, <1>5
     DEF ValidationStep, enqueueValidation, persistProviderNotConfigured, buildPack, createRunningRun,
         generateJson, persistFindingValidation, persistCritique, persistReviewNote, finalizeRun,
         persistUsage, failRun, WorkerCrashes, Writes, Stays, passVars
<1>6. ASSUME NEW mark, NEW s, reviewFinding(mark, s) PROVE UNCHANGED pass
  BY <1>6 DEF reviewFinding
<1> HIDE DEF Kept
<1>7. FindingNext => (pass' # pass => Kept)
  BY <1>3, <1>4, <1>5, <1>6 DEF FindingNext
<1>8. [FindingNext]_findingVars => [pass' # pass => Kept]_findingVars
  BY <1>7
<1> QED BY <1>8, PTL DEF FindingSpec, ReviewSurvives, Kept

(* What normalize makes of the artifacts of the job: it need not be known    *)
(* what that is, only that every pass makes the same of them.                *)
Results == normalize(Artifacts)
Marks == {found.fingerprint : found \in Results}
ResultOf(mark) == CHOOSE found \in Results : found.fingerprint = mark

IsAnalyzerRun(run) ==
  run \in [analyzer : {run.analyzer}, status : {run.status}, output : {run.output}, told : {run.told}]

RunsInv ==
  /\ runs \in Seq({runs[i] : i \in DOMAIN runs}) /\ \A i \in DOMAIN runs : IsAnalyzerRun(runs[i])
  /\ kept = [a \in Analyzers |-> kept[a]]
  /\ \A a \in Analyzers : kept[a] # 0 => kept[a] \in DOMAIN runs /\ runs[kept[a]].status = "COMPLETED"
  /\ \A i \in DOMAIN job : job[i] \in DOMAIN runs /\ runs[job[i]].status = "COMPLETED"

Persisted == {"ir", "irRuns", "irCommit", "enqueue", "done"}
PassStates == {"idle", "normalize", "persist", "write", "failed"} \cup Persisted

IsRow(row) ==
  row \in [status : {row.status}, category : {row.category}, severity : {row.severity},
           confidence : {row.confidence}, risk : {row.risk}, scores : {row.scores}, file : {row.file},
           line : {row.line}, contract : {row.contract}, text : {row.text}, evidence : {row.evidence},
           decisions : {row.decisions}]

(* A row shows what was found: its place, its text, its evidence.            *)
Shows(row, found) ==
  /\ IsRow(row)
  /\ row.file = found.file /\ row.line = found.line
  /\ row.contract = found.contract /\ row.text = found.text
  /\ Cited(row) = {found.items[k] : k \in DOMAIN found.items}

RowsInv ==
  /\ pass = [p \in Passes |-> pass[p]] /\ \A p \in Passes : pass[p].at \in PassStates
  /\ job = <<>> => normalized = {} /\ DOMAIN rows = {} /\ irRuns = {} /\ \A p \in Passes : At(p, "idle")
  /\ normalized \in {{}, Results}
  /\ rows = [mark \in DOMAIN rows |-> rows[mark]] /\ DOMAIN rows \in {{}, Marks}
  /\ \A mark \in DOMAIN rows : Shows(rows[mark], ResultOf(mark))
  /\ \A p \in Passes :
       /\ At(p, "persist") => normalized = Results
       /\ At(p, "write") => pass[p].found = Results
       /\ pass[p].at \in Persisted => DOMAIN rows = Marks
  /\ irRuns # {} => DOMAIN rows = Marks

LinksOf(run) == IF run.status = "EXTRACTED" THEN persistFindingCodeLinks(run.id, rows) ELSE {}

(* While no two passes were under way, the one that is under way has read    *)
(* what is there, and the links are those of the one run and the rows.       *)
LinksInv ==
  ~ overlapped =>
    /\ \A p, q \in Passes : UnderWay(p) /\ UnderWay(q) => p = q
    /\ \A p \in Passes :
         /\ pass[p].at \in {"irRuns", "irCommit"} => pass[p].links = links
         /\ At(p, "irCommit") => pass[p].irRuns = irRuns
    /\ \/ irRuns = {} /\ links = {}
       \/ \E run \in irRuns : irRuns = {run} /\ links = LinksOf(run)

PassInv == RunsInv /\ RowsInv /\ LinksInv

(* Links are of what a row shows: another row for the same result, or        *)
(* another status, has the same.                                             *)
LEMMA SameRanges ==
  ASSUME NEW old, NEW new, old.file = new.file, old.line = new.line, old.contract = new.contract,
         old.text = new.text, Cited(old) = Cited(new)
  PROVE  \A s : /\ overlaps(new, s) <=> overlaps(old, s)
                /\ mentionsStorageEntry(new, s) <=> mentionsStorageEntry(old, s)
<1>1. findingRanges(new) = findingRanges(old)
  <2>1. \A row : findingRanges(row) =
          {<<row.file, row.line>> : w \in {x \in {row} : row.file # "" /\ row.line # 0}}
          \cup {<<w.file, w.line>> : w \in {x \in Cited(row) : x.file # "" /\ x.line # 0}}
    BY DEF findingRanges, Cited
  <2> QED BY <2>1
<1>2. \A row : {e.item.text : e \in row.evidence} = {item.text : item \in Cited(row)}
  BY DEF Cited
<1>3. \A s : overlaps(new, s) <=> overlaps(old, s)
  BY <1>1 DEF overlaps
<1>4. {new.text} \cup {e.item.text : e \in new.evidence} = {old.text} \cup {e.item.text : e \in old.evidence}
  BY <1>2
<1>5. \A s : mentionsStorageEntry(new, s) <=> mentionsStorageEntry(old, s)
  BY <1>4 DEF mentionsStorageEntry
<1> QED BY <1>3, <1>5

LEMMA LinksStay ==
  ASSUME UNCHANGED build, DOMAIN rows' = DOMAIN rows,
         \A mark \in DOMAIN rows :
           \E found : Shows(rows[mark], found) /\ Shows(rows'[mark], found),
         NEW p
  PROVE  persistFindingCodeLinks(p, rows)' = persistFindingCodeLinks(p, rows)
<1>1. candidate' = candidate
  BY DEF candidate
<1>2. \A t : contractOf(t)' = contractOf(t)
  BY <1>1 DEF contractOf
<1>3. ASSUME NEW mark \in DOMAIN rows
      PROVE  \A s : /\ overlaps(rows'[mark], s) <=> overlaps(rows[mark], s)
                    /\ mentionsStorageEntry(rows'[mark], s) <=> mentionsStorageEntry(rows[mark], s)
  <2>1. PICK found : Shows(rows[mark], found) /\ Shows(rows'[mark], found)
    OBVIOUS
  <2> QED BY <2>1, SameRanges DEF Shows
<1>4. \A mark \in DOMAIN rows : \A s : linksTo(rows[mark], s)' <=> linksTo(rows[mark], s)
  BY <1>1, <1>2, <1>3 DEF linksTo
<1>5. {link \in (DOMAIN rows) \X ToSet(candidate.symbols) : linksTo(rows[link[1]], link[2])}'
      = {link \in (DOMAIN rows) \X ToSet(candidate.symbols) : linksTo(rows[link[1]], link[2])}
  BY <1>1, <1>2, <1>3 DEF linksTo
<1> QED BY <1>5 DEF persistFindingCodeLinks

(* What a completed run reported stays, and so do the job's artifacts.       *)
LEMMA RunsAreWritten ==
  ASSUME RunsInv, NEW i \in DOMAIN runs, NEW new, IsAnalyzerRun(new), new.analyzer = runs[i].analyzer,
         runs[i].status = "COMPLETED" => new.status = "COMPLETED" /\ new.output = runs[i].output,
         runs' = [runs EXCEPT ![i] = new], UNCHANGED job,
         kept' = [a \in Analyzers |-> kept'[a]],
         \A a \in Analyzers : kept'[a] = kept[a] \/ (kept'[a] = i /\ new.status = "COMPLETED")
  PROVE  RunsInv' /\ Artifacts' = Artifacts
<1> DEFINE Rows == {runs[j] : j \in DOMAIN runs} \cup {new}
<1>1. runs \in Seq(Rows) /\ DOMAIN runs = 1 .. Len(runs)
  <2>1. runs \in Seq({runs[j] : j \in DOMAIN runs})
    BY DEF RunsInv
  <2>2. runs \in Seq(Rows)
    BY <2>1, SeqMonotonic
  <2> QED BY <2>2, LenProperties
<1>2. /\ runs' \in Seq(Rows) /\ DOMAIN runs' = DOMAIN runs /\ runs'[i] = new
      /\ \A j \in DOMAIN runs \ {i} : runs'[j] = runs[j]
  <2>1. new \in Rows
    OBVIOUS
  <2>2. runs' \in Seq(Rows) /\ Len(runs') = Len(runs)
    BY <1>1, <2>1, ExceptSeq
  <2>3. DOMAIN runs' = DOMAIN runs
    BY <1>1, <2>2, LenProperties
  <2> QED BY <1>1, <2>2, <2>3
<1> HIDE DEF Rows
<1>3. runs' \in Seq({runs'[j] : j \in DOMAIN runs'})
  <2>1. PICK written : written = runs'
    OBVIOUS
  <2>2. written \in Seq(Rows)
    BY <1>2, <2>1
  <2>3. written \in Seq({written[j] : j \in DOMAIN written})
    BY ONLY <2>2, SeqOfOwn
  <2> QED BY ONLY <2>1, <2>3
<1>4. \A j \in DOMAIN job : /\ job[j] \in DOMAIN runs /\ runs'[job[j]].status = "COMPLETED"
                            /\ runs'[job[j]].analyzer = runs[job[j]].analyzer
                            /\ runs'[job[j]].output = runs[job[j]].output
  BY <1>2 DEF RunsInv
<1>5. RunsInv'
  <2>1. \A j \in DOMAIN runs' : IsAnalyzerRun(runs'[j])
    BY <1>2 DEF RunsInv
  <2>2. \A a \in Analyzers : kept'[a] # 0 => kept'[a] \in DOMAIN runs' /\ runs'[kept'[a]].status = "COMPLETED"
    BY <1>2 DEF RunsInv
  <2> QED BY <1>2, <1>3, <1>4, <2>1, <2>2 DEF RunsInv
<1> QED BY <1>4, <1>5 DEF Artifacts

LEMMA AnalyzerStepInv ==
  ASSUME RunsInv, AnalyzerStep
  PROVE  RunsInv' /\ (job = <<>> \/ (UNCHANGED job /\ Artifacts' = Artifacts)) /\ UNCHANGED <<passVars, build>>
<1>1. ASSUME NEW a \in Analyzers, startAnalyzerRun(a)
      PROVE  RunsInv' /\ UNCHANGED <<job, passVars, build>> /\ Artifacts' = Artifacts
  <2> DEFINE new == [analyzer |-> a, status |-> "RUNNING", output |-> <<>>, told |-> FALSE]
             Rows == {runs[j] : j \in DOMAIN runs} \cup {new}
  <2>1. runs' = Append(runs, new) /\ UNCHANGED <<kept, job, passVars, build>>
    BY <1>1 DEF startAnalyzerRun
  <2>2. runs \in Seq(Rows) /\ DOMAIN runs = 1 .. Len(runs) /\ Len(runs) \in Nat
    <3>1. runs \in Seq({runs[j] : j \in DOMAIN runs})
      BY DEF RunsInv
    <3>2. runs \in Seq(Rows)
      BY <3>1, SeqMonotonic
    <3> QED BY <3>2, LenProperties
  <2>3. /\ runs' \in Seq(Rows) /\ DOMAIN runs' = 1 .. Len(runs) + 1 /\ runs'[Len(runs) + 1] = new
        /\ \A j \in DOMAIN runs : runs'[j] = runs[j]
    <3>1. new \in Rows
      OBVIOUS
    <3>2. runs' \in Seq(Rows) /\ Len(runs') = Len(runs) + 1 /\ runs'[Len(runs) + 1] = new
          /\ \A j \in 1 .. Len(runs) : runs'[j] = runs[j]
      BY <2>1, <2>2, <3>1, AppendProperties
    <3>3. DOMAIN runs' = 1 .. Len(runs')
      BY <3>2, LenProperties
    <3> QED BY <2>2, <3>2, <3>3
  <2>4. runs' \in Seq({runs'[j] : j \in DOMAIN runs'})
    BY <2>3, SeqOfOwn
  <2>5. DOMAIN runs \subseteq DOMAIN runs' /\ \A j \in DOMAIN runs' : j \in DOMAIN runs \/ runs'[j] = new
    BY <2>2, <2>3
  <2>6. IsAnalyzerRun(new)
    BY DEF IsAnalyzerRun
  <2> HIDE DEF new, Rows
  <2>7. RunsInv'
    BY <2>1, <2>3, <2>4, <2>5, <2>6 DEF RunsInv
  <2>8. Artifacts' = Artifacts
    BY <2>1, <2>3 DEF RunsInv, Artifacts
  <2> QED BY <2>1, <2>7, <2>8
<1>2. ASSUME NEW i \in DOMAIN runs, NEW s, NEW output, finalizeAnalyzerRun(i, s, output)
      PROVE  RunsInv' /\ UNCHANGED <<job, passVars, build>> /\ Artifacts' = Artifacts
  <2> DEFINE new == [runs[i] EXCEPT !.status = s, !.output = output]
  <2>1. runs' = [runs EXCEPT ![i] = new] /\ UNCHANGED <<kept, job, passVars, build>> /\ runs[i].status = "RUNNING"
    BY <1>2 DEF finalizeAnalyzerRun
  <2>2. IsAnalyzerRun(runs[i])
    BY DEF RunsInv
  <2>3. IsAnalyzerRun(new) /\ new.analyzer = runs[i].analyzer
    BY <2>2 DEF IsAnalyzerRun
  <2> HIDE DEF new
  <2>4. kept' = [a \in Analyzers |-> kept'[a]] /\ \A a \in Analyzers : kept'[a] = kept[a]
    BY <2>1 DEF RunsInv
  <2> QED BY <2>1, <2>3, <2>4, RunsAreWritten
<1>3. ASSUME NEW i \in DOMAIN runs, recordAnalyzerCompletion(i)
      PROVE  RunsInv' /\ UNCHANGED <<job, passVars, build>> /\ Artifacts' = Artifacts
  <2> DEFINE new == [runs[i] EXCEPT !.told = TRUE]
  <2>1. /\ runs' = [runs EXCEPT ![i] = new] /\ UNCHANGED <<job, passVars, build>>
        /\ runs[i].status = "COMPLETED" /\ kept' = [kept EXCEPT ![runs[i].analyzer] = i]
    BY <1>3 DEF recordAnalyzerCompletion
  <2>2. IsAnalyzerRun(runs[i])
    BY DEF RunsInv
  <2>3. IsAnalyzerRun(new) /\ new.analyzer = runs[i].analyzer /\ new.status = "COMPLETED"
        /\ new.output = runs[i].output
    BY <2>1, <2>2 DEF IsAnalyzerRun
  <2> HIDE DEF new
  <2>4. kept' = [a \in Analyzers |-> kept'[a]] /\ \A a \in Analyzers : kept'[a] = kept[a] \/ kept'[a] = i
    BY <2>1 DEF RunsInv
  <2> QED BY <2>1, <2>3, <2>4, RunsAreWritten
<1>4. ASSUME NEW i \in DOMAIN runs, recordAnalyzerFailure(i)
      PROVE  RunsInv' /\ UNCHANGED <<job, passVars, build>> /\ Artifacts' = Artifacts
  <2> DEFINE new == [runs[i] EXCEPT !.told = TRUE]
  <2>1. runs' = [runs EXCEPT ![i] = new] /\ UNCHANGED <<kept, job, passVars, build>>
    BY <1>4 DEF recordAnalyzerFailure
  <2>2. IsAnalyzerRun(runs[i])
    BY DEF RunsInv
  <2>3. IsAnalyzerRun(new) /\ new.analyzer = runs[i].analyzer /\ new.status = runs[i].status
        /\ new.output = runs[i].output
    BY <2>1, <2>2 DEF IsAnalyzerRun
  <2> HIDE DEF new
  <2>4. kept' = [a \in Analyzers |-> kept'[a]] /\ \A a \in Analyzers : kept'[a] = kept[a]
    BY <2>1 DEF RunsInv
  <2> QED BY <2>1, <2>3, <2>4, RunsAreWritten
<1>5. CASE enqueueNormalize
  <2> DEFINE keys == {kept[a] : a \in {b \in Analyzers : kept[b] # 0}}
  <2>1. job = <<>> /\ job' \in SetToSeqs(keys) /\ UNCHANGED <<runs, kept, build, passVars>>
    BY <1>5 DEF enqueueNormalize
  <2>2. \A j \in DOMAIN job' : job'[j] \in keys
    <3> HIDE DEF keys
    <3> QED BY <2>1 DEF SetToSeqs
  <2>3. \A i \in keys : i \in DOMAIN runs /\ runs[i].status = "COMPLETED"
    BY DEF RunsInv
  <2> HIDE DEF keys
  <2>4. \A i \in DOMAIN job' : job'[i] \in DOMAIN runs' /\ runs'[job'[i]].status = "COMPLETED"
    BY <2>1, <2>2, <2>3
  <2>5. RunsInv'
    BY <2>1, <2>4 DEF RunsInv
  <2> QED BY <2>1, <2>5
<1> QED BY <1>1, <1>2, <1>3, <1>4, <1>5 DEF AnalyzerStep

LEMMA ResultsStay ==
  ASSUME Artifacts' = Artifacts
  PROVE  Results' = Results /\ Marks' = Marks /\ \A mark : ResultOf(mark)' = ResultOf(mark)
<1>1. Results' = Results
  BY DEF Results
<1> QED BY <1>1 DEF Marks, ResultOf

LEMMA WorkersRest ==
  ASSUME RunsInv, UNCHANGED workerVars
  PROVE  RunsInv' /\ UNCHANGED job /\ Artifacts' = Artifacts
BY DEF RunsInv, workerVars, Artifacts

(* Links follow when neither they nor what rows show changes.                *)
LEMMA LinksFollow ==
  ASSUME UNCHANGED <<build, rows>>, NEW run
  PROVE  LinksOf(run)' = LinksOf(run)
<1>1. candidate' = candidate
  BY DEF candidate
<1>2. \A t : contractOf(t)' = contractOf(t)
  BY <1>1 DEF contractOf
<1> QED BY <1>1, <1>2 DEF LinksOf, persistFindingCodeLinks, linksTo

LEMMA PassesRest ==
  ASSUME RowsInv, LinksInv, UNCHANGED <<normalized, pass, rows, irRuns, links, overlapped, build>>,
         job = <<>> \/ (UNCHANGED job /\ Artifacts' = Artifacts)
  PROVE  RowsInv' /\ LinksInv'
<1>1. RowsInv'
  <2>1. CASE job = <<>>
    BY <2>1 DEF RowsInv, At, Persisted
  <2>2. CASE UNCHANGED job /\ Artifacts' = Artifacts
    BY <2>2, ResultsStay DEF RowsInv, At
  <2> QED BY <2>1, <2>2
<1>2. LinksInv'
  BY LinksFollow DEF LinksInv, UnderWay, At
<1> QED BY <1>1, <1>2

(* One pass moves; the others are where they were.                           *)
LEMMA PassMoves ==
  ASSUME RowsInv, NEW p \in Passes, NEW c, pass' = [pass EXCEPT ![p] = c]
  PROVE  /\ pass' = [q \in Passes |-> pass'[q]] /\ pass'[p] = c
         /\ \A q \in Passes \ {p} : pass'[q] = pass[q]
BY DEF RowsInv

(* It moves without writing rows, runs or links.                             *)
LEMMA PassGoes ==
  ASSUME RunsInv, RowsInv, LinksInv, NEW p \in Passes, NEW c, pass' = [pass EXCEPT ![p] = c],
         c.at \in PassStates \ {"idle"}, job # <<>>,
         UNCHANGED <<workerVars, rows, irRuns, links, build>>, normalized' \in {normalized, Results},
         c.at = "persist" => normalized' = Results, c.at = "write" => c.found = Results,
         c.at \in Persisted => DOMAIN rows = Marks,
         ~ overlapped' => /\ ~ overlapped
                          /\ c.at \in {"failed", "done"} \/ UnderWay(p) \/ \A q \in Passes : ~ UnderWay(q),
         ~ overlapped => /\ c.at \in {"irRuns", "irCommit"} => c.links = links
                         /\ c.at = "irCommit" => c.irRuns = irRuns
  PROVE  PassInv'
<1>1. RunsInv' /\ UNCHANGED job /\ Artifacts' = Artifacts
  BY WorkersRest
<1>2. Results' = Results /\ Marks' = Marks /\ \A mark : ResultOf(mark)' = ResultOf(mark)
  BY <1>1, ResultsStay
<1>3. /\ pass' = [q \in Passes |-> pass'[q]] /\ pass'[p] = c
      /\ \A q \in Passes \ {p} : pass'[q] = pass[q]
  BY PassMoves
<1>4. RowsInv'
  <2>1. normalized' \in {{}, Results}
    BY DEF RowsInv
  <2>2. \A q \in Passes : /\ pass'[q].at \in PassStates
                          /\ pass'[q].at = "persist" => normalized' = Results
                          /\ pass'[q].at = "write" => pass'[q].found = Results
                          /\ pass'[q].at \in Persisted => DOMAIN rows = Marks
    BY <1>3 DEF RowsInv, At
  <2> QED BY <1>1, <1>2, <1>3, <2>1, <2>2 DEF RowsInv, At
<1>5. LinksInv'
  <2> SUFFICES ASSUME ~ overlapped' PROVE LinksInv'
    BY DEF LinksInv
  <2>1. \A q, r \in Passes : UnderWay(q)' /\ UnderWay(r)' => q = r
    BY <1>3 DEF LinksInv, UnderWay
  <2>2. \A q \in Passes : /\ pass'[q].at \in {"irRuns", "irCommit"} => pass'[q].links = links
                          /\ pass'[q].at = "irCommit" => pass'[q].irRuns = irRuns
    BY <1>3 DEF LinksInv, At
  <2>3. \/ irRuns = {} /\ links = {}
        \/ \E run \in irRuns : irRuns = {run} /\ links = LinksOf(run)
    BY DEF LinksInv
  <2>4. \A run : LinksOf(run)' = LinksOf(run)
    BY LinksFollow
  <2> QED BY <2>1, <2>2, <2>3, <2>4 DEF LinksInv, At
<1> QED BY <1>1, <1>4, <1>5 DEF PassInv

LEMMA Upserted ==
  ASSUME NEW p, NEW found, NEW old
  PROVE  Shows(upsertVulnerability(p, found, old), found)
<1> DEFINE row == toVulnerability(p, found, old)
<1>1. row.evidence = Evidence(p, found) /\ row.file = found.file /\ row.line = found.line
      /\ row.contract = found.contract /\ row.text = found.text
  BY DEF toVulnerability
<1>2. Cited(row) = {found.items[k] : k \in DOMAIN found.items}
  <2> DEFINE piece(k) == [id |-> <<p, found.fingerprint, k>>, item |-> found.items[k],
                          run |-> pass[p].newest[found.items[k].analyzer]]
  <2>1. Evidence(p, found) = {piece(k) : k \in DOMAIN found.items}
    BY DEF Evidence
  <2>2. \A k : piece(k).item = found.items[k]
    OBVIOUS
  <2> HIDE DEF row, piece
  <2> QED BY <1>1, <2>1, <2>2 DEF Cited
<1>3. IsRow(row)
  BY DEF IsRow, toVulnerability
<1> HIDE DEF row
<1>4. Shows(row, found)
  BY <1>1, <1>2, <1>3 DEF Shows
<1> QED BY <1>4 DEF upsertVulnerability, row

LEMMA PersistInv ==
  ASSUME PassInv, NEW p \in Passes, persistNormalizedVulnerabilities(p)
  PROVE  PassInv'
<1> DEFINE written == {found.fingerprint : found \in pass[p].found}
           of(mark) == CHOOSE found \in pass[p].found : found.fingerprint = mark
           row(mark) == IF mark \notin written THEN rows[mark]
                        ELSE upsertVulnerability(p, of(mark), {rows[mark] : m \in {mark} \cap DOMAIN rows})
<1>0. RunsInv /\ RowsInv /\ LinksInv
  BY DEF PassInv
<1>1. /\ At(p, "write") /\ rows' = [mark \in DOMAIN rows \cup written |-> row(mark)]
      /\ pass' = [pass EXCEPT ![p] = [at |-> "ir"]]
      /\ UNCHANGED <<normalized, irRuns, links, overlapped, workerVars, build>>
  BY DEF persistNormalizedVulnerabilities
<1>2. pass[p].found = Results
  BY <1>0, <1>1 DEF RowsInv
<1>3. written = Marks /\ \A mark : of(mark) = ResultOf(mark)
  BY <1>2 DEF Marks, ResultOf
<1>4. DOMAIN rows \cup written = Marks
  BY <1>0, <1>3 DEF RowsInv
<1>5. \A mark \in Marks : Shows(row(mark), ResultOf(mark))
  BY <1>3, Upserted
<1> HIDE DEF row, of, written
<1>6. /\ rows' = [mark \in DOMAIN rows' |-> rows'[mark]] /\ DOMAIN rows' = Marks
      /\ \A mark \in Marks : Shows(rows'[mark], ResultOf(mark))
  BY <1>1, <1>4, <1>5
<1>7. RunsInv' /\ UNCHANGED job /\ Artifacts' = Artifacts
  BY <1>0, <1>1, WorkersRest
<1>8. Results' = Results /\ Marks' = Marks /\ \A mark : ResultOf(mark)' = ResultOf(mark)
  BY <1>7, ResultsStay
<1>9. /\ pass' = [q \in Passes |-> pass'[q]] /\ pass'[p] = [at |-> "ir"]
      /\ \A q \in Passes \ {p} : pass'[q] = pass[q]
  BY <1>0, <1>1, PassMoves
<1>10. job # <<>>
  BY <1>0, <1>1 DEF RowsInv, At
<1>11. RowsInv'
  <2>1. \A q \in Passes : /\ pass'[q].at \in PassStates
                          /\ pass'[q].at = "persist" => normalized = Results
                          /\ pass'[q].at = "write" => pass'[q].found = Results
    BY <1>0, <1>9 DEF RowsInv, At, PassStates, Persisted
  <2> QED BY <1>0, <1>1, <1>6, <1>7, <1>8, <1>9, <1>10, <2>1 DEF RowsInv, At
<1>12. LinksInv'
  <2> SUFFICES ASSUME ~ overlapped PROVE LinksInv'
    BY <1>1 DEF LinksInv
  <2>1. \A q, r \in Passes : UnderWay(q)' /\ UnderWay(r)' => q = r
    BY <1>0, <1>1, <1>9 DEF LinksInv, UnderWay, At
  <2>2. \A q \in Passes : /\ pass'[q].at \in {"irRuns", "irCommit"} => pass'[q].links = links
                          /\ pass'[q].at = "irCommit" => pass'[q].irRuns = irRuns
    BY <1>0, <1>9 DEF LinksInv, At
  <2>3. ASSUME NEW run \in irRuns PROVE LinksOf(run)' = LinksOf(run)
    <3>1. DOMAIN rows = Marks
      BY <1>0, <2>3 DEF RowsInv
    <3>2. \A mark \in DOMAIN rows : Shows(rows[mark], ResultOf(mark)) /\ Shows(rows'[mark], ResultOf(mark))
      BY <1>0, <1>6, <3>1 DEF RowsInv
    <3>3. persistFindingCodeLinks(run.id, rows)' = persistFindingCodeLinks(run.id, rows)
      BY <1>1, <1>6, <3>1, <3>2, LinksStay
    <3> QED BY <3>3 DEF LinksOf
  <2> QED BY <1>0, <1>1, <2>1, <2>2, <2>3 DEF LinksInv, At
<1> QED BY <1>7, <1>11, <1>12 DEF PassInv

(* A verdict is no part of what a row shows.                                 *)
LEMMA ReviewedInv ==
  ASSUME PassInv, NEW mark \in DOMAIN rows, NEW s, reviewFinding(mark, s)
  PROVE  PassInv'
<1>0. RunsInv /\ RowsInv /\ LinksInv
  BY DEF PassInv
<1> DEFINE new == [rows[mark] EXCEPT !.status = s]
<1>1. /\ rows' = [rows EXCEPT ![mark] = new]
      /\ UNCHANGED <<normalized, pass, irRuns, links, overlapped, workerVars, build>>
  BY DEF reviewFinding
<1>2. Shows(new, ResultOf(mark))
  <2>1. Shows(rows[mark], ResultOf(mark))
    BY <1>0 DEF RowsInv
  <2>2. /\ IsRow(new) /\ new.file = rows[mark].file /\ new.line = rows[mark].line
        /\ new.contract = rows[mark].contract /\ new.text = rows[mark].text
        /\ new.evidence = rows[mark].evidence
    BY <2>1 DEF Shows, IsRow
  <2> HIDE DEF new
  <2> QED BY <2>1, <2>2 DEF Shows, Cited
<1> HIDE DEF new
<1>3. /\ rows' = [m \in DOMAIN rows' |-> rows'[m]] /\ DOMAIN rows' = DOMAIN rows
      /\ \A m \in DOMAIN rows : Shows(rows'[m], ResultOf(m))
  BY <1>0, <1>1, <1>2 DEF RowsInv
<1>4. RunsInv' /\ UNCHANGED job /\ Artifacts' = Artifacts
  BY <1>0, <1>1, WorkersRest
<1>5. Results' = Results /\ Marks' = Marks /\ \A m : ResultOf(m)' = ResultOf(m)
  BY <1>4, ResultsStay
<1>6. RowsInv'
  BY <1>0, <1>1, <1>3, <1>4, <1>5 DEF RowsInv, At
<1>7. \A run : LinksOf(run)' = LinksOf(run)
  <2>1. \A m \in DOMAIN rows : Shows(rows[m], ResultOf(m)) /\ Shows(rows'[m], ResultOf(m))
    BY <1>0, <1>3 DEF RowsInv
  <2>2. \A run : persistFindingCodeLinks(run.id, rows)' = persistFindingCodeLinks(run.id, rows)
    BY <1>1, <1>3, <2>1, LinksStay
  <2> QED BY <2>2 DEF LinksOf
<1>8. LinksInv'
  BY <1>0, <1>1, <1>7 DEF LinksInv, UnderWay, At
<1> QED BY <1>4, <1>6, <1>8 DEF PassInv

LEMMA PassStepInv ==
  ASSUME PassInv, NEW p \in Passes, PassStep(p)
  PROVE  PassInv'
<1>0. RunsInv /\ RowsInv /\ LinksInv
  BY DEF PassInv
<1>j. ~ At(p, "idle") => job # <<>>
  BY <1>0 DEF RowsInv
<1>1. CASE startPass(p)
  <2>1. /\ pass' = [pass EXCEPT ![p] = [at |-> "normalize"]] /\ job # <<>>
        /\ UNCHANGED <<workerVars, normalized, rows, irRuns, links, build>>
        /\ overlapped' = (overlapped \/ \E q \in Passes : UnderWay(q))
    BY <1>1 DEF startPass
  <2> QED BY <1>0, <2>1, PassGoes DEF PassStates, Persisted
<1>2. CASE normalizeArtifacts(p)
  <2>1. /\ pass' = [pass EXCEPT ![p] = [at |-> "persist"]] /\ At(p, "normalize") /\ normalized' = Results
        /\ UNCHANGED <<workerVars, rows, irRuns, links, overlapped, build>>
    BY <1>2 DEF normalizeArtifacts, Results
  <2> QED BY <1>0, <1>j, <2>1, PassGoes DEF PassStates, Persisted, At, UnderWay
<1>3. CASE readAnalyzerRuns(p)
  <2>1. /\ At(p, "persist") /\ UNCHANGED <<workerVars, normalized, rows, irRuns, links, overlapped, build>>
        /\ normalized = Results
    BY <1>0, <1>3 DEF readAnalyzerRuns, RowsInv
  <2>2. CASE normalized = {}
    <3>1. pass' = [pass EXCEPT ![p] = [at |-> "ir"]]
      BY <1>3, <2>2 DEF readAnalyzerRuns
    <3>2. DOMAIN rows = Marks
      BY <1>0, <2>1, <2>2 DEF RowsInv, Marks
    <3> QED BY <1>0, <1>j, <2>1, <3>1, <3>2, PassGoes DEF PassStates, Persisted, At, UnderWay
  <2>3. CASE normalized # {}
    <3> DEFINE c == [at |-> "write", newest |-> analyzerRunByAnalyzer, found |-> normalized]
    <3>1. pass' = [pass EXCEPT ![p] = c]
      BY <1>3, <2>3 DEF readAnalyzerRuns
    <3>2. c.at = "write" /\ c.found = Results
      BY <2>1
    <3> HIDE DEF c
    <3> QED BY <1>0, <1>j, <2>1, <3>1, <3>2, PassGoes DEF PassStates, Persisted, At, UnderWay
  <2> QED BY <2>2, <2>3
<1>4. CASE persistNormalizedVulnerabilities(p)
  BY <1>4, PersistInv
<1>5. CASE deleteFindingCodeLinks(p)
  <2>1. /\ pass' = [pass EXCEPT ![p] = [at |-> "irRuns", links |-> links]] /\ At(p, "ir")
        /\ UNCHANGED <<workerVars, normalized, rows, irRuns, links, overlapped, build>>
    BY <1>5 DEF deleteFindingCodeLinks
  <2>2. DOMAIN rows = Marks
    BY <1>0, <2>1 DEF RowsInv, At, Persisted
  <2> QED BY <1>0, <1>j, <2>1, <2>2, PassGoes DEF PassStates, Persisted, At, UnderWay
<1>6. CASE deleteIrRuns(p)
  <2>1. /\ pass' = [pass EXCEPT ![p] = [at |-> "irCommit", links |-> pass[p].links, irRuns |-> irRuns]]
        /\ At(p, "irRuns") /\ UNCHANGED <<workerVars, normalized, rows, irRuns, links, overlapped, build>>
    BY <1>6 DEF deleteIrRuns
  <2>2. DOMAIN rows = Marks /\ (~ overlapped => pass[p].links = links)
    BY <1>0, <2>1 DEF RowsInv, LinksInv, At, Persisted
  <2> QED BY <1>0, <1>j, <2>1, <2>2, PassGoes DEF PassStates, Persisted, At, UnderWay
<1>7. CASE replaceIrRun(p)
  <2>0. PICK run : run = [id |-> p, status |-> extractionStatus,
                          symbols |-> IF extractionStatus = "EXTRACTED" THEN persistSymbols ELSE {}]
    OBVIOUS
  <2>1. /\ pass' = [pass EXCEPT ![p] = [at |-> "enqueue"]] /\ At(p, "irCommit")
        /\ UNCHANGED <<workerVars, normalized, rows, overlapped, build>>
    BY <1>7 DEF replaceIrRun
  <2>2. DOMAIN rows = Marks
    BY <1>0, <2>1 DEF RowsInv, At, Persisted
  <2>3. RunsInv' /\ UNCHANGED job /\ Artifacts' = Artifacts
    BY <1>0, <2>1, WorkersRest
  <2>4. Results' = Results /\ Marks' = Marks /\ \A m : ResultOf(m)' = ResultOf(m)
    BY <2>3, ResultsStay
  <2>5. /\ pass' = [q \in Passes |-> pass'[q]] /\ pass'[p] = [at |-> "enqueue"]
        /\ \A q \in Passes \ {p} : pass'[q] = pass[q]
    BY <1>0, <2>1, PassMoves
  <2>6. RowsInv'
    <3>1. \A q \in Passes : /\ pass'[q].at \in PassStates
                            /\ pass'[q].at = "persist" => normalized = Results
                            /\ pass'[q].at = "write" => pass'[q].found = Results
      BY <1>0, <2>5 DEF RowsInv, At, PassStates, Persisted
    <3> QED BY <1>0, <1>j, <2>1, <2>2, <2>3, <2>4, <2>5, <3>1 DEF RowsInv, At
  <2>7. LinksInv'
    <3> SUFFICES ASSUME ~ overlapped PROVE LinksInv'
      BY <2>1 DEF LinksInv
    <3>1. /\ pass[p].links = links /\ pass[p].irRuns = irRuns
          /\ \A q \in Passes \ {p} : ~ UnderWay(q)
      BY <1>0, <2>1 DEF LinksInv, At, UnderWay
    <3>2. \A q, r \in Passes : UnderWay(q)' /\ UnderWay(r)' => q = r
      BY <2>5, <3>1 DEF UnderWay
    <3>3. \A q \in Passes : pass'[q].at \notin {"irRuns", "irCommit"}
      BY <2>5, <3>1 DEF UnderWay
    <3>4. irRuns' = {run}
      <4>1. irRuns' = {r \in irRuns : r.id \notin {g.id : g \in pass[p].irRuns}} \cup {run}
        BY <1>7, <2>0 DEF replaceIrRun
      <4> QED BY <3>1, <4>1
    <3>5. links' = IF extractionStatus = "EXTRACTED" THEN persistFindingCodeLinks(p, rows) ELSE {}
      <4>1. links \ pass[p].links = {}
        BY <3>1
      <4> QED BY <1>7, <4>1 DEF replaceIrRun
    <3>6. LinksOf(run)' = LinksOf(run)
      BY <2>1, LinksFollow
    <3>7. run.status = extractionStatus /\ run.id = p
      BY <2>0
    <3>8. LinksOf(run) = links'
      BY <3>5, <3>7 DEF LinksOf
    <3>9. \E r \in irRuns' : irRuns' = {r} /\ links' = LinksOf(r)'
      BY <3>4, <3>6, <3>8
    <3> QED BY <2>1, <3>2, <3>3, <3>9 DEF LinksInv, At
  <2> QED BY <2>3, <2>6, <2>7 DEF PassInv
<1>8. CASE enqueueRiskScore(p)
  <2>1. /\ pass' = [pass EXCEPT ![p] = [at |-> "done"]] /\ At(p, "enqueue")
        /\ UNCHANGED <<workerVars, normalized, rows, irRuns, links, overlapped, build>>
    BY <1>8 DEF enqueueRiskScore
  <2>2. DOMAIN rows = Marks
    BY <1>0, <2>1 DEF RowsInv, At, Persisted
  <2> QED BY <1>0, <1>j, <2>1, <2>2, PassGoes DEF PassStates, Persisted, At
<1>9. CASE PassFails(p)
  <2>1. /\ pass' = [pass EXCEPT ![p] = [at |-> "failed"]] /\ ~ At(p, "idle")
        /\ UNCHANGED <<workerVars, normalized, rows, irRuns, links, overlapped, build>>
    BY <1>9 DEF PassFails, UnderWay, At
  <2> QED BY <1>0, <1>j, <2>1, PassGoes DEF PassStates, Persisted
<1> QED BY <1>1, <1>2, <1>3, <1>4, <1>5, <1>6, <1>7, <1>8, <1>9 DEF PassStep

LEMMA PassInvariant == FindingSpec => []PassInv
<1>1. FindingInit => PassInv
  <2> SUFFICES ASSUME FindingInit PROVE PassInv
    OBVIOUS
  <2>1. RunsInv
    BY EmptySeq DEF FindingInit, RunsInv
  <2>2. RowsInv
    BY DEF FindingInit, RowsInv, At, Idle, PassStates, Persisted
  <2>3. LinksInv
    BY DEF FindingInit, LinksInv, UnderWay, At, Idle
  <2> QED BY <2>1, <2>2, <2>3 DEF PassInv
<1>2. ASSUME PassInv, UNCHANGED <<workerVars, normalized, pass, rows, irRuns, links, overlapped, build>>
      PROVE  PassInv'
  BY <1>2, WorkersRest, PassesRest DEF PassInv
<1>3. ASSUME PassInv, AnalyzerStep PROVE PassInv'
  BY <1>3, AnalyzerStepInv, PassesRest DEF PassInv, passVars
<1>4. ASSUME PassInv, NEW v \in Validations, ValidationStep(v) PROVE PassInv'
  <2>1. UNCHANGED <<build, workerVars, passVars>>
    BY <1>4 DEF ValidationStep, enqueueValidation, persistProviderNotConfigured, buildPack, createRunningRun,
         generateJson, persistFindingValidation, persistCritique, persistReviewNote, finalizeRun,
         persistUsage, failRun, WorkerCrashes, Writes, Stays
  <2> QED BY <1>2, <1>4, <2>1 DEF passVars
<1>5. PassInv /\ scoreRisk => PassInv'
  BY <1>2 DEF scoreRisk
<1>6. PassInv /\ UNCHANGED findingVars => PassInv'
  BY <1>2 DEF findingVars, passVars
<1>7. PassInv /\ [FindingNext]_findingVars => PassInv'
  BY <1>3, <1>4, <1>5, <1>6, PassStepInv, ReviewedInv DEF FindingNext
<1> QED BY <1>1, <1>7, PTL DEF FindingSpec

(* Unless passes overlapped, a scan has one IR run at most, and its links    *)
(* are those of the findings as they are (persistForScan of the analysis IR, *)
(* replaceWithExtractedRun): whichever passes fail in between, whatever they *)
(* leave, and whatever reviewers do to the findings.                         *)
THEOREM LinksAreOfRows == FindingSpec => []LinksMatchRows
<1>1. PassInv => LinksMatchRows
  <2> SUFFICES ASSUME PassInv, ~ overlapped
               PROVE  /\ Cardinality(irRuns) <= 1
                      /\ {link.ir : link \in links} \subseteq {run.id : run \in irRuns}
                      /\ \A run \in irRuns : run.status = "EXTRACTED"
                           => links = persistFindingCodeLinks(run.id, rows)
    BY DEF LinksMatchRows
  <2>1. CASE irRuns = {} /\ links = {}
    BY <2>1, FS_EmptySet
  <2>2. ASSUME NEW run \in irRuns, irRuns = {run}, links = LinksOf(run)
        PROVE  /\ Cardinality(irRuns) <= 1
               /\ {link.ir : link \in links} \subseteq {r.id : r \in irRuns}
               /\ \A r \in irRuns : r.status = "EXTRACTED" => links = persistFindingCodeLinks(r.id, rows)
    <3>1. Cardinality({run}) = 1
      BY FS_Singleton
    <3>2. \A link \in persistFindingCodeLinks(run.id, rows) : link.ir = run.id
      BY DEF persistFindingCodeLinks
    <3> QED BY <2>2, <3>1, <3>2 DEF LinksOf
  <2> QED BY <2>1, <2>2 DEF PassInv, LinksInv
<1> QED BY <1>1, PassInvariant, PTL

-----------------------------------------------------------------------------
(* FindingEvidence: what the rows hold. First what the parsers make of an    *)
(* issue, then which findings are one, then what the rows keep of them.      *)

(* What a finding of analyzer a shows of the issue x it is read from.        *)
Parsers == {"slither", "mythril", "semgrep", "aderyn"}
CategoryOf(a, x) == classifyCategory(IF a = "mythril" THEN x.swcIds ELSE <<>>, x.matched)
NamedContract(a, x) == IF a = "semgrep" THEN "" ELSE x.contract
PlaceOf(a, x) == <<CategoryOf(a, x), x.file, x.rule, NamedContract(a, x), x.line>>
MarkOf(a, x) ==
  IF a = "semgrep" /\ x.given # "" THEN <<x.given>>
  ELSE <<a, x.rule, CategoryOf(a, x), x.file, NamedContract(a, x), x.line>>

WeightOf(a, x) ==
  IF x.file # "" /\ x.line # 0
  THEN IF a = "slither" THEN 80 ELSE IF a = "mythril" THEN 76 ELSE IF a = "semgrep" THEN 78 ELSE 74
  ELSE IF a = "slither" THEN 48 ELSE IF a = "mythril" THEN 46 ELSE IF a = "semgrep" THEN 48 ELSE 44
ItemOf(a, key, x) ==
  Item("ANALYZER", a, key, x, x.text, IF a = "slither" THEN FALSE ELSE x.snippet, WeightOf(a, x))
TraceOf(a, key, x) == Item("TRACE", a, key, x, "trace", FALSE, 12)
EvidenceOf(a, key, x) ==
  IF a = "mythril" /\ x.trace THEN <<ItemOf(a, key, x), TraceOf(a, key, x)>> ELSE <<ItemOf(a, key, x)>>

IsFinding(f) ==
  f \in [analyzer : {f.analyzer}, rule : {f.rule}, text : {f.text}, category : {f.category},
         severity : {f.severity}, confidence : {f.confidence}, file : {f.file}, contract : {f.contract},
         line : {f.line}, fingerprint : {f.fingerprint}, dedupeKey : {f.dedupeKey}, items : {f.items}]

ReadFrom(f, a, key, x) ==
  /\ f.analyzer = a /\ f.rule = x.rule /\ f.text = x.text /\ f.file = x.file /\ f.line = x.line
  /\ f.contract = NamedContract(a, x) /\ f.dedupeKey = PlaceOf(a, x) /\ f.fingerprint = MarkOf(a, x)
  /\ f.items = EvidenceOf(a, key, x)

(* Every parser does.                                                        *)
LEMMA SemgrepParser ==
  ASSUME NEW key, NEW x, x = [l \in IssueFields |-> x[l]]
  PROVE  ReadFrom(semgrepResult(key, x), "semgrep", key, x)
<1> DEFINE y == [x EXCEPT !.contract = ""]
           confidence == normalizeConfidence(x.confidence)
           f == Parsed("semgrep", key, y, CategoryOf("semgrep", x), confidence, x.snippet, <<78, 48>>)
<1>1. /\ y.rule = x.rule /\ y.text = x.text /\ y.severity = x.severity /\ y.file = x.file /\ y.line = x.line
      /\ y.contract = ""
  BY DEF IssueFields
<1>2. /\ f.analyzer = "semgrep" /\ f.rule = x.rule /\ f.text = x.text /\ f.file = x.file /\ f.line = x.line
      /\ f.contract = "" /\ f.dedupeKey = PlaceOf("semgrep", x)
      /\ f.fingerprint = <<"semgrep", x.rule, CategoryOf("semgrep", x), x.file, "", x.line>>
      /\ f.items = <<ItemOf("semgrep", key, x)>>
  <2> HIDE DEF y
  <2> QED BY ZenonT(60), <1>1 DEF Parsed, createDedupeKey, createFindingFingerprint, NamedContract, PlaceOf, ItemOf, Item,
                                WeightOf
<1>3. IsFinding(f)
  BY DEF Parsed, IsFinding
<1>4. semgrepResult(key, x) = IF x.given = "" THEN f ELSE [f EXCEPT !.fingerprint = <<x.given>>]
  BY DEF semgrepResult, CategoryOf
<1> HIDE DEF f
<1>5. CASE x.given = ""
  BY <1>2, <1>4, <1>5 DEF ReadFrom, NamedContract, MarkOf, EvidenceOf
<1>6. CASE x.given # ""
  <2> DEFINE g == [f EXCEPT !.fingerprint = <<x.given>>]
  <2>1. /\ g.fingerprint = <<x.given>> /\ g.analyzer = f.analyzer /\ g.rule = f.rule /\ g.text = f.text
        /\ g.file = f.file /\ g.line = f.line /\ g.contract = f.contract /\ g.dedupeKey = f.dedupeKey
        /\ g.items = f.items
    BY <1>3 DEF IsFinding
  <2> HIDE DEF g
  <2>2. semgrepResult(key, x) = g
    BY <1>4, <1>6 DEF g
  <2> QED BY <1>2, <1>6, <2>1, <2>2 DEF ReadFrom, NamedContract, MarkOf, EvidenceOf
<1> QED BY <1>5, <1>6

LEMMA AppendOne ==
  ASSUME NEW a, NEW b
  PROVE  Append(<<a>>, b) = <<a, b>>
<1>1. <<a>> \in Seq({a, b}) /\ b \in {a, b} /\ Len(<<a>>) = 1 /\ <<a>>[1] = a
  OBVIOUS
<1>2. PICK s : s = Append(<<a>>, b)
  OBVIOUS
<1>3. s \in Seq({a, b}) /\ Len(s) = 2 /\ s[1] = a /\ s[2] = b
  BY <1>1, <1>2, AppendProperties
<1>4. s = [i \in 1 .. 2 |-> s[i]]
  BY <1>3
<1>5. <<a, b>> = [i \in 1 .. 2 |-> <<a, b>>[i]] /\ <<a, b>>[1] = a /\ <<a, b>>[2] = b
  OBVIOUS
<1>6. \A i \in 1 .. 2 : s[i] = <<a, b>>[i]
  <2>1. \A i \in 1 .. 2 : i = 1 \/ i = 2
    OBVIOUS
  <2> QED BY <1>3, <1>5, <2>1
<1> QED BY <1>2, <1>4, <1>5, <1>6

LEMMA MythrilParser ==
  ASSUME NEW key, NEW x
  PROVE  ReadFrom(mythrilIssue(key, x), "mythril", key, x)
<1>0. PICK confidence : confidence =
        CASE x.confidence = "" -> IF x.trace THEN "HIGH" ELSE "MEDIUM"
          [] x.confidence \in {"high", "confirmed", "medium"} -> normalizeConfidence(x.confidence)
          [] OTHER -> "LOW"
  OBVIOUS
<1> DEFINE f == Parsed("mythril", key, x, CategoryOf("mythril", x), confidence, x.snippet, <<76, 46>>)
           trace == TraceOf("mythril", key, x)
<1>2. /\ f.analyzer = "mythril" /\ f.rule = x.rule /\ f.text = x.text /\ f.file = x.file /\ f.line = x.line
      /\ f.contract = x.contract /\ f.dedupeKey = PlaceOf("mythril", x)
      /\ f.fingerprint = MarkOf("mythril", x)
      /\ f.items = <<ItemOf("mythril", key, x)>>
  BY DEF Parsed, createDedupeKey, createFindingFingerprint,
           NamedContract, PlaceOf, MarkOf, ItemOf, WeightOf
<1>3. IsFinding(f)
  BY DEF Parsed, IsFinding
<1>4. mythrilIssue(key, x) = IF x.trace THEN [f EXCEPT !.items = Append(@, trace)] ELSE f
  BY ZenonT(60), <1>0 DEF mythrilIssue, CategoryOf, TraceOf
<1> HIDE DEF f
<1>6. CASE ~ x.trace
  BY <1>2, <1>4, <1>6 DEF ReadFrom, NamedContract, EvidenceOf
<1>7. CASE x.trace
  <2> DEFINE g == [f EXCEPT !.items = Append(@, trace)]
  <2>0. Append(f.items, trace) = <<ItemOf("mythril", key, x), TraceOf("mythril", key, x)>>
    BY <1>2, AppendOne
  <2>1. /\ g.items = Append(f.items, trace) /\ g.analyzer = f.analyzer /\ g.rule = f.rule /\ g.text = f.text
        /\ g.file = f.file /\ g.line = f.line /\ g.contract = f.contract /\ g.dedupeKey = f.dedupeKey
        /\ g.fingerprint = f.fingerprint
    BY <1>3 DEF IsFinding
  <2> HIDE DEF g
  <2>2. mythrilIssue(key, x) = g
    BY <1>4, <1>7 DEF g
  <2> QED BY <1>2, <1>7, <2>0, <2>1, <2>2 DEF ReadFrom, NamedContract, EvidenceOf
<1> QED BY <1>6, <1>7

LEMMA Parses ==
  ASSUME NEW art, art.analyzer \in Parsers, NEW j \in DOMAIN art.output,
         art.output[j] = [l \in IssueFields |-> art.output[j][l]]
  PROVE  /\ DOMAIN findingsOf(art) = DOMAIN art.output
         /\ ReadFrom(findingsOf(art)[j], art.analyzer, art.key, art.output[j])
<1> DEFINE x == art.output[j]
<1>0. /\ DOMAIN findingsOf(art) = DOMAIN art.output
      /\ findingsOf(art)[j] =
           CASE art.analyzer = "slither" -> slitherDetector(art.key, x)
             [] art.analyzer = "mythril" -> mythrilIssue(art.key, x)
             [] art.analyzer = "semgrep" -> semgrepResult(art.key, x)
             [] art.analyzer = "aderyn" -> aderynIssue(art.key, x)
  BY DEF findingsOf, Parsers
<1>x. x = [l \in IssueFields |-> x[l]]
  OBVIOUS
<1> HIDE DEF x
<1>1. CASE art.analyzer = "slither"
  <2> DEFINE f == slitherDetector(art.key, x)
  <2>2. f = Parsed("slither", art.key, x, CategoryOf("slither", x), normalizeConfidence(x.confidence), FALSE, <<80, 48>>)
    BY DEF slitherDetector, CategoryOf
  <2> HIDE DEF f
  <2>3. /\ f.analyzer = "slither" /\ f.rule = x.rule /\ f.text = x.text /\ f.file = x.file /\ f.line = x.line
        /\ f.contract = NamedContract("slither", x) /\ f.dedupeKey = PlaceOf("slither", x)
        /\ f.fingerprint = MarkOf("slither", x) /\ f.items = <<ItemOf("slither", art.key, x)>>
    BY <2>2 DEF Parsed, createDedupeKey, createFindingFingerprint,
           NamedContract, PlaceOf, MarkOf, ItemOf, WeightOf
  <2>1. ReadFrom(f, "slither", art.key, x)
    BY <2>3 DEF ReadFrom, EvidenceOf
  <2> QED BY <1>0, <1>1, <2>1 DEF f, x
<1>2. CASE art.analyzer = "aderyn"
  <2> DEFINE f == aderynIssue(art.key, x)
  <2>2. f = Parsed("aderyn", art.key, x, CategoryOf("aderyn", x), normalizeConfidence(x.confidence), x.snippet, <<74, 44>>)
    BY DEF aderynIssue, CategoryOf
  <2> HIDE DEF f
  <2>3. /\ f.analyzer = "aderyn" /\ f.rule = x.rule /\ f.text = x.text /\ f.file = x.file /\ f.line = x.line
        /\ f.contract = NamedContract("aderyn", x) /\ f.dedupeKey = PlaceOf("aderyn", x)
        /\ f.fingerprint = MarkOf("aderyn", x) /\ f.items = <<ItemOf("aderyn", art.key, x)>>
    BY <2>2 DEF Parsed, createDedupeKey, createFindingFingerprint,
           NamedContract, PlaceOf, MarkOf, ItemOf, WeightOf
  <2>1. ReadFrom(f, "aderyn", art.key, x)
    BY <2>3 DEF ReadFrom, EvidenceOf
  <2> QED BY <1>0, <1>2, <2>1 DEF f, x
<1>3. CASE art.analyzer = "semgrep"
  BY <1>0, <1>x, <1>3, SemgrepParser DEF x
<1>4. CASE art.analyzer = "mythril"
  BY <1>0, <1>4, MythrilParser DEF x
<1> QED BY <1>1, <1>2, <1>3, <1>4 DEF Parsers

(* The order of the places has a first of every set of them, and one of two  *)
(* different items is before the other.                                      *)
LEMMA LeastNumber ==
  ASSUME NEW S \in SUBSET Nat, S # {}
  PROVE  \E x \in S : \A y \in S : x <= y
<1>1. PICK R : R = OpToRel(<, Nat)
  OBVIOUS
<1>2. R = {p \in Nat \X Nat : p[1] < p[2]}
  BY <1>1, Zenon DEF OpToRel
<1>3. IsWellFoundedOn(R, Nat)
  BY <1>1, NatLessThanWellFounded
<1>4. PICK x \in S : \A y \in S : ~(<<y, x>> \in R)
  BY <1>3, WFMin
<1>5. ASSUME NEW y \in S PROVE x <= y
  <2>1. x \in Nat /\ y \in Nat /\ <<y, x>> \notin R
    BY <1>4
  <2>2. ~(y < x)
    BY <1>2, <2>1
  <2> QED BY <2>1, <2>2
<1> QED BY <1>5

LEMMA BeforePair ==
  ASSUME NEW p \in Nat \X Nat, NEW q \in Nat \X Nat
  PROVE  Before(p, q) <=> p[1] < q[1] \/ (p[1] = q[1] /\ p[2] < q[2])
<1>1. DOMAIN p = {1, 2}
  OBVIOUS
<1>2. 1 .. 1 - 1 = {} /\ 1 .. 2 - 1 = {1}
  OBVIOUS
<1> QED BY <1>1, <1>2 DEF Before

LEMMA BeforeTriple ==
  ASSUME NEW p \in Nat \X Nat \X Nat, NEW q \in Nat \X Nat \X Nat
  PROVE  Before(p, q) <=> \/ p[1] < q[1] \/ (p[1] = q[1] /\ p[2] < q[2])
                          \/ p[1] = q[1] /\ p[2] = q[2] /\ p[3] < q[3]
<1>1. DOMAIN p = {1, 2, 3}
  OBVIOUS
<1>2. 1 .. 1 - 1 = {} /\ 1 .. 2 - 1 = {1} /\ 1 .. 3 - 1 = {1, 2}
  OBVIOUS
<1> QED BY <1>1, <1>2 DEF Before

LEMMA FirstPair ==
  ASSUME NEW S \in SUBSET (Nat \X Nat), S # {}
  PROVE  \E p \in S : \A q \in S : ~ Before(q, p)
<1>1. PICK i \in {p[1] : p \in S} : \A j \in {p[1] : p \in S} : i <= j
  <2>1. {p[1] : p \in S} \in SUBSET Nat /\ {p[1] : p \in S} # {}
    OBVIOUS
  <2> QED BY <2>1, LeastNumber
<1> DEFINE T == {p \in S : p[1] = i}
<1>2. PICK k \in {p[2] : p \in T} : \A j \in {p[2] : p \in T} : k <= j
  <2>1. {p[2] : p \in T} \in SUBSET Nat /\ {p[2] : p \in T} # {}
    BY <1>1
  <2> QED BY <2>1, LeastNumber
<1>3. PICK p \in S : p[1] = i /\ p[2] = k
  BY <1>2
<1>4. ASSUME NEW q \in S PROVE ~ Before(q, p)
  <2>1. p \in Nat \X Nat /\ q \in Nat \X Nat
    OBVIOUS
  <2>2. p[1] <= q[1] /\ (q[1] = p[1] => p[2] <= q[2])
    BY <1>1, <1>2, <1>3
  <2>3. ~ (q[1] < p[1]) /\ ~ (q[1] = p[1] /\ q[2] < p[2])
    BY <2>1, <2>2
  <2> QED BY <2>1, <2>3, BeforePair
<1> QED BY <1>4

LEMMA FirstTriple ==
  ASSUME NEW S \in SUBSET (Nat \X Nat \X Nat), S # {}
  PROVE  \E p \in S : \A q \in S : ~ Before(q, p)
<1>1. PICK i \in {p[1] : p \in S} : \A j \in {p[1] : p \in S} : i <= j
  <2>1. {p[1] : p \in S} \in SUBSET Nat /\ {p[1] : p \in S} # {}
    OBVIOUS
  <2> QED BY <2>1, LeastNumber
<1> DEFINE T == {p \in S : p[1] = i}
<1>2. PICK k \in {p[2] : p \in T} : \A j \in {p[2] : p \in T} : k <= j
  <2>1. {p[2] : p \in T} \in SUBSET Nat /\ {p[2] : p \in T} # {}
    BY <1>1
  <2> QED BY <2>1, LeastNumber
<1> DEFINE U == {p \in T : p[2] = k}
<1>3. PICK l \in {p[3] : p \in U} : \A j \in {p[3] : p \in U} : l <= j
  <2>1. {p[3] : p \in U} \in SUBSET Nat /\ {p[3] : p \in U} # {}
    BY <1>2
  <2> QED BY <2>1, LeastNumber
<1>4. PICK p \in S : p[1] = i /\ p[2] = k /\ p[3] = l
  BY <1>3
<1>5. ASSUME NEW q \in S PROVE ~ Before(q, p)
  <2>1. p \in Nat \X Nat \X Nat /\ q \in Nat \X Nat \X Nat
    OBVIOUS
  <2>2. p[1] <= q[1]
    BY <1>1, <1>4
  <2>3. q[1] = p[1] => p[2] <= q[2]
    BY <1>2, <1>4
  <2>4. q[1] = p[1] /\ q[2] = p[2] => p[3] <= q[3]
    BY <1>3, <1>4
  <2>5. ~ (q[1] < p[1]) /\ ~ (q[1] = p[1] /\ q[2] < p[2]) /\ ~ (q[1] = p[1] /\ q[2] = p[2] /\ q[3] < p[3])
    BY <2>1, <2>2, <2>3, <2>4
  <2> QED BY <2>1, <2>5, BeforeTriple
<1> QED BY <1>5

LEMMA OneIsBefore ==
  ASSUME NEW p \in Nat \X Nat \X Nat, NEW q \in Nat \X Nat \X Nat, p # q
  PROVE  Before(p, q) \/ Before(q, p)
<1>1. p[1] # q[1] \/ p[2] # q[2] \/ p[3] # q[3]
  OBVIOUS
<1> QED BY <1>1, BeforeTriple

-----------------------------------------------------------------------------
(* The artifacts that a job can have: of different runs of different         *)
(* analyzers, each with issues that its tool tells apart.                    *)
Lawful(A) ==
  /\ IsFiniteSet(DOMAIN A) /\ DOMAIN A \subseteq Nat
  /\ \A i \in DOMAIN A :
       /\ A[i].analyzer \in Parsers \cup {"foundry"}
       /\ A[i].output \in Seq(Issues(A[i].output)) /\ TellsApart(A[i].analyzer, A[i].output)
  /\ \A i, j \in DOMAIN A : A[i].analyzer = A[j].analyzer \/ A[i].key = A[j].key => i = j

IssueOf(A, p) == A[p[1]].output[p[2]]
ToolOf(A, p) == A[p[1]].analyzer
Exact(f) == <<f.analyzer, f.rule, f.file, f.contract, f.line, f.text>>
ItemKey(t) == <<t.type, t.key, t.rule, t.file, t.line, t.text>>

(* The findings of the artifacts, by their places.                           *)
LEMMA FindingsAre ==
  ASSUME NEW A, Lawful(A), NEW p \in DOMAIN allFindings(A)
  PROVE  /\ p \in Nat \X Nat /\ p[1] \in DOMAIN A /\ p[2] \in DOMAIN A[p[1]].output
         /\ ToolOf(A, p) \in Parsers
         /\ allFindings(A)[p] = findingsOf(A[p[1]])[p[2]]
         /\ ReadFrom(allFindings(A)[p], ToolOf(A, p), A[p[1]].key, IssueOf(A, p))
<1>1. PICK i \in DOMAIN A : \E j \in DOMAIN findingsOf(A[i]) : p = <<i, j>>
  BY DEF allFindings
<1>2. PICK j \in DOMAIN findingsOf(A[i]) : p = <<i, j>>
  BY <1>1
<1>3. p[1] = i /\ p[2] = j /\ allFindings(A)[p] = findingsOf(A[i])[j]
  BY <1>2 DEF allFindings
<1>4. A[i].analyzer # "foundry"
  BY <1>2 DEF findingsOf
<1>5. A[i].analyzer \in Parsers
  BY <1>4 DEF Lawful
<1>6. DOMAIN findingsOf(A[i]) = DOMAIN A[i].output
  BY <1>4 DEF findingsOf
<1>7. A[i].output \in Seq(Issues(A[i].output))
  BY DEF Lawful
<1>8. j \in Nat /\ A[i].output[j] \in Issues(A[i].output)
  BY <1>6, <1>7, ElementOfSeq, LenProperties
<1>9. A[i].output[j] = [l \in IssueFields |-> A[i].output[j][l]]
  BY <1>8 DEF Issues
<1>10. ReadFrom(findingsOf(A[i])[j], A[i].analyzer, A[i].key, A[i].output[j])
  BY <1>5, <1>6, <1>9, Parses
<1> QED BY <1>2, <1>3, <1>5, <1>6, <1>8, <1>10 DEF Lawful, ToolOf, IssueOf

Twins(a, x, y) ==
  /\ x.rule = y.rule /\ x.file = y.file /\ x.line = y.line /\ x.text = y.text
  /\ a = "semgrep" \/ x.contract = y.contract
Alike(x, y) == x.matched = y.matched /\ x.swcIds = y.swcIds /\ x.trace = y.trace /\ x.snippet = y.snippet
Namesakes(a, b, x, y) == a = "semgrep" /\ b = "semgrep" /\ x.given = y.given /\ x.given # ""
Together(x, y) == x.rule = y.rule /\ x.file = y.file /\ x.line = y.line /\ x.matched = y.matched

(* What the hypothesis on the tools says of two issues.                      *)
LEMMA ToldApart ==
  ASSUME NEW a, NEW output, TellsApart(a, output), NEW j \in DOMAIN output, NEW k \in DOMAIN output
  PROVE  /\ Twins(a, output[j], output[k]) => Alike(output[j], output[k])
         /\ Namesakes(a, a, output[j], output[k]) => Together(output[j], output[k])
BY DEF TellsApart, Twins, Alike, Namesakes, Together

(* A duplicate that is suppressed has the place and the evidence of the      *)
(* finding that is kept.                                                     *)
LEMMA DuplicatesAgree ==
  ASSUME NEW A, Lawful(A), NEW p \in DOMAIN allFindings(A), NEW q \in DOMAIN allFindings(A),
         Exact(allFindings(A)[p]) = Exact(allFindings(A)[q])
  PROVE  /\ allFindings(A)[p].dedupeKey = allFindings(A)[q].dedupeKey
         /\ allFindings(A)[p].items = allFindings(A)[q].items
<1>x. PICK x, y, a, k, f, g : /\ x = IssueOf(A, p) /\ y = IssueOf(A, q) /\ a = ToolOf(A, p)
                              /\ k = A[p[1]].key /\ f = allFindings(A)[p] /\ g = allFindings(A)[q]
  OBVIOUS
<1>1. /\ p[1] \in DOMAIN A /\ p[2] \in DOMAIN A[p[1]].output /\ ReadFrom(f, a, k, x)
      /\ q[1] \in DOMAIN A /\ q[2] \in DOMAIN A[q[1]].output /\ ReadFrom(g, ToolOf(A, q), A[q[1]].key, y)
  BY <1>x, FindingsAre
<1>2. /\ f.analyzer = g.analyzer /\ f.rule = g.rule /\ f.file = g.file /\ f.contract = g.contract
      /\ f.line = g.line /\ f.text = g.text
  BY <1>x DEF Exact
<1>3. ToolOf(A, q) = a
  BY <1>1, <1>2 DEF ReadFrom
<1>4. p[1] = q[1]
  BY <1>x, <1>1, <1>3 DEF Lawful, ToolOf
<1>5. TellsApart(a, A[p[1]].output)
  BY <1>x, <1>1 DEF Lawful, ToolOf
<1>6. /\ x.rule = y.rule /\ x.file = y.file /\ x.line = y.line /\ x.text = y.text
      /\ NamedContract(a, x) = NamedContract(a, y)
  BY <1>1, <1>2, <1>3 DEF ReadFrom
<1>7. a = "semgrep" \/ x.contract = y.contract
  BY <1>6 DEF NamedContract
<1>t. Twins(a, x, y)
  BY <1>6, <1>7 DEF Twins
<1>8. Alike(x, y)
  <2>1. x = A[p[1]].output[p[2]] /\ y = A[p[1]].output[q[2]] /\ q[2] \in DOMAIN A[p[1]].output
    BY <1>x, <1>1, <1>4 DEF IssueOf
  <2>2. p[2] \in DOMAIN A[p[1]].output
    BY <1>1
  <2> QED BY <1>5, <1>t, <2>1, <2>2, ToldApart
<1>9. CategoryOf(a, x) = CategoryOf(a, y) /\ WeightOf(a, x) = WeightOf(a, y)
  BY <1>6, <1>8 DEF Alike, CategoryOf, WeightOf
<1>10. PlaceOf(a, x) = PlaceOf(a, y)
  BY <1>6, <1>9 DEF PlaceOf
<1>11. EvidenceOf(a, k, x) = EvidenceOf(a, k, y)
  BY <1>6, <1>8, <1>9 DEF Alike, EvidenceOf, ItemOf, TraceOf, Item
<1>12. ReadFrom(g, a, k, y)
  BY <1>x, <1>1, <1>3, <1>4
<1>13. f.dedupeKey = g.dedupeKey /\ f.items = g.items
  BY <1>1, <1>10, <1>11, <1>12 DEF ReadFrom
<1> QED BY <1>x, <1>13

(* Findings with one fingerprint have one place.                             *)
LEMMA SameMark ==
  ASSUME NEW a, NEW b, NEW x, NEW y, MarkOf(a, x) = MarkOf(b, y)
  PROVE  Namesakes(a, b, x, y) \/ PlaceOf(a, x) = PlaceOf(b, y)
<1>3. \A u, v1, v2, v3, v4, v5, v6 : <<u>> # <<v1, v2, v3, v4, v5, v6>>
  OBVIOUS
<1>4. \A u, v : <<u>> = <<v>> => u = v
  <2> SUFFICES ASSUME NEW u, NEW v, <<u>> = <<v>> PROVE u = v
    OBVIOUS
  <2>1. <<u>>[1] = u /\ <<v>>[1] = v
    OBVIOUS
  <2> QED BY <2>1
<1>5. CASE a = "semgrep" /\ x.given # ""
  <2>1. MarkOf(a, x) = <<x.given>>
    BY <1>5 DEF MarkOf
  <2>2. b = "semgrep" /\ y.given # "" /\ MarkOf(b, y) = <<y.given>>
    BY <1>3, <2>1 DEF MarkOf
  <2>3. <<x.given>> = <<y.given>>
    BY <2>1, <2>2, Zenon
  <2>4. x.given = y.given
    BY <1>4, <2>3, Zenon
  <2> QED BY <1>5, <2>2, <2>4 DEF Namesakes
<1>6. CASE ~ (a = "semgrep" /\ x.given # "")
  <2>1. MarkOf(a, x) = <<a, x.rule, CategoryOf(a, x), x.file, NamedContract(a, x), x.line>>
    BY <1>6 DEF MarkOf
  <2>2. MarkOf(b, y) = <<b, y.rule, CategoryOf(b, y), y.file, NamedContract(b, y), y.line>>
    BY <1>3, <2>1 DEF MarkOf
  <2>3. /\ MarkOf(a, x)[2] = x.rule /\ MarkOf(a, x)[3] = CategoryOf(a, x) /\ MarkOf(a, x)[4] = x.file
        /\ MarkOf(a, x)[5] = NamedContract(a, x) /\ MarkOf(a, x)[6] = x.line
    BY <2>1
  <2>4. /\ MarkOf(b, y)[2] = y.rule /\ MarkOf(b, y)[3] = CategoryOf(b, y) /\ MarkOf(b, y)[4] = y.file
        /\ MarkOf(b, y)[5] = NamedContract(b, y) /\ MarkOf(b, y)[6] = y.line
    BY <2>2
  <2> QED BY <2>3, <2>4 DEF PlaceOf
<1> QED BY <1>5, <1>6

LEMMA MarksAgree ==
  ASSUME NEW A, Lawful(A), NEW p \in DOMAIN allFindings(A), NEW q \in DOMAIN allFindings(A),
         allFindings(A)[p].fingerprint = allFindings(A)[q].fingerprint
  PROVE  allFindings(A)[p].dedupeKey = allFindings(A)[q].dedupeKey
<1>x. PICK x, y, a, b, f, g : /\ x = IssueOf(A, p) /\ y = IssueOf(A, q) /\ a = ToolOf(A, p) /\ b = ToolOf(A, q)
                              /\ f = allFindings(A)[p] /\ g = allFindings(A)[q]
  OBVIOUS
<1>1. /\ p[1] \in DOMAIN A /\ p[2] \in DOMAIN A[p[1]].output /\ ReadFrom(f, a, A[p[1]].key, x)
      /\ q[1] \in DOMAIN A /\ q[2] \in DOMAIN A[q[1]].output /\ ReadFrom(g, b, A[q[1]].key, y)
  BY <1>x, FindingsAre
<1>2. MarkOf(a, x) = MarkOf(b, y) /\ f.dedupeKey = PlaceOf(a, x) /\ g.dedupeKey = PlaceOf(b, y)
  BY <1>x, <1>1 DEF ReadFrom
<1>3. CASE Namesakes(a, b, x, y)
  <2>0. a = b
    BY <1>3 DEF Namesakes
  <2>1. p[1] = q[1]
    BY <1>x, <1>1, <2>0 DEF Lawful, ToolOf
  <2>2. TellsApart(a, A[p[1]].output)
    BY <1>x, <1>1 DEF Lawful, ToolOf
  <2>3. x = A[p[1]].output[p[2]] /\ y = A[p[1]].output[q[2]] /\ q[2] \in DOMAIN A[p[1]].output
    BY <1>x, <1>1, <2>1 DEF IssueOf
  <2>4. Together(x, y)
    BY <1>1, <1>3, <2>0, <2>2, <2>3, ToldApart
  <2>5. PlaceOf(a, x) = PlaceOf(b, y)
    BY <1>3, <2>4 DEF Namesakes, Together, PlaceOf, CategoryOf, NamedContract
  <2> QED BY <1>x, <1>2, <2>5
<1>4. CASE PlaceOf(a, x) = PlaceOf(b, y)
  BY <1>x, <1>2, <1>4
<1> QED BY <1>2, <1>3, <1>4, SameMark

Shape(t, a, key, x) == t.analyzer = a /\ t.key = key /\ t.rule = x.rule /\ t.file = x.file /\ t.line = x.line

(* The items of a finding, and that the key by which an item is dropped as a *)
(* duplicate tells the items of a place apart.                               *)
LEMMA ItemShapes ==
  ASSUME NEW a, NEW key, NEW x, NEW b, NEW y, NEW l
  PROVE  /\ Shape(ItemOf(a, key, x), a, key, x) /\ ItemOf(a, key, x).text = x.text
         /\ Shape(TraceOf(a, key, x), a, key, x)
         /\ ItemOf(a, key, x).type # TraceOf(b, l, y).type
         /\ x.rule = y.rule /\ x.file = y.file /\ x.line = y.line => TraceOf(a, key, x) = TraceOf(a, key, y)
BY DEF Shape, ItemOf, TraceOf, Item

LEMMA ItemsOfOne ==
  ASSUME NEW a, NEW key, NEW x, NEW items, items = EvidenceOf(a, key, x), NEW k \in DOMAIN items
  PROVE  /\ k \in 1 .. 2 /\ DOMAIN items \subseteq 1 .. 2
         /\ \/ k = 1 /\ items[k] = ItemOf(a, key, x)
            \/ k = 2 /\ items[k] = TraceOf(a, key, x)
         /\ Shape(items[k], a, key, x)
<1>0. items = <<ItemOf(a, key, x), TraceOf(a, key, x)>> \/ items = <<ItemOf(a, key, x)>>
  BY Zenon DEF EvidenceOf
<1>1. CASE items = <<ItemOf(a, key, x), TraceOf(a, key, x)>>
  <2>2. DOMAIN items = 1 .. 2 /\ items[1] = ItemOf(a, key, x) /\ items[2] = TraceOf(a, key, x)
    BY <1>1
  <2>3. k \in 1 .. 2 /\ (k = 1 \/ k = 2)
    BY <2>2
  <2> QED BY <2>2, <2>3, ItemShapes
<1>2. CASE items = <<ItemOf(a, key, x)>>
  <2>2. DOMAIN items = 1 .. 1 /\ items[1] = ItemOf(a, key, x)
    BY <1>2
  <2>3. k \in 1 .. 2 /\ k = 1 /\ 1 .. 1 \subseteq 1 .. 2
    BY <2>2
  <2> QED BY <2>2, <2>3, ItemShapes
<1> QED BY <1>0, <1>1, <1>2

LEMMA ItemsAre ==
  ASSUME NEW A, Lawful(A), NEW p \in DOMAIN allFindings(A), NEW k \in DOMAIN allFindings(A)[p].items
  PROVE  /\ k \in 1 .. 2 /\ DOMAIN allFindings(A)[p].items \subseteq 1 .. 2
         /\ allFindings(A)[p].items[k].analyzer = A[p[1]].analyzer
         /\ allFindings(A)[p].items[k].key = A[p[1]].key
<1>1. allFindings(A)[p].items = EvidenceOf(A[p[1]].analyzer, A[p[1]].key, IssueOf(A, p))
  BY FindingsAre DEF ReadFrom, ToolOf
<1>2. PICK items : items = allFindings(A)[p].items
  OBVIOUS
<1>3. /\ k \in 1 .. 2 /\ DOMAIN items \subseteq 1 .. 2
      /\ Shape(items[k], A[p[1]].analyzer, A[p[1]].key, IssueOf(A, p))
  BY <1>1, <1>2, ItemsOfOne
<1> QED BY <1>2, <1>3 DEF Shape

LEMMA ItemsAgree ==
  ASSUME NEW A, Lawful(A), NEW p \in DOMAIN allFindings(A), NEW q \in DOMAIN allFindings(A),
         allFindings(A)[p].dedupeKey = allFindings(A)[q].dedupeKey,
         NEW k \in DOMAIN allFindings(A)[p].items, NEW l \in DOMAIN allFindings(A)[q].items,
         ItemKey(allFindings(A)[p].items[k]) = ItemKey(allFindings(A)[q].items[l])
  PROVE  allFindings(A)[p].items[k] = allFindings(A)[q].items[l]
<1>x. PICK x, y, a, b, f, g, s, t, c, d :
        /\ x = IssueOf(A, p) /\ y = IssueOf(A, q) /\ a = ToolOf(A, p) /\ b = ToolOf(A, q)
        /\ c = A[p[1]].key /\ d = A[q[1]].key
        /\ f = allFindings(A)[p] /\ g = allFindings(A)[q] /\ s = f.items[k] /\ t = g.items[l]
  OBVIOUS
<1>1. /\ p[1] \in DOMAIN A /\ ReadFrom(f, a, c, x) /\ q[1] \in DOMAIN A /\ ReadFrom(g, b, d, y)
  BY <1>x, FindingsAre
<1>2. f.items = EvidenceOf(a, c, x) /\ g.items = EvidenceOf(b, d, y)
  BY <1>1 DEF ReadFrom
<1>3. /\ (k = 1 /\ s = ItemOf(a, c, x)) \/ (k = 2 /\ s = TraceOf(a, c, x))
      /\ (l = 1 /\ t = ItemOf(b, d, y)) \/ (l = 2 /\ t = TraceOf(b, d, y))
      /\ Shape(s, a, c, x) /\ Shape(t, b, d, y)
  BY <1>x, <1>2, ItemsOfOne
<1>4. s.type = t.type /\ s.key = t.key /\ s.rule = t.rule /\ s.file = t.file /\ s.line = t.line /\ s.text = t.text
  BY <1>x DEF ItemKey
<1>5. p[1] = q[1] /\ a = b /\ c = d
  <2>1. c = d
    BY <1>3, <1>4 DEF Shape
  <2>2. p[1] = q[1]
    BY <1>x, <1>1, <2>1 DEF Lawful
  <2> QED BY <1>x, <2>1, <2>2 DEF ToolOf
<1>6. x.rule = y.rule /\ x.file = y.file /\ x.line = y.line
  BY <1>3, <1>4 DEF Shape
<1>7. CASE s = ItemOf(a, c, x)
  <2>1. t = ItemOf(b, d, y) /\ k = 1 /\ l = 1
    BY <1>3, <1>4, <1>7, ItemShapes
  <2>2. x.text = y.text
    BY <1>4, <1>7, <2>1, ItemShapes
  <2>3. NamedContract(a, x) = NamedContract(b, y)
    <3>1. PlaceOf(a, x) = PlaceOf(b, y)
      BY <1>x, <1>1 DEF ReadFrom
    <3>2. PlaceOf(a, x)[4] = NamedContract(a, x) /\ PlaceOf(b, y)[4] = NamedContract(b, y)
      BY DEF PlaceOf
    <3> QED BY <3>1, <3>2
  <2>4. Exact(f) = Exact(g)
    BY <1>1, <1>5, <1>6, <2>2, <2>3 DEF Exact, ReadFrom
  <2>5. f.items = g.items
    BY <1>x, <2>4, DuplicatesAgree
  <2> QED BY <1>x, <2>1, <2>5
<1>8. CASE s = TraceOf(a, c, x)
  <2>1. t = TraceOf(b, d, y)
    BY <1>3, <1>4, <1>8, ItemShapes
  <2> QED BY <1>x, <1>5, <1>6, <1>8, <2>1, ItemShapes
<1> QED BY <1>3, <1>7, <1>8

-----------------------------------------------------------------------------
(* What uniqueObjectsBy leaves: the first element of every key.              *)
LEMMA FirstsOfPairs ==
  ASSUME NEW list, NEW key, DOMAIN list \subseteq Nat \X Nat, NEW unique, unique = uniqueObjectsBy(list, key)
  PROVE  /\ DOMAIN unique \subseteq DOMAIN list /\ \A q \in DOMAIN unique : unique[q] = list[q]
         /\ \A p \in DOMAIN list : \E q \in DOMAIN unique : key[q] = key[p]
<1>1. /\ DOMAIN unique = {p \in DOMAIN list : ~ \E q \in DOMAIN list : Before(q, p) /\ key[q] = key[p]}
      /\ \A q \in DOMAIN unique : unique[q] = list[q]
  BY DEF uniqueObjectsBy, Restrict
<1>2. ASSUME NEW p \in DOMAIN list PROVE \E q \in DOMAIN unique : key[q] = key[p]
  <2> DEFINE S == {q \in DOMAIN list : key[q] = key[p]}
  <2>1. S \in SUBSET (Nat \X Nat) /\ S # {}
    OBVIOUS
  <2>2. PICK q \in S : \A r \in S : ~ Before(r, q)
    BY <2>1, FirstPair
  <2>3. q \in DOMAIN unique
    BY <1>1, <2>2
  <2> QED BY <2>2, <2>3
<1> QED BY <1>1, <1>2

LEMMA FirstsOfTriples ==
  ASSUME NEW list, NEW key, DOMAIN list \subseteq Nat \X Nat \X Nat,
         NEW unique, unique = uniqueObjectsBy(list, key)
  PROVE  /\ DOMAIN unique \subseteq DOMAIN list /\ \A q \in DOMAIN unique : unique[q] = list[q]
         /\ \A p \in DOMAIN list : \E q \in DOMAIN unique : key[q] = key[p]
         /\ \A p, q \in DOMAIN unique : key[p] = key[q] => p = q
<1>1. /\ DOMAIN unique = {p \in DOMAIN list : ~ \E q \in DOMAIN list : Before(q, p) /\ key[q] = key[p]}
      /\ \A q \in DOMAIN unique : unique[q] = list[q]
  BY DEF uniqueObjectsBy, Restrict
<1>2. ASSUME NEW p \in DOMAIN list PROVE \E q \in DOMAIN unique : key[q] = key[p]
  <2> DEFINE S == {q \in DOMAIN list : key[q] = key[p]}
  <2>1. S \in SUBSET (Nat \X Nat \X Nat) /\ S # {}
    OBVIOUS
  <2>2. PICK q \in S : \A r \in S : ~ Before(r, q)
    BY <2>1, FirstTriple
  <2>3. q \in DOMAIN unique
    BY <1>1, <2>2
  <2> QED BY <2>2, <2>3
<1>3. ASSUME NEW p \in DOMAIN unique, NEW q \in DOMAIN unique, key[p] = key[q], p # q PROVE FALSE
  <2>1. p \in Nat \X Nat \X Nat /\ q \in Nat \X Nat \X Nat
    BY <1>1
  <2>2. Before(p, q) \/ Before(q, p)
    BY <1>3, <2>1, OneIsBefore
  <2> QED BY <1>1, <1>3, <2>2
<1> QED BY <1>1, <1>2, <1>3

Unique(A) == suppressExactDuplicateFindings(allFindings(A))
PlacesOf(A) == {allFindings(A)[p].dedupeKey : p \in DOMAIN allFindings(A)}
Group(A, place) == Restrict(Unique(A), {p \in DOMAIN Unique(A) : Unique(A)[p].dedupeKey = place})

(* The findings without their exact duplicates, and their groups.            *)
LEMMA DuplicatesGo ==
  ASSUME NEW A, Lawful(A)
  PROVE  /\ DOMAIN Unique(A) \subseteq DOMAIN allFindings(A)
         /\ \A q \in DOMAIN Unique(A) : Unique(A)[q] = allFindings(A)[q]
         /\ \A p \in DOMAIN allFindings(A) : \E q \in DOMAIN Unique(A) :
              /\ allFindings(A)[q].dedupeKey = allFindings(A)[p].dedupeKey
              /\ allFindings(A)[q].items = allFindings(A)[p].items
<1> DEFINE F == allFindings(A)
           key == [p \in DOMAIN F |-> Exact(F[p])]
<1>1. Unique(A) = uniqueObjectsBy(F, key)
  BY DEF Unique, suppressExactDuplicateFindings, Exact
<1>2. DOMAIN F \subseteq Nat \X Nat
  BY FindingsAre
<1>3. \A p \in DOMAIN F : key[p] = Exact(F[p])
  OBVIOUS
<1> HIDE DEF key
<1>4. /\ DOMAIN Unique(A) \subseteq DOMAIN F /\ \A q \in DOMAIN Unique(A) : Unique(A)[q] = F[q]
      /\ \A p \in DOMAIN F : \E q \in DOMAIN Unique(A) : key[q] = key[p]
  BY <1>1, <1>2, FirstsOfPairs
<1>5. ASSUME NEW p \in DOMAIN F
      PROVE  \E q \in DOMAIN Unique(A) : F[q].dedupeKey = F[p].dedupeKey /\ F[q].items = F[p].items
  <2>1. PICK q \in DOMAIN Unique(A) : key[q] = key[p]
    BY <1>4
  <2>2. q \in DOMAIN F /\ Exact(F[q]) = Exact(F[p])
    BY <1>3, <1>4, <2>1
  <2>3. F[q].dedupeKey = F[p].dedupeKey /\ F[q].items = F[p].items
    BY <2>2, DuplicatesAgree
  <2> QED BY <2>1, <2>3
<1> QED BY <1>4, <1>5

LEMMA GroupsAre ==
  ASSUME NEW A, Lawful(A), NEW place
  PROVE  /\ \A p \in DOMAIN Group(A, place) :
              /\ p \in DOMAIN Unique(A) /\ p \in DOMAIN allFindings(A)
              /\ Group(A, place)[p] = allFindings(A)[p] /\ allFindings(A)[p].dedupeKey = place
         /\ \A p \in DOMAIN Unique(A) : allFindings(A)[p].dedupeKey = place => p \in DOMAIN Group(A, place)
         /\ place \in PlacesOf(A) => DOMAIN Group(A, place) # {}
<1>1. /\ DOMAIN Group(A, place) = {p \in DOMAIN Unique(A) : Unique(A)[p].dedupeKey = place}
      /\ \A p \in DOMAIN Group(A, place) : Group(A, place)[p] = Unique(A)[p]
  BY DEF Group, Restrict
<1> QED BY <1>1, DuplicatesGo DEF PlacesOf

LEMMA NormalizedAre ==
  ASSUME NEW A, Lawful(A)
  PROVE  normalize(A) = {aggregateGroup(Group(A, place)) : place \in PlacesOf(A)}
<1>1. normalize(A) = {aggregateGroup(Group(A, place)) : place \in {Unique(A)[p].dedupeKey : p \in DOMAIN Unique(A)}}
  BY DEF normalize, aggregate, Group, Unique
<1>2. {Unique(A)[p].dedupeKey : p \in DOMAIN Unique(A)} = PlacesOf(A)
  BY DuplicatesGo DEF PlacesOf
<1> QED BY <1>1, <1>2

(* The vulnerability that a group becomes: its fingerprint and its items.    *)
LEMMA AggregateIs ==
  ASSUME NEW group
  PROVE  /\ aggregateGroup(group).fingerprint = createAggregateFingerprint(group)
         /\ aggregateGroup(group).items = uniqueFindingEvidence(itemsOf(group))
BY DEF aggregateGroup

(* A fingerprint is of one place.                                            *)
LEMMA MarksApart ==
  ASSUME NEW A, Lawful(A), NEW place \in PlacesOf(A), NEW other \in PlacesOf(A),
         aggregateGroup(Group(A, place)).fingerprint = aggregateGroup(Group(A, other)).fingerprint
  PROVE  place = other
<1>1. createAggregateFingerprint(Group(A, place)) = createAggregateFingerprint(Group(A, other))
  BY AggregateIs
<1>2. \A group : DOMAIN createAggregateFingerprint(group) = {group[p].fingerprint : p \in DOMAIN group}
  BY DEF createAggregateFingerprint
<1>3. PICK p \in DOMAIN Group(A, place) : TRUE
  BY GroupsAre
<1>4. Group(A, place)[p].fingerprint \in {Group(A, other)[q].fingerprint : q \in DOMAIN Group(A, other)}
  BY ZenonT(60), <1>1, <1>2
<1>5. PICK q \in DOMAIN Group(A, other) : Group(A, other)[q].fingerprint = Group(A, place)[p].fingerprint
  BY <1>4
<1>6. /\ p \in DOMAIN allFindings(A) /\ allFindings(A)[p].dedupeKey = place
      /\ Group(A, place)[p] = allFindings(A)[p]
  BY GroupsAre
<1>7. /\ q \in DOMAIN allFindings(A) /\ allFindings(A)[q].dedupeKey = other
      /\ Group(A, other)[q] = allFindings(A)[q]
  BY GroupsAre
<1> QED BY <1>5, <1>6, <1>7, MarksAgree

(* The items of a group, by their places.                                    *)
LEMMA PairAndOne ==
  ASSUME NEW p \in Nat \X Nat, NEW k \in Nat
  PROVE  p \o <<k>> = <<p[1], p[2], k>>
<1>1. p = <<p[1], p[2]>> /\ p[1] \in Nat /\ p[2] \in Nat
  OBVIOUS
<1>2. <<p[1], p[2]>> \in Seq(Nat) /\ <<k>> \in Seq(Nat) /\ Len(<<p[1], p[2]>>) = 2 /\ Len(<<k>>) = 1
  OBVIOUS
<1>3. PICK s : s = <<p[1], p[2]>> \o <<k>>
  OBVIOUS
<1>4. s \in Seq(Nat) /\ Len(s) = 3 /\ s[1] = p[1] /\ s[2] = p[2] /\ s[3] = k
  BY <1>2, <1>3, ConcatProperties
<1>5. s = <<s[1], s[2], s[3]>>
  BY <1>4
<1> QED BY <1>1, <1>3, <1>4, <1>5

LEMMA ItemsOfGroup ==
  ASSUME NEW group, DOMAIN group \subseteq Nat \X Nat, \A p \in DOMAIN group : DOMAIN group[p].items \subseteq Nat,
         NEW all, all = itemsOf(group)
  PROVE  /\ \A q \in DOMAIN all :
              /\ q \in Nat \X Nat \X Nat /\ <<q[1], q[2]>> \in DOMAIN group
              /\ q[3] \in DOMAIN group[<<q[1], q[2]>>].items /\ all[q] = group[<<q[1], q[2]>>].items[q[3]]
         /\ \A p \in DOMAIN group : \A k \in DOMAIN group[p].items :
              <<p[1], p[2], k>> \in DOMAIN all /\ all[<<p[1], p[2], k>>] = group[p].items[k]
<1>1. /\ DOMAIN all = UNION {{p \o <<k>> : k \in DOMAIN group[p].items} : p \in DOMAIN group}
      /\ \A q \in DOMAIN all : all[q] = group[<<q[1], q[2]>>].items[q[3]]
  BY DEF itemsOf
<1>2. ASSUME NEW p \in DOMAIN group, NEW k \in DOMAIN group[p].items
      PROVE  /\ p \o <<k>> = <<p[1], p[2], k>> /\ <<p[1], p[2], k>> \in DOMAIN all
             /\ p = <<p[1], p[2]>> /\ p[1] \in Nat /\ p[2] \in Nat /\ k \in Nat
  <2>1. p \in Nat \X Nat /\ k \in Nat
    OBVIOUS
  <2>2. p \o <<k>> = <<p[1], p[2], k>>
    BY <2>1, PairAndOne
  <2>3. p \o <<k>> \in DOMAIN all
    <3> DEFINE Of(r) == {r \o <<j>> : j \in DOMAIN group[r].items}
    <3>1. p \o <<k>> \in Of(p)
      OBVIOUS
    <3>2. DOMAIN all = UNION {Of(r) : r \in DOMAIN group}
      BY ONLY <1>1
    <3> HIDE DEF Of
    <3> QED BY ONLY <3>1, <3>2, p \in DOMAIN group, Zenon
  <2>4. <<p[1], p[2], k>> \in DOMAIN all
    BY ONLY <2>2, <2>3, Zenon
  <2>5. p = <<p[1], p[2]>> /\ p[1] \in Nat /\ p[2] \in Nat
    BY <2>1
  <2> QED BY <2>1, <2>2, <2>4, <2>5, Zenon
<1>3. ASSUME NEW q \in DOMAIN all
      PROVE  /\ q \in Nat \X Nat \X Nat /\ <<q[1], q[2]>> \in DOMAIN group
             /\ q[3] \in DOMAIN group[<<q[1], q[2]>>].items
  <2>1. PICK p \in DOMAIN group : \E k \in DOMAIN group[p].items : q = p \o <<k>>
    BY <1>1
  <2>2. PICK k \in DOMAIN group[p].items : q = p \o <<k>>
    BY <2>1
  <2>3. q = <<p[1], p[2], k>> /\ p = <<p[1], p[2]>> /\ p[1] \in Nat /\ p[2] \in Nat /\ k \in Nat
    BY <1>2, <2>2
  <2>4. q \in Nat \X Nat \X Nat /\ q[1] = p[1] /\ q[2] = p[2] /\ q[3] = k
    BY <2>3
  <2> QED BY <2>3, <2>4
<1>4. ASSUME NEW p \in DOMAIN group, NEW k \in DOMAIN group[p].items
      PROVE  all[<<p[1], p[2], k>>] = group[p].items[k]
  <2>1. PICK q : q = <<p[1], p[2], k>>
    OBVIOUS
  <2>2. q \in DOMAIN all /\ <<q[1], q[2]>> = p /\ q[3] = k
    BY <1>2, <2>1
  <2> QED BY <1>1, <2>1, <2>2
<1> QED BY <1>1, <1>2, <1>3, <1>4

Reports(A) == {allFindings(A)[p] : p \in DOMAIN allFindings(A)}

(* The image of a finite set is finite, and as large when nothing collapses. *)
LEMMA ImageOf ==
  ASSUME NEW f, f = [x \in DOMAIN f |-> f[x]], IsFiniteSet(DOMAIN f), NEW T, T = {f[x] : x \in DOMAIN f}
  PROVE  /\ IsFiniteSet(T)
         /\ (\A x, y \in DOMAIN f : f[x] = f[y] => x = y) => Cardinality(T) = Cardinality(DOMAIN f)
<1>1. f \in [DOMAIN f -> T]
  OBVIOUS
<1>2. f \in Surjection(DOMAIN f, T)
  BY <1>1 DEF Surjection
<1>3. ASSUME \A x, y \in DOMAIN f : f[x] = f[y] => x = y PROVE f \in Injection(DOMAIN f, T)
  BY <1>1, <1>3 DEF Injection, IsInjective
<1> QED BY <1>2, <1>3, FS_Surjection

LEMMA FindingsAreFinite ==
  ASSUME NEW A, Lawful(A)
  PROVE  IsFiniteSet(DOMAIN allFindings(A))
<1> DEFINE Rows == [i \in DOMAIN A |-> {<<i, j>> : j \in DOMAIN findingsOf(A[i])}]
<1>1. ASSUME NEW i \in DOMAIN A PROVE IsFiniteSet(Rows[i])
  <2>1. A[i].output \in Seq(Issues(A[i].output))
    BY DEF Lawful
  <2>2. Len(A[i].output) \in Nat /\ DOMAIN A[i].output = 1 .. Len(A[i].output)
    BY <2>1, LenProperties
  <2>3. IsFiniteSet(DOMAIN A[i].output)
    BY <2>2, FS_Interval
  <2>4. DOMAIN findingsOf(A[i]) \subseteq DOMAIN A[i].output
    BY DEF findingsOf
  <2>5. IsFiniteSet(DOMAIN findingsOf(A[i]))
    BY <2>3, <2>4, FS_Subset
  <2>6. PICK at : at = [j \in DOMAIN findingsOf(A[i]) |-> <<i, j>>]
    OBVIOUS
  <2>7. at = [j \in DOMAIN at |-> at[j]] /\ DOMAIN at = DOMAIN findingsOf(A[i])
        /\ Rows[i] = {at[j] : j \in DOMAIN at}
    BY <2>6
  <2> HIDE DEF Rows
  <2> QED BY <2>5, <2>7, ImageOf
<1>2. /\ Rows = [i \in DOMAIN Rows |-> Rows[i]] /\ DOMAIN Rows = DOMAIN A /\ IsFiniteSet(DOMAIN A)
      /\ DOMAIN allFindings(A) = UNION {Rows[i] : i \in DOMAIN Rows}
  BY DEF Lawful, allFindings
<1> HIDE DEF Rows
<1>3. IsFiniteSet({Rows[i] : i \in DOMAIN Rows})
  BY <1>2, ImageOf
<1>4. \A S \in {Rows[i] : i \in DOMAIN Rows} : IsFiniteSet(S)
  BY <1>1, <1>2
<1> QED BY <1>2, <1>3, <1>4, FS_UNION

LEMMA GroupItems ==
  ASSUME NEW A, Lawful(A), NEW place, NEW all, all = itemsOf(Group(A, place))
  PROVE  /\ DOMAIN all \subseteq Nat \X Nat \X Nat
         /\ \A q \in DOMAIN all : \E p \in DOMAIN allFindings(A) : \E k \in 1 .. 2 :
              /\ k \in DOMAIN allFindings(A)[p].items /\ q = <<p[1], p[2], k>>
              /\ allFindings(A)[p].dedupeKey = place /\ all[q] = allFindings(A)[p].items[k]
         /\ \A p \in DOMAIN allFindings(A) : \A k \in DOMAIN allFindings(A)[p].items :
              allFindings(A)[p].dedupeKey = place => \E q \in DOMAIN all : all[q] = allFindings(A)[p].items[k]
<1> DEFINE F == allFindings(A)
<1>g. PICK group : group = Group(A, place)
  OBVIOUS
<1>1. \A p \in DOMAIN group : p \in DOMAIN F /\ p \in Nat \X Nat /\ group[p] = F[p] /\ F[p].dedupeKey = place
  BY <1>g, GroupsAre, FindingsAre
<1>2. \A p \in DOMAIN group : \A k \in DOMAIN group[p].items : k \in 1 .. 2
  BY <1>1, ItemsAre
<1>3. DOMAIN group \subseteq Nat \X Nat /\ \A p \in DOMAIN group : DOMAIN group[p].items \subseteq Nat
  BY <1>1, <1>2
<1>4. /\ \A q \in DOMAIN all :
           /\ q \in Nat \X Nat \X Nat /\ <<q[1], q[2]>> \in DOMAIN group
           /\ q[3] \in DOMAIN group[<<q[1], q[2]>>].items /\ all[q] = group[<<q[1], q[2]>>].items[q[3]]
      /\ \A p \in DOMAIN group : \A k \in DOMAIN group[p].items :
           <<p[1], p[2], k>> \in DOMAIN all /\ all[<<p[1], p[2], k>>] = group[p].items[k]
  BY <1>g, <1>3, ItemsOfGroup
<1>5. ASSUME NEW q \in DOMAIN all
      PROVE  \E p \in DOMAIN F : \E k \in 1 .. 2 :
               /\ k \in DOMAIN F[p].items /\ q = <<p[1], p[2], k>>
               /\ F[p].dedupeKey = place /\ all[q] = F[p].items[k]
  <2>1. PICK p \in DOMAIN group : p = <<q[1], q[2]>>
    BY <1>4
  <2>2. PICK k : k = q[3]
    OBVIOUS
  <2>3. k \in DOMAIN group[p].items /\ all[q] = group[p].items[k]
    BY <1>4, <2>1, <2>2
  <2>4. k \in 1 .. 2 /\ p \in DOMAIN F /\ group[p] = F[p] /\ F[p].dedupeKey = place
    BY <1>1, <1>2, <2>3
  <2>5. q = <<q[1], q[2], q[3]>> /\ p[1] = q[1] /\ p[2] = q[2]
    BY <1>4, <2>1
  <2>6. q = <<p[1], p[2], k>>
    BY <2>2, <2>5
  <2> QED BY <2>3, <2>4, <2>6
<1>6. ASSUME NEW p \in DOMAIN F, NEW k \in DOMAIN F[p].items, F[p].dedupeKey = place
      PROVE  \E q \in DOMAIN all : all[q] = F[p].items[k]
  <2>1. PICK r \in DOMAIN Unique(A) : F[r].dedupeKey = place /\ F[r].items = F[p].items
    BY <1>6, DuplicatesGo
  <2>2. r \in DOMAIN group
    BY <1>g, <2>1, GroupsAre
  <2>3. group[r].items = F[p].items
    BY <1>1, <2>1, <2>2
  <2>4. <<r[1], r[2], k>> \in DOMAIN all /\ all[<<r[1], r[2], k>>] = F[p].items[k]
    BY <1>4, <2>2, <2>3
  <2> QED BY <2>4
<1> QED BY <1>4, <1>5, <1>6

Owes(A, place) == UNION {ToSet(f.items) : f \in {g \in Reports(A) : g.dedupeKey = place}}

Pieces(items) == {items[q] : q \in DOMAIN items}
Sourced(A, items) ==
  /\ IsFiniteSet(DOMAIN items) /\ \A q, r \in DOMAIN items : items[q] = items[r] => q = r
  /\ \A q \in DOMAIN items : \E i \in DOMAIN A : items[q].key = A[i].key /\ items[q].analyzer = A[i].analyzer

(* Every finding counts, and the duplicates add no evidence: what is owed to *)
(* a place is what its group gathers, and every piece of it once.            *)
LEMMA EvidenceWhole ==
  ASSUME NEW A, Lawful(A), NEW place, NEW items, items = aggregateGroup(Group(A, place)).items
  PROVE  Pieces(items) = Owes(A, place) /\ Sourced(A, items)
<1> DEFINE F == allFindings(A)
<1>a. PICK all : all = itemsOf(Group(A, place))
  OBVIOUS
<1>1. /\ DOMAIN all \subseteq Nat \X Nat \X Nat
      /\ \A q \in DOMAIN all : \E p \in DOMAIN F : \E k \in 1 .. 2 :
           /\ k \in DOMAIN F[p].items /\ q = <<p[1], p[2], k>>
           /\ F[p].dedupeKey = place /\ all[q] = F[p].items[k]
      /\ \A p \in DOMAIN F : \A k \in DOMAIN F[p].items :
           F[p].dedupeKey = place => \E q \in DOMAIN all : all[q] = F[p].items[k]
  BY <1>a, GroupItems
<1>k. PICK key : key = [q \in DOMAIN all |-> ItemKey(all[q])]
  OBVIOUS
<1>2. items = uniqueObjectsBy(all, key)
  BY <1>a, <1>k, AggregateIs DEF uniqueFindingEvidence, ItemKey
<1>3. /\ DOMAIN items \subseteq DOMAIN all /\ \A q \in DOMAIN items : items[q] = all[q]
      /\ \A p \in DOMAIN all : \E q \in DOMAIN items : key[q] = key[p]
      /\ \A p, q \in DOMAIN items : key[p] = key[q] => p = q
  BY <1>1, <1>2, FirstsOfTriples
<1>4. ASSUME NEW q \in DOMAIN all, NEW r \in DOMAIN all, key[q] = key[r] PROVE all[q] = all[r]
  <2>1. PICK p \in DOMAIN F : \E k \in 1 .. 2 :
          k \in DOMAIN F[p].items /\ F[p].dedupeKey = place /\ all[q] = F[p].items[k]
    BY <1>1
  <2>2. PICK k \in DOMAIN F[p].items : F[p].dedupeKey = place /\ all[q] = F[p].items[k]
    BY <2>1
  <2>3. PICK o \in DOMAIN F : \E l \in 1 .. 2 :
          l \in DOMAIN F[o].items /\ F[o].dedupeKey = place /\ all[r] = F[o].items[l]
    BY <1>1
  <2>4. PICK l \in DOMAIN F[o].items : F[o].dedupeKey = place /\ all[r] = F[o].items[l]
    BY <2>3
  <2>5. ItemKey(F[p].items[k]) = ItemKey(F[o].items[l])
    BY <1>4, <1>k, <2>2, <2>4
  <2>6. F[p].items[k] = F[o].items[l]
    BY <2>2, <2>4, <2>5, ItemsAgree
  <2> QED BY <2>2, <2>4, <2>6
<1>5. ASSUME NEW q \in DOMAIN items PROVE items[q] \in Owes(A, place)
  <2>1. PICK p \in DOMAIN F : \E k \in 1 .. 2 :
          k \in DOMAIN F[p].items /\ F[p].dedupeKey = place /\ all[q] = F[p].items[k]
    BY <1>1, <1>3
  <2>2. items[q] \in ToSet(F[p].items)
    BY <1>3, <2>1 DEF ToSet
  <2> QED BY <2>1, <2>2 DEF Owes, Reports
<1>6. ASSUME NEW item \in Owes(A, place) PROVE \E q \in DOMAIN items : items[q] = item
  <2>1. PICK p \in DOMAIN F : F[p].dedupeKey = place /\ item \in ToSet(F[p].items)
    BY DEF Owes, Reports
  <2>2. PICK k \in DOMAIN F[p].items : item = F[p].items[k]
    BY <2>1 DEF ToSet
  <2>3. PICK q \in DOMAIN all : all[q] = item
    BY <1>1, <2>1, <2>2
  <2>4. PICK r \in DOMAIN items : key[r] = key[q]
    BY <1>3
  <2> QED BY <1>3, <1>4, <2>3, <2>4
<1>7. ASSUME NEW q \in DOMAIN items, NEW r \in DOMAIN items, items[q] = items[r] PROVE q = r
  BY <1>3, <1>7, <1>k
<1>8. ASSUME NEW q \in DOMAIN items
      PROVE  \E i \in DOMAIN A : items[q].key = A[i].key /\ items[q].analyzer = A[i].analyzer
  <2>1. PICK p \in DOMAIN F : \E k \in 1 .. 2 : k \in DOMAIN F[p].items /\ all[q] = F[p].items[k]
    BY <1>1, <1>3
  <2>2. PICK k \in DOMAIN F[p].items : items[q] = F[p].items[k]
    BY <1>3, <2>1
  <2>3. p[1] \in DOMAIN A
    BY FindingsAre
  <2>4. F[p].items[k].analyzer = A[p[1]].analyzer /\ F[p].items[k].key = A[p[1]].key
    BY ItemsAre
  <2> QED BY <2>2, <2>3, <2>4
<1>9. IsFiniteSet(DOMAIN items)
  <2>0. PICK D, S, P : D = DOMAIN F /\ S = 1 .. 2 /\ P = D \X S
    OBVIOUS
  <2>1. PICK at : at = [c \in P |-> <<c[1][1], c[1][2], c[2]>>]
    OBVIOUS
  <2>2. IsFiniteSet(P)
    <3>1. IsFiniteSet(D)
      BY <2>0, FindingsAreFinite
    <3>2. IsFiniteSet(S)
      <4>1. PICK m, n : m \in Int /\ n \in Int /\ m = 1 /\ n = 2
        OBVIOUS
      <4>2. IsFiniteSet(m .. n)
        BY <4>1, FS_Interval
      <4> QED BY <2>0, <4>1, <4>2
    <3>3. IsFiniteSet(D \X S)
      BY ONLY <3>1, <3>2, FS_Product
    <3> QED BY ONLY <2>0, <3>3, Zenon
  <2>3. IsFiniteSet({at[c] : c \in DOMAIN at})
    <3>1. at = [c \in DOMAIN at |-> at[c]]
      BY <2>1
    <3>2. DOMAIN at = P
      BY <2>1
    <3> QED BY <2>2, <3>1, <3>2, ImageOf
  <2>4. ASSUME NEW q \in DOMAIN items PROVE q \in {at[c] : c \in DOMAIN at}
    <3>1. PICK p \in DOMAIN F : \E k \in 1 .. 2 : q = <<p[1], p[2], k>>
      BY <1>1, <1>3
    <3>2. PICK k \in 1 .. 2 : q = <<p[1], p[2], k>>
      BY <3>1
    <3>3. <<p, k>> \in P
      BY <2>0
    <3>4. <<p, k>> \in DOMAIN at /\ at[<<p, k>>] = q
      BY <2>1, <3>2, <3>3
    <3> QED BY <3>4
  <2> QED BY <2>3, <2>4, FS_Subset
<1>10. Pieces(items) = Owes(A, place)
  BY <1>5, <1>6 DEF Pieces
<1> QED BY <1>7, <1>8, <1>9, <1>10 DEF Sourced

(* There is one result for every place.                                      *)
FoundAt(A, mark) == CHOOSE found \in normalize(A) : found.fingerprint = mark

LEMMA OneResultEach ==
  ASSUME NEW A, Lawful(A), NEW M, M = {found.fingerprint : found \in normalize(A)}
  PROVE  /\ Cardinality(M) = Cardinality(PlacesOf(A))
         /\ \A mark \in M : \E place \in PlacesOf(A) :
              FoundAt(A, mark) = aggregateGroup(Group(A, place))
         /\ \A place \in PlacesOf(A) : \E mark \in M :
              FoundAt(A, mark) = aggregateGroup(Group(A, place))
<1>1. PICK mark : mark = [place \in PlacesOf(A) |-> aggregateGroup(Group(A, place)).fingerprint]
  OBVIOUS
<1>2. /\ mark = [place \in DOMAIN mark |-> mark[place]] /\ DOMAIN mark = PlacesOf(A)
      /\ M = {mark[place] : place \in DOMAIN mark}
  BY <1>1, NormalizedAre
<1>3. \A place, other \in PlacesOf(A) : mark[place] = mark[other] => place = other
  BY <1>1, MarksApart
<1>4. IsFiniteSet(PlacesOf(A))
  <2>1. PICK of : of = [p \in DOMAIN allFindings(A) |-> allFindings(A)[p].dedupeKey]
    OBVIOUS
  <2>2. of = [p \in DOMAIN of |-> of[p]] /\ DOMAIN of = DOMAIN allFindings(A) /\ PlacesOf(A) = {of[p] : p \in DOMAIN of}
    BY <2>1 DEF PlacesOf
  <2> QED BY <2>2, FindingsAreFinite, ImageOf
<1>5. Cardinality(M) = Cardinality(PlacesOf(A))
  BY <1>2, <1>3, <1>4, ImageOf
<1>6. ASSUME NEW place \in PlacesOf(A) PROVE FoundAt(A, mark[place]) = aggregateGroup(Group(A, place))
  <2>1. \E found \in normalize(A) : found.fingerprint = mark[place]
    BY <1>1, NormalizedAre
  <2>2. FoundAt(A, mark[place]) \in normalize(A) /\ FoundAt(A, mark[place]).fingerprint = mark[place]
    BY <2>1 DEF FoundAt
  <2>3. PICK other \in PlacesOf(A) : FoundAt(A, mark[place]) = aggregateGroup(Group(A, other))
    BY <2>2, NormalizedAre
  <2>4. mark[place] = mark[other]
    BY <1>1, <2>2, <2>3
  <2> QED BY <1>3, <2>3, <2>4
<1>7. \A m \in M : \E place \in PlacesOf(A) : FoundAt(A, m) = aggregateGroup(Group(A, place))
  BY <1>2, <1>6
<1>8. \A place \in PlacesOf(A) : \E m \in M : FoundAt(A, m) = aggregateGroup(Group(A, place))
  BY <1>2, <1>6
<1> QED BY <1>5, <1>7, <1>8

-----------------------------------------------------------------------------
(* The artifacts of the job are of completed runs of different analyzers.    *)
JobInv ==
  /\ \A i \in DOMAIN runs :
       runs[i].analyzer \in Analyzers /\ runs[i].output \in Outputs[runs[i].analyzer] \cup {<<>>}
  /\ \A a \in Analyzers : kept[a] # 0 => runs[kept[a]].analyzer = a
  /\ job \in Seq(DOMAIN runs)
  /\ \A i, j \in DOMAIN job : runs[job[i]].analyzer = runs[job[j]].analyzer => i = j

RunAgain(a) == Cardinality(RunsOf(a)) > 1
Fresh(newest) == \A i \in DOMAIN job : LET a == runs[job[i]].analyzer IN newest[a] = job[i] \/ RunAgain(a)

(* A row has every piece of evidence once, one decision, and the run that    *)
(* the evidence is from unless its analyzer was run again.                   *)
IsProven(row) ==
  /\ IsFiniteSet(row.evidence) /\ Cardinality(row.decisions) = 1
  /\ \A e, f \in row.evidence : e.item = f.item => e = f
  /\ \A e \in row.evidence : e.run = e.item.key \/ RunAgain(e.item.analyzer)

EvidenceInv ==
  /\ ToolsTellApart /\ JobInv
  /\ \A p \in Passes : At(p, "write") => Fresh(pass[p].newest)
  /\ \A mark \in DOMAIN rows : IsProven(rows[mark])

(* The artifacts of the job are lawful, and the declarative account of them  *)
(* is the one that the lemmas above speak of.                                *)
LEMMA ArtifactsAreLawful ==
  ASSUME ToolsTellApart, RunsInv, JobInv
  PROVE  Lawful(Artifacts)
<1>1. job \in Seq(DOMAIN runs) /\ DOMAIN job = 1 .. Len(job) /\ Len(job) \in Nat
  <2>1. job \in Seq(DOMAIN runs)
    BY DEF JobInv
  <2> QED BY <2>1, LenProperties
<1>2. IsFiniteSet(DOMAIN job) /\ DOMAIN job \subseteq Nat
  BY <1>1, FS_Interval
<1>3. /\ DOMAIN Artifacts = DOMAIN job
      /\ \A i \in DOMAIN job : /\ Artifacts[i].analyzer = runs[job[i]].analyzer /\ Artifacts[i].key = job[i]
                               /\ Artifacts[i].output = runs[job[i]].output
  BY DEF Artifacts
<1>4. ASSUME NEW i \in DOMAIN job
      PROVE  /\ runs[job[i]].analyzer \in Parsers \cup {"foundry"}
             /\ runs[job[i]].output \in Seq(Issues(runs[job[i]].output))
             /\ TellsApart(runs[job[i]].analyzer, runs[job[i]].output)
  <2>1. /\ runs[job[i]].analyzer \in Analyzers
        /\ runs[job[i]].output \in Outputs[runs[job[i]].analyzer] \cup {<<>>}
    BY DEF RunsInv, JobInv
  <2>2. runs[job[i]].analyzer \in Parsers \cup {"foundry"}
    BY <2>1, FindingAssumption DEF FindingAssumption, Parsers
  <2>3. CASE runs[job[i]].output = <<>>
    <3>1. <<>> \in Seq(Issues(<<>>)) /\ DOMAIN <<>> = {}
      BY EmptySeq
    <3>2. TellsApart(runs[job[i]].analyzer, <<>>)
      BY <3>1 DEF TellsApart
    <3> QED BY <2>2, <2>3, <3>1, <3>2
  <2>4. CASE runs[job[i]].output \in Outputs[runs[job[i]].analyzer]
    BY <2>1, <2>2, <2>4, FindingAssumption DEF FindingAssumption, ToolsTellApart
  <2> QED BY <2>1, <2>3, <2>4
<1>5. \A i, j \in DOMAIN job : runs[job[i]].analyzer = runs[job[j]].analyzer \/ job[i] = job[j] => i = j
  BY DEF JobInv
<1> QED BY <1>2, <1>3, <1>4, <1>5 DEF Lawful

LEMMA ReportedAre ==
  /\ Reported = Reports(Artifacts) /\ {f.dedupeKey : f \in Reports(Artifacts)} = PlacesOf(Artifacts)
  /\ \A place : Owed(Reported, place) = Owes(Artifacts, place)
<1>1. Reported = Reports(Artifacts)
  <2>1. ASSUME NEW f \in Reported PROVE f \in Reports(Artifacts)
    <3>1. PICK i \in DOMAIN Artifacts : f \in ToSet(findingsOf(Artifacts[i]))
      BY DEF Reported, ToSet
    <3>2. PICK j \in DOMAIN findingsOf(Artifacts[i]) : f = findingsOf(Artifacts[i])[j]
      BY <3>1 DEF ToSet
    <3>3. <<i, j>> \in DOMAIN allFindings(Artifacts) /\ allFindings(Artifacts)[<<i, j>>] = f
      BY <3>2 DEF allFindings
    <3> QED BY <3>3 DEF Reports
  <2>2. ASSUME NEW p \in DOMAIN allFindings(Artifacts) PROVE allFindings(Artifacts)[p] \in Reported
    <3>1. PICK i \in DOMAIN Artifacts : \E j \in DOMAIN findingsOf(Artifacts[i]) : p = <<i, j>>
      BY DEF allFindings
    <3>2. PICK j \in DOMAIN findingsOf(Artifacts[i]) : p = <<i, j>>
      BY <3>1
    <3>3. allFindings(Artifacts)[p] = findingsOf(Artifacts[i])[j]
      BY <3>2 DEF allFindings
    <3> QED BY <3>3 DEF Reported, ToSet
  <2> QED BY <2>1, <2>2 DEF Reports
<1>2. {f.dedupeKey : f \in Reports(Artifacts)} = PlacesOf(Artifacts)
  BY DEF Reports, PlacesOf
<1> QED BY <1>1, <1>2 DEF Owed, Owes

(* What a row that shows the result of a place is worth.                     *)
LEMMA ProvenRowsMatch ==
  ASSUME PassInv, EvidenceInv
  PROVE  RowsMatchArtifacts
<1>0. RunsInv /\ RowsInv /\ ToolsTellApart /\ JobInv
  BY DEF PassInv, EvidenceInv
<1> SUFFICES ASSUME DOMAIN rows # {}
             PROVE  /\ Cardinality(DOMAIN rows) = Cardinality(PlacesOf(Artifacts))
                    /\ \A place \in PlacesOf(Artifacts) : \E mark \in DOMAIN rows :
                         Cited(rows[mark]) = Owes(Artifacts, place)
                    /\ \A mark \in DOMAIN rows :
                         /\ Cardinality(rows[mark].evidence) = Cardinality(Cited(rows[mark]))
                         /\ Cardinality(rows[mark].decisions) = 1
                         /\ \A e \in rows[mark].evidence :
                              e.run = e.item.key \/ Cardinality(RunsOf(e.item.analyzer)) > 1
  BY ReportedAre DEF RowsMatchArtifacts
<1>1. PICK A : A = Artifacts
  OBVIOUS
<1>2. Lawful(A)
  BY <1>0, <1>1, ArtifactsAreLawful
<1>3. /\ DOMAIN rows = {found.fingerprint : found \in normalize(A)}
      /\ \A mark \in DOMAIN rows : Shows(rows[mark], FoundAt(A, mark))
  BY <1>0, <1>1 DEF RowsInv, Marks, Results, ResultOf, FoundAt
<1>4. /\ Cardinality(DOMAIN rows) = Cardinality(PlacesOf(A))
      /\ \A place \in PlacesOf(A) : \E mark \in DOMAIN rows :
           FoundAt(A, mark) = aggregateGroup(Group(A, place))
  BY <1>2, <1>3, OneResultEach
<1>5. ASSUME NEW place \in PlacesOf(A)
      PROVE  \E mark \in DOMAIN rows : Cited(rows[mark]) = Owes(A, place)
  <2>1. PICK mark \in DOMAIN rows : Shows(rows[mark], aggregateGroup(Group(A, place)))
    BY <1>3, <1>4
  <2>2. PICK items : items = aggregateGroup(Group(A, place)).items
    OBVIOUS
  <2>3. Cited(rows[mark]) = Pieces(items)
    BY <2>1, <2>2 DEF Shows, Pieces
  <2>4. Pieces(items) = Owes(A, place)
    BY <1>2, <2>2, EvidenceWhole
  <2> QED BY <2>3, <2>4
<1>6. ASSUME NEW mark \in DOMAIN rows PROVE Cardinality(rows[mark].evidence) = Cardinality(Cited(rows[mark]))
  <2>1. IsProven(rows[mark])
    BY DEF EvidenceInv
  <2>2. PICK E : E = rows[mark].evidence
    OBVIOUS
  <2>3. PICK of : of = [e \in E |-> e.item]
    OBVIOUS
  <2>4. /\ of = [e \in DOMAIN of |-> of[e]] /\ DOMAIN of = E /\ IsFiniteSet(DOMAIN of)
        /\ Cited(rows[mark]) = {of[e] : e \in DOMAIN of}
        /\ \A e, f \in DOMAIN of : of[e] = of[f] => e = f
    BY <2>1, <2>2, <2>3 DEF IsProven, Cited
  <2>5. Cardinality(Cited(rows[mark])) = Cardinality(DOMAIN of)
    BY <2>4, ImageOf
  <2> QED BY <2>2, <2>4, <2>5
<1>7. \A mark \in DOMAIN rows : IsProven(rows[mark])
  BY DEF EvidenceInv
<1> QED BY <1>1, <1>4, <1>5, <1>6, <1>7 DEF IsProven, RunAgain

(* The runs of an analyzer are finitely many.                                *)
LEMMA FinitePlaces ==
  ASSUME NEW s, s \in Seq({s[i] : i \in DOMAIN s})
  PROVE  /\ DOMAIN s \in SUBSET (Nat \ {0})
         /\ \A S \in SUBSET DOMAIN s : IsFiniteSet(S) /\ Cardinality(S) \in Nat
<1>1. DOMAIN s = 1 .. Len(s) /\ Len(s) \in Nat
  BY LenProperties
<1>2. DOMAIN s \in SUBSET (Nat \ {0})
  BY <1>1
<1>3. IsFiniteSet(DOMAIN s)
  <2>1. PICK m, n : m \in Int /\ n \in Int /\ m = 1 /\ n = Len(s)
    BY <1>1
  <2>2. IsFiniteSet(m .. n)
    BY <2>1, FS_Interval
  <2> QED BY <1>1, <2>1, <2>2
<1>4. \A S \in SUBSET DOMAIN s : IsFiniteSet(S)
  BY <1>3, FS_Subset
<1> QED BY <1>2, <1>4, FS_CardinalityType

LEMMA RunsAreFinite ==
  ASSUME RunsInv
  PROVE  /\ DOMAIN runs \in SUBSET (Nat \ {0}) /\ \A a : RunsOf(a) \subseteq DOMAIN runs
         /\ \A a : IsFiniteSet(RunsOf(a)) /\ Cardinality(RunsOf(a)) \in Nat
<1>1. runs \in Seq({runs[i] : i \in DOMAIN runs})
  BY DEF RunsInv
<1>2. \A a : RunsOf(a) \in SUBSET DOMAIN runs
  BY DEF RunsOf
<1> QED BY <1>1, <1>2, FinitePlaces

(* Runs are only added: what was run again stays so.                         *)
LEMMA RunsGrow ==
  ASSUME RunsInv', DOMAIN runs \subseteq DOMAIN runs',
         \A i \in DOMAIN runs : runs'[i].analyzer = runs[i].analyzer, NEW a
  PROVE  RunAgain(a) => RunAgain(a)'
<1>1. PICK s : s = runs'
  OBVIOUS
<1>2. PICK S, T : S = RunsOf(a) /\ T = {i \in DOMAIN s : s[i].analyzer = a}
  OBVIOUS
<1>3. s \in Seq({s[i] : i \in DOMAIN s}) /\ RunsOf(a)' = T
  BY <1>1, <1>2 DEF RunsInv, RunsOf
<1>4. S \in SUBSET T /\ S \in SUBSET DOMAIN s /\ T \in SUBSET DOMAIN s
  BY <1>1, <1>2 DEF RunsOf
<1>5. IsFiniteSet(T) /\ Cardinality(T) \in Nat /\ Cardinality(S) \in Nat
  BY <1>3, <1>4, FinitePlaces
<1>6. Cardinality(S) <= Cardinality(T)
  BY <1>4, <1>5, FS_Subset
<1> QED BY <1>2, <1>3, <1>5, <1>6 DEF RunAgain

(* Of an analyzer that ran once the newest run is the artifact's.            *)
LEMMA NewestAreFresh ==
  ASSUME RunsInv, JobInv
  PROVE  Fresh(analyzerRunByAnalyzer)
<1> SUFFICES ASSUME NEW i \in DOMAIN job, NEW a, a = runs[job[i]].analyzer, ~ RunAgain(a)
             PROVE  analyzerRunByAnalyzer[a] = job[i]
  BY DEF Fresh
<1>1. job[i] \in RunsOf(a) /\ job[i] \in Nat \ {0} /\ a \in Analyzers
  BY RunsAreFinite DEF RunsInv, JobInv, RunsOf
<1>2. IsFiniteSet(RunsOf(a)) /\ Cardinality(RunsOf(a)) \in Nat
  BY RunsAreFinite
<1>3. Cardinality(RunsOf(a)) # 0
  BY <1>1, <1>2, FS_EmptySet
<1>4. Cardinality(RunsOf(a)) = 1
  BY <1>2, <1>3 DEF RunAgain
<1>5. PICK x : RunsOf(a) = {x}
  BY <1>2, <1>4, FS_Singleton
<1>6. RunsOf(a) \cup {0} = {job[i], 0}
  BY <1>1, <1>5
<1>7. Max({job[i], 0}) = job[i]
  <2>1. PICK n : n = job[i]
    OBVIOUS
  <2>2. n \in Nat \ {0}
    BY <1>1, <2>1
  <2>3. \A m \in {n, 0} : (\A k \in {n, 0} : m >= k) <=> m = n
    BY <2>2
  <2>4. Max({n, 0}) = n
    BY <2>3 DEF Max
  <2> QED BY <2>1, <2>4
<1> QED BY <1>1, <1>6, <1>7 DEF analyzerRunByAnalyzer

(* The row that is written for a result.                                     *)
LEMMA WrittenIsProven ==
  ASSUME PassInv, EvidenceInv, NEW p \in Passes, At(p, "write"), NEW mark \in Marks, NEW old
  PROVE  IsProven(upsertVulnerability(p, ResultOf(mark), old))
<1>0. RunsInv /\ ToolsTellApart /\ JobInv /\ Fresh(pass[p].newest)
  BY DEF PassInv, EvidenceInv
<1>1. PICK A : A = Artifacts
  OBVIOUS
<1>2. Lawful(A)
  BY <1>0, <1>1, ArtifactsAreLawful
<1>3. PICK place \in PlacesOf(A) : ResultOf(mark) = aggregateGroup(Group(A, place))
  <2>1. ResultOf(mark) = FoundAt(A, mark) /\ Marks = {found.fingerprint : found \in normalize(A)}
    BY <1>1 DEF ResultOf, Results, FoundAt, Marks
  <2>2. \A M : M = Marks => \A m \in M : \E place \in PlacesOf(A) : FoundAt(A, m) = aggregateGroup(Group(A, place))
    BY <1>2, <2>1, OneResultEach
  <2> QED BY <2>1, <2>2
<1>4. PICK items : items = ResultOf(mark).items
  OBVIOUS
<1>5. Sourced(A, items)
  BY <1>2, <1>3, <1>4, EvidenceWhole
<1>6. PICK piece : piece = [k \in DOMAIN items |->
        [id |-> <<p, ResultOf(mark).fingerprint, k>>, item |-> items[k], run |-> pass[p].newest[items[k].analyzer]]]
  OBVIOUS
<1>7. PICK row : row = upsertVulnerability(p, ResultOf(mark), old)
  OBVIOUS
<1>8. /\ row.evidence = {piece[k] : k \in DOMAIN piece} /\ DOMAIN piece = DOMAIN items
      /\ piece = [k \in DOMAIN piece |-> piece[k]]
      /\ \A k \in DOMAIN piece : piece[k].item = items[k] /\ piece[k].run = pass[p].newest[items[k].analyzer]
  <2>1. row.evidence = Evidence(p, ResultOf(mark))
    BY <1>7 DEF upsertVulnerability, toVulnerability
  <2>2. Evidence(p, ResultOf(mark)) = {piece[k] : k \in DOMAIN piece}
    BY <1>4, <1>6 DEF Evidence
  <2> QED BY <1>6, <2>1, <2>2
<1>9. IsFiniteSet(row.evidence)
  BY <1>5, <1>8, ImageOf DEF Sourced
<1>10. Cardinality(row.decisions) = 1
  <2>1. \E d : row.decisions = {d}
    BY <1>7 DEF upsertVulnerability, toVulnerability
  <2> QED BY <2>1, FS_Singleton
<1>11. \A e, f \in row.evidence : e.item = f.item => e = f
  BY <1>5, <1>8 DEF Sourced
<1>12. ASSUME NEW e \in row.evidence PROVE e.run = e.item.key \/ RunAgain(e.item.analyzer)
  <2>1. PICK k \in DOMAIN items : e = piece[k] /\ e.item = items[k] /\ e.run = pass[p].newest[items[k].analyzer]
    BY <1>8
  <2>2. PICK i \in DOMAIN A : items[k].key = A[i].key /\ items[k].analyzer = A[i].analyzer
    BY <1>5 DEF Sourced
  <2>3. i \in DOMAIN job /\ A[i].key = job[i] /\ A[i].analyzer = runs[job[i]].analyzer
    BY <1>1 DEF Artifacts
  <2>4. pass[p].newest[runs[job[i]].analyzer] = job[i] \/ RunAgain(runs[job[i]].analyzer)
    BY <1>0, <2>3 DEF Fresh
  <2> QED BY <2>1, <2>2, <2>3, <2>4
<1> QED BY <1>7, <1>9, <1>10, <1>11, <1>12 DEF IsProven

(* An analyzer step adds a run or writes one, and leaves what is proven.     *)
LEMMA RunsKeepEvidence ==
  ASSUME PassInv, EvidenceInv, RunsInv', UNCHANGED <<job, pass, rows>>, DOMAIN runs \subseteq DOMAIN runs',
         \A i \in DOMAIN runs : runs'[i].analyzer = runs[i].analyzer,
         \A i \in DOMAIN runs' :
           runs'[i].analyzer \in Analyzers /\ runs'[i].output \in Outputs[runs'[i].analyzer] \cup {<<>>},
         \A a \in Analyzers : kept'[a] # 0 => runs'[kept'[a]].analyzer = a
  PROVE  EvidenceInv'
<1>0. RunsInv /\ JobInv
  BY DEF PassInv, EvidenceInv
<1>1. \A a : RunAgain(a) => RunAgain(a)'
  BY RunsGrow
<1>2. job \in Seq(DOMAIN runs')
  BY <1>0, SeqMonotonic DEF JobInv
<1>3. \A i \in DOMAIN job : job[i] \in DOMAIN runs /\ runs'[job[i]].analyzer = runs[job[i]].analyzer
  BY <1>0 DEF RunsInv
<1>4. JobInv'
  BY <1>0, <1>2, <1>3 DEF JobInv
<1>5. \A newest : Fresh(newest) => Fresh(newest)'
  BY <1>1, <1>3 DEF Fresh
<1>6. \A row : IsProven(row) => IsProven(row)'
  BY <1>1 DEF IsProven
<1> QED BY <1>4, <1>5, <1>6 DEF EvidenceInv, At

LEMMA AnalyzerKeepsEvidence ==
  ASSUME PassInv, EvidenceInv, AnalyzerStep
  PROVE  EvidenceInv'
<1>0. RunsInv /\ RunsInv' /\ JobInv /\ UNCHANGED <<pass, rows>>
  BY AnalyzerStepInv DEF PassInv, EvidenceInv, passVars
<1>s. /\ runs \in Seq({runs[i] : i \in DOMAIN runs}) /\ DOMAIN runs = 1 .. Len(runs) /\ Len(runs) \in Nat
  <2>1. runs \in Seq({runs[i] : i \in DOMAIN runs})
    BY <1>0 DEF RunsInv
  <2> QED BY <2>1, LenProperties
<1>1. ASSUME NEW a \in Analyzers, startAnalyzerRun(a) PROVE EvidenceInv'
  <2>1. PICK new, Rows : /\ new = [analyzer |-> a, status |-> "RUNNING", output |-> <<>>, told |-> FALSE]
                         /\ Rows = {runs[i] : i \in DOMAIN runs} \cup {new}
    OBVIOUS
  <2>2. runs' = Append(runs, new) /\ UNCHANGED <<kept, job>> /\ new.analyzer = a /\ new.output = <<>>
    BY <1>1, <2>1 DEF startAnalyzerRun
  <2>3. runs \in Seq(Rows) /\ new \in Rows
    BY <1>s, <2>1, SeqMonotonic
  <2>4. /\ DOMAIN runs' = 1 .. Len(runs) + 1 /\ runs'[Len(runs) + 1] = new
        /\ \A i \in 1 .. Len(runs) : runs'[i] = runs[i]
    <3>1. PICK s : s = Append(runs, new)
      OBVIOUS
    <3>2. /\ s \in Seq(Rows) /\ Len(s) = Len(runs) + 1 /\ s[Len(runs) + 1] = new
          /\ \A i \in 1 .. Len(runs) : s[i] = runs[i]
      BY <2>3, <3>1, AppendProperties
    <3>3. DOMAIN s = 1 .. Len(s)
      BY <3>2, LenProperties
    <3> QED BY <2>2, <3>1, <3>2, <3>3
  <2>5. DOMAIN runs \subseteq DOMAIN runs' /\ \A i \in DOMAIN runs' : i \in DOMAIN runs \/ runs'[i] = new
    BY <1>s, <2>4
  <2>6. \A i \in DOMAIN runs : runs'[i] = runs[i]
    BY <1>s, <2>4
  <2>7. \A i \in DOMAIN runs' :
          runs'[i].analyzer \in Analyzers /\ runs'[i].output \in Outputs[runs'[i].analyzer] \cup {<<>>}
    BY <1>0, <2>2, <2>5, <2>6 DEF JobInv
  <2>8. \A b \in Analyzers : kept'[b] # 0 => runs'[kept'[b]].analyzer = b
    BY <1>0, <2>2, <2>6 DEF RunsInv, JobInv
  <2> QED BY <1>0, <2>2, <2>5, <2>6, <2>7, <2>8, RunsKeepEvidence
<1>2. ASSUME NEW i \in DOMAIN runs, NEW new, runs' = [runs EXCEPT ![i] = new], UNCHANGED job,
             new.analyzer = runs[i].analyzer, new.output \in Outputs[runs[i].analyzer] \cup {<<>>},
             \A a \in Analyzers : kept'[a] = kept[a] \/ (a = runs[i].analyzer /\ kept'[a] = i)
      PROVE  EvidenceInv'
  <2>1. /\ DOMAIN runs' = DOMAIN runs /\ runs'[i] = new
        /\ \A j \in DOMAIN runs \ {i} : runs'[j] = runs[j]
    BY <1>2
  <2>2. \A j \in DOMAIN runs : runs'[j].analyzer = runs[j].analyzer
    BY <1>2, <2>1
  <2>3. \A j \in DOMAIN runs' :
          runs'[j].analyzer \in Analyzers /\ runs'[j].output \in Outputs[runs'[j].analyzer] \cup {<<>>}
    BY <1>0, <1>2, <2>1 DEF JobInv
  <2>4. \A a \in Analyzers : kept'[a] # 0 => runs'[kept'[a]].analyzer = a
    <3> SUFFICES ASSUME NEW a \in Analyzers, kept'[a] # 0 PROVE runs'[kept'[a]].analyzer = a
      OBVIOUS
    <3>1. CASE kept'[a] = kept[a]
      <4>1. kept[a] \in DOMAIN runs /\ runs[kept[a]].analyzer = a
        BY <1>0, <3>1 DEF RunsInv, JobInv
      <4> QED BY <2>2, <3>1, <4>1
    <3>2. CASE a = runs[i].analyzer /\ kept'[a] = i
      BY <2>2, <3>2
    <3> QED BY <1>2, <3>1, <3>2
  <2> QED BY <1>0, <1>2, <2>1, <2>2, <2>3, <2>4, RunsKeepEvidence
<1>3. ASSUME NEW i \in DOMAIN runs, NEW s, NEW output \in Outputs[runs[i].analyzer] \cup {<<>>},
             finalizeAnalyzerRun(i, s, output)
      PROVE  EvidenceInv'
  <2>1. PICK new : new = [runs[i] EXCEPT !.status = s, !.output = output]
    OBVIOUS
  <2>2. runs' = [runs EXCEPT ![i] = new] /\ UNCHANGED <<kept, job>>
    BY <1>3, <2>1 DEF finalizeAnalyzerRun
  <2>3. new.analyzer = runs[i].analyzer /\ new.output = output
    BY <1>0, <2>1 DEF RunsInv, IsAnalyzerRun
  <2> QED BY <1>2, <1>3, <2>2, <2>3
<1>4. ASSUME NEW i \in DOMAIN runs, recordAnalyzerCompletion(i) \/ recordAnalyzerFailure(i) PROVE EvidenceInv'
  <2>1. PICK new : new = [runs[i] EXCEPT !.told = TRUE]
    OBVIOUS
  <2>2. runs' = [runs EXCEPT ![i] = new] /\ UNCHANGED job
    BY <1>4, <2>1 DEF recordAnalyzerCompletion, recordAnalyzerFailure
  <2>3. new.analyzer = runs[i].analyzer /\ new.output = runs[i].output
    BY <1>0, <2>1 DEF RunsInv, IsAnalyzerRun
  <2>4. new.output \in Outputs[runs[i].analyzer] \cup {<<>>}
    BY <1>0, <2>3 DEF JobInv
  <2>5. \A a \in Analyzers : kept'[a] = kept[a] \/ (a = runs[i].analyzer /\ kept'[a] = i)
    <3>1. kept = [a \in Analyzers |-> kept[a]]
      BY <1>0 DEF RunsInv
    <3>2. kept' = kept \/ kept' = [kept EXCEPT ![runs[i].analyzer] = i]
      BY <1>4 DEF recordAnalyzerCompletion, recordAnalyzerFailure
    <3> QED BY <3>1, <3>2
  <2> QED BY <1>2, <2>2, <2>3, <2>4, <2>5
<1>5. CASE enqueueNormalize
  <2>1. PICK keys : keys = {kept[a] : a \in {b \in Analyzers : kept[b] # 0}}
    OBVIOUS
  <2>2. job = <<>> /\ job' \in SetToSeqs(keys) /\ UNCHANGED <<runs, kept>>
    BY <1>5, <2>1 DEF enqueueNormalize
  <2>3. \A i \in keys : i \in DOMAIN runs /\ runs[i].analyzer \in Analyzers /\ i = kept[runs[i].analyzer]
    BY <1>0, <2>1 DEF RunsInv, JobInv
  <2>4. keys \in SUBSET DOMAIN runs
    BY <2>3
  <2>5. Cardinality(keys) \in Nat
    BY <1>s, <2>4, FinitePlaces
  <2>6. /\ job' \in [1 .. Cardinality(keys) -> keys]
        /\ \A i, j \in 1 .. Cardinality(keys) : i # j => job'[i] # job'[j]
    BY <2>2 DEF SetToSeqs
  <2>7. job' \in Seq(DOMAIN runs)
    <3>1. job' \in [1 .. Cardinality(keys) -> DOMAIN runs]
      BY <2>4, <2>6
    <3> QED BY <2>5, <3>1, SeqDef
  <2>8. \A i, j \in DOMAIN job' : runs[job'[i]].analyzer = runs[job'[j]].analyzer => i = j
    <3>1. DOMAIN job' = 1 .. Cardinality(keys)
      BY <2>6
    <3>2. \A i \in DOMAIN job' : job'[i] = kept[runs[job'[i]].analyzer]
      BY <2>3, <2>6, <3>1
    <3> QED BY <2>6, <3>1, <3>2
  <2>9. JobInv'
    BY <1>0, <2>2, <2>7, <2>8 DEF JobInv
  <2>10. (\A p \in Passes : ~ At(p, "write")) /\ DOMAIN rows = {}
    BY <2>2 DEF PassInv, RowsInv, At
  <2>11. (\A p \in Passes : ~ At(p, "write")') /\ DOMAIN rows' = {}
    BY <1>0, <2>10 DEF At
  <2> QED BY <2>9, <2>11 DEF EvidenceInv
<1> QED BY <1>1, <1>3, <1>4, <1>5 DEF AnalyzerStep

(* A pass moves without writing rows.                                        *)
LEMMA PassKeepsEvidence ==
  ASSUME PassInv, EvidenceInv, NEW p \in Passes, NEW c, pass' = [pass EXCEPT ![p] = c],
         c.at = "write" => Fresh(c.newest), UNCHANGED <<workerVars, rows>>
  PROVE  EvidenceInv'
<1>0. JobInv /\ RowsInv
  BY DEF PassInv, EvidenceInv
<1>1. pass'[p] = c /\ \A q \in Passes \ {p} : pass'[q] = pass[q]
  BY <1>0, PassMoves
<1>2. UNCHANGED <<runs, kept, job>>
  BY DEF workerVars
<1>3. /\ JobInv' /\ \A newest : Fresh(newest)' <=> Fresh(newest)
      /\ \A row : IsProven(row)' <=> IsProven(row)
  BY <1>0, <1>2 DEF JobInv, Fresh, IsProven, RunAgain, RunsOf
<1>4. \A q \in Passes : pass'[q].at = "write" => Fresh(pass'[q].newest)
  BY <1>1 DEF EvidenceInv, At
<1> QED BY <1>3, <1>4 DEF EvidenceInv, At

(* It writes the rows of its results, and keeps none that is not one.        *)
LEMMA PersistKeepsEvidence ==
  ASSUME PassInv, EvidenceInv, NEW p \in Passes, persistNormalizedVulnerabilities(p)
  PROVE  EvidenceInv'
<1> DEFINE written == {found.fingerprint : found \in pass[p].found}
           of(mark) == CHOOSE found \in pass[p].found : found.fingerprint = mark
           row(mark) == IF mark \notin written THEN rows[mark]
                        ELSE upsertVulnerability(p, of(mark), {rows[mark] : m \in {mark} \cap DOMAIN rows})
<1>0. JobInv /\ RowsInv /\ At(p, "write")
  BY DEF PassInv, EvidenceInv, persistNormalizedVulnerabilities
<1>1. /\ rows' = [mark \in DOMAIN rows \cup written |-> row(mark)]
      /\ pass' = [pass EXCEPT ![p] = [at |-> "ir"]] /\ UNCHANGED <<runs, kept, job>>
  BY DEF persistNormalizedVulnerabilities, workerVars
<1>2. written = Marks /\ \A mark : of(mark) = ResultOf(mark)
  BY <1>0 DEF RowsInv, Marks, ResultOf
<1>3. DOMAIN rows \cup written = Marks
  BY <1>0, <1>2 DEF RowsInv
<1>4. \A mark \in Marks : IsProven(row(mark))
  BY <1>0, <1>2, WrittenIsProven
<1> HIDE DEF row, of, written
<1>5. DOMAIN rows' = Marks /\ \A mark \in Marks : IsProven(rows'[mark])
  BY <1>1, <1>3, <1>4
<1>6. /\ JobInv' /\ \A newest : Fresh(newest)' <=> Fresh(newest)
      /\ \A r : IsProven(r)' <=> IsProven(r)
  BY <1>0, <1>1 DEF JobInv, Fresh, IsProven, RunAgain, RunsOf
<1>7. pass'[p].at # "write" /\ \A q \in Passes \ {p} : pass'[q] = pass[q]
  BY <1>0, <1>1, PassMoves
<1>8. \A q \in Passes : pass'[q].at = "write" => Fresh(pass'[q].newest)
  BY <1>7 DEF EvidenceInv, At
<1> QED BY <1>5, <1>6, <1>8 DEF EvidenceInv, At

(* Only the status of a row changes, or nothing.                             *)
LEMMA EvidenceRests ==
  ASSUME PassInv, EvidenceInv, UNCHANGED <<workerVars, pass>>,
         UNCHANGED rows \/ \E mark \in DOMAIN rows, s \in Verdicts : reviewFinding(mark, s)
  PROVE  EvidenceInv'
<1>0. JobInv /\ RowsInv /\ UNCHANGED <<runs, kept, job, pass>>
  BY DEF PassInv, EvidenceInv, workerVars
<1>1. /\ JobInv' /\ \A newest : Fresh(newest)' <=> Fresh(newest)
      /\ \A row : IsProven(row)' <=> IsProven(row)
  BY <1>0 DEF JobInv, Fresh, IsProven, RunAgain, RunsOf
<1>2. \A mark \in DOMAIN rows' : IsProven(rows'[mark])
  <2>1. CASE UNCHANGED rows
    BY <2>1 DEF EvidenceInv
  <2>2. ASSUME NEW mark \in DOMAIN rows, NEW s, reviewFinding(mark, s) PROVE \A m \in DOMAIN rows' : IsProven(rows'[m])
    <3>1. PICK new : new = [rows[mark] EXCEPT !.status = s]
      OBVIOUS
    <3>2. rows' = [rows EXCEPT ![mark] = new]
      BY <2>2, <3>1 DEF reviewFinding
    <3>3. new.evidence = rows[mark].evidence /\ new.decisions = rows[mark].decisions
      BY <1>0, <3>1 DEF RowsInv, Shows, IsRow
    <3>4. \A m \in DOMAIN rows : IsProven(rows[m])
      BY DEF EvidenceInv
    <3>5. IsProven(new)
      BY <3>3, <3>4 DEF IsProven
    <3>6. DOMAIN rows' = DOMAIN rows /\ \A m \in DOMAIN rows : rows'[m] = new \/ rows'[m] = rows[m]
      BY <3>2
    <3> QED BY <3>4, <3>5, <3>6
  <2> QED BY <2>1, <2>2
<1> QED BY <1>0, <1>1, <1>2 DEF EvidenceInv, At

LEMMA PassStepKeepsEvidence ==
  ASSUME PassInv, EvidenceInv, NEW p \in Passes, PassStep(p)
  PROVE  EvidenceInv'
<1>1. ASSUME NEW c, pass' = [pass EXCEPT ![p] = c], c.at # "write", UNCHANGED <<workerVars, rows>>
      PROVE  EvidenceInv'
  BY <1>1, PassKeepsEvidence
<1>a. ASSUME NEW where, where # "write", pass' = [pass EXCEPT ![p] = [at |-> where]],
             UNCHANGED <<workerVars, rows>>
      PROVE  EvidenceInv'
  <2>1. PICK c : c = [at |-> where]
    OBVIOUS
  <2>2. pass' = [pass EXCEPT ![p] = c] /\ c.at # "write"
    BY <1>a, <2>1
  <2> QED BY <1>1, <1>a, <2>2
<1>2. CASE readAnalyzerRuns(p)
  <2>1. PICK c : c = IF normalized = {} THEN [at |-> "ir"]
                     ELSE [at |-> "write", newest |-> analyzerRunByAnalyzer, found |-> normalized]
    OBVIOUS
  <2>2. pass' = [pass EXCEPT ![p] = c] /\ UNCHANGED <<workerVars, rows>>
    BY <1>2, <2>1 DEF readAnalyzerRuns
  <2>3. c.at = "write" => c.newest = analyzerRunByAnalyzer
    BY <2>1
  <2>4. Fresh(analyzerRunByAnalyzer)
    BY NewestAreFresh DEF PassInv, EvidenceInv
  <2> QED BY <2>2, <2>3, <2>4, PassKeepsEvidence
<1>3. CASE startPass(p)
  BY <1>a, <1>3 DEF startPass
<1>4. CASE normalizeArtifacts(p)
  BY <1>a, <1>4 DEF normalizeArtifacts
<1>5. CASE persistNormalizedVulnerabilities(p)
  BY <1>5, PersistKeepsEvidence
<1>6. CASE deleteFindingCodeLinks(p)
  <2>1. PICK c : c = [at |-> "irRuns", links |-> links]
    OBVIOUS
  <2>2. pass' = [pass EXCEPT ![p] = c] /\ c.at # "write" /\ UNCHANGED <<workerVars, rows>>
    BY <1>6, <2>1 DEF deleteFindingCodeLinks
  <2> QED BY <1>1, <2>2
<1>7. CASE deleteIrRuns(p)
  <2>1. PICK c : c = [at |-> "irCommit", links |-> pass[p].links, irRuns |-> irRuns]
    OBVIOUS
  <2>2. pass' = [pass EXCEPT ![p] = c] /\ c.at # "write" /\ UNCHANGED <<workerVars, rows>>
    BY <1>7, <2>1 DEF deleteIrRuns
  <2> QED BY <1>1, <2>2
<1>8. CASE replaceIrRun(p)
  BY <1>a, <1>8 DEF replaceIrRun
<1>9. CASE enqueueRiskScore(p)
  BY <1>a, <1>9 DEF enqueueRiskScore
<1>10. CASE PassFails(p)
  BY <1>a, <1>10 DEF PassFails
<1> QED BY <1>2, <1>3, <1>4, <1>5, <1>6, <1>7, <1>8, <1>9, <1>10 DEF PassStep

LEMMA EvidenceInvariant == ToolsTellApart /\ FindingSpec => []EvidenceInv
<1>1. ToolsTellApart /\ FindingInit => EvidenceInv
  <2> SUFFICES ASSUME ToolsTellApart, FindingInit PROVE EvidenceInv
    OBVIOUS
  <2>1. runs = <<>> /\ job = <<>> /\ rows = <<>> /\ kept = [a \in Analyzers |-> 0]
    BY DEF FindingInit
  <2>2. <<>> \in Seq(DOMAIN <<>>) /\ DOMAIN <<>> = {}
    BY EmptySeq
  <2>3. JobInv
    BY <2>1, <2>2 DEF JobInv
  <2>4. \A p \in Passes : ~ At(p, "write")
    BY DEF FindingInit, At, Idle
  <2> QED BY <2>1, <2>2, <2>3, <2>4 DEF EvidenceInv
<1>2. ASSUME PassInv, EvidenceInv, NEW v \in Validations, ValidationStep(v) PROVE EvidenceInv'
  <2>1. UNCHANGED <<build, workerVars, passVars>>
    BY <1>2 DEF ValidationStep, enqueueValidation, persistProviderNotConfigured, buildPack, createRunningRun,
         generateJson, persistFindingValidation, persistCritique, persistReviewNote, finalizeRun,
         persistUsage, failRun, WorkerCrashes, Writes, Stays
  <2> QED BY <1>2, <2>1, EvidenceRests DEF passVars
<1>3. ASSUME PassInv, EvidenceInv, scoreRisk PROVE EvidenceInv'
  BY <1>3, EvidenceRests DEF scoreRisk
<1>4. ASSUME PassInv, EvidenceInv, NEW mark \in DOMAIN rows, NEW s \in Verdicts, reviewFinding(mark, s)
      PROVE  EvidenceInv'
  BY <1>4, EvidenceRests DEF reviewFinding
<1>5. ASSUME PassInv, EvidenceInv, UNCHANGED findingVars PROVE EvidenceInv'
  BY <1>5, EvidenceRests DEF findingVars, passVars
<1>6. PassInv /\ EvidenceInv /\ [FindingNext]_findingVars => EvidenceInv'
  BY <1>2, <1>3, <1>4, <1>5, AnalyzerKeepsEvidence, PassStepKeepsEvidence DEF FindingNext
<1> QED BY <1>1, <1>6, PassInvariant, PTL DEF FindingSpec

(* However often the job ran, wholly or not, and in whatever order its       *)
(* artifacts were listed (LocalFindingsNormalizationService.normalize,       *)
(* persistNormalizedVulnerabilities): once written there is one finding for  *)
(* every place that the artifacts report, with all evidence for it exactly   *)
(* once, one decision, and the run each piece is from unless its analyzer    *)
(* was run again, provided that no tool reports one issue in two ways.       *)
THEOREM RowsAreTheArtifacts == ToolsTellApart /\ FindingSpec => []RowsMatchArtifacts
BY EvidenceInvariant, PassInvariant, ProvenRowsMatch, PTL DEF FindingSpec

-----------------------------------------------------------------------------
(* FindingReview.                                                            *)

ReviewRows ==
  [status : ReviewStatuses \cup {"NONE"}, before : ReviewStatuses \cup {"NONE"},
   rule : Rules \cup {"NONE"}, owner : Owners \cup {"NONE"}]

Operations ==
  [kind : {"status"}, status : Decisions] \cup [kind : {"suppress", "rule"}, rule : Rules \cup {"NONE"}]
    \cup [kind : {"unsuppress", "comment"}] \cup [kind : {"assign", "owner"}, owner : Owners]

Partial == UNION {[D -> ReviewRows] : D \in SUBSET Findings}

OpenTxs ==
  [op : Operations, todo : SUBSET Findings, at : SUBSET Findings, pending : Partial, read : Partial]

ReviewTypes ==
  /\ status \in [Findings -> VulnerabilityStatuses \cup {"NONE"}]
  /\ review \in [Findings -> ReviewRows] /\ rule \in [Rules -> {"NONE", "ACTIVE", "DELETED"}]
  /\ tx \in [Txs -> OpenTxs \cup {NoTx}]
  /\ shown \in [Findings -> ReviewStatuses \ {"SUPPRESSED"}]
  /\ disturbed \in [Findings -> BOOLEAN] /\ patched \in [Findings -> BOOLEAN]

(* What an open transaction goes through: findings to take up, the one it    *)
(* has read, those it has written, whose rows nobody has changed since.      *)
TxInv(t) ==
  tx[t] # NoTx =>
    /\ tx[t].todo \cup tx[t].at \cup DOMAIN tx[t].pending \subseteq Found
    /\ tx[t].at \cup DOMAIN tx[t].pending \subseteq DOMAIN tx[t].read
    /\ tx[t].at \cap tx[t].todo = {} /\ DOMAIN tx[t].pending \cap (tx[t].todo \cup tx[t].at) = {}
    /\ \A f \in DOMAIN tx[t].pending :
         tx[t].pending[f] = After(tx[t].op, tx[t].read[f], review[f])

Exclusive == \A t, u \in Txs : t # u => Written(t) \cap Written(u) = {}

(* A finding and its review; `shown` is what the review shows, unless it is  *)
(* suppressed, and then nothing is remembered.                               *)
FindingInv(f) ==
  /\ review[f] = NoReview \/ review[f].status # "NONE"
  /\ review[f] = NoReview /\ ~ patched[f] => status[f] \in {"NONE", "OPEN"}
  /\ review[f] # NoReview /\ ~ patched[f] => status[f] = mapReviewStatus(review[f].status)
  /\ review[f].status # "SUPPRESSED" => shown[f] = StatusOf(review[f]) /\ review[f].before = "NONE"
  /\ review[f].status = "SUPPRESSED" /\ ~ disturbed[f] => Otherwise(review[f].before, "UNREVIEWED") = shown[f]

ReviewInv ==
  /\ ReviewTypes /\ Exclusive
  /\ \A t \in Txs : TxInv(t)
  /\ \A f \in Findings : FindingInv(f)

(* What an operation makes of a row: it shows something afterwards, nothing  *)
(* is remembered unless it is suppressed, an operation that sets no status   *)
(* changes none.                                                             *)
LEMMA AfterRow ==
  ASSUME NEW op \in Operations, NEW read \in ReviewRows, NEW row \in ReviewRows,
         row = NoReview \/ row.status # "NONE"
  PROVE  /\ After(op, read, row) \in ReviewRows
         /\ After(op, read, row).status # "NONE" /\ After(op, read, row) # NoReview
         /\ ~ SetsStatus(op) => /\ After(op, read, row).status = StatusOf(row)
                                /\ After(op, read, row).before = row.before
         /\ SetsStatus(op) /\ After(op, read, row).status # "SUPPRESSED" => After(op, read, row).before = "NONE"
<1>0. /\ StatusOf(row) \in ReviewStatuses /\ StatusOf(read) \in ReviewStatuses
      /\ Otherwise(read.before, "UNREVIEWED") \in ReviewStatuses
  BY DEF StatusOf, Otherwise, ReviewRows, ReviewStatuses
<1>n. "NONE" \notin ReviewStatuses /\ Decisions \subseteq ReviewStatuses /\ "SUPPRESSED" \in ReviewStatuses
      /\ NoReview.status = "NONE"
  BY ReviewAssumption DEF ReviewStatuses, NoReview
<1>1. CASE op.kind = "status"
  <2>1. op.status \in ReviewStatuses
    BY <1>1, <1>n DEF Operations
  <2>2. After(op, read, row) = changeStatus(op, read, row)
    BY <1>1 DEF After
  <2>3. changeStatus(op, read, row) \in ReviewRows /\ changeStatus(op, read, row).status = op.status
        /\ (op.status # "SUPPRESSED" => changeStatus(op, read, row).before = "NONE")
    BY <1>0, <2>1 DEF changeStatus, ReviewRows
  <2> QED BY <1>1, <1>n, <2>1, <2>2, <2>3 DEF SetsStatus
<1>2. CASE op.kind \in {"suppress", "rule"}
  <2>1. After(op, read, row) = Suppress(op, read, row)
    BY <1>2 DEF After
  <2>2. op.rule \in Rules \cup {"NONE"}
    BY <1>2 DEF Operations
  <2>3. Otherwise(op.rule, read.rule) \in Rules \cup {"NONE"}
    BY <2>2 DEF Otherwise, ReviewRows
  <2>4. Suppress(op, read, row) \in ReviewRows /\ Suppress(op, read, row).status = "SUPPRESSED"
    BY <1>0, <1>n, <2>3 DEF Suppress, ReviewRows
  <2> QED BY <1>2, <1>n, <2>1, <2>4 DEF SetsStatus
<1>3. CASE op.kind = "unsuppress"
  <2>1. After(op, read, row) = Unsuppress(read, row)
    BY <1>3 DEF After
  <2>2. Unsuppress(read, row) \in ReviewRows /\ Unsuppress(read, row).before = "NONE"
        /\ Unsuppress(read, row).status = Otherwise(read.before, "UNREVIEWED")
    BY <1>0 DEF Unsuppress, ReviewRows
  <2> QED BY <1>0, <1>3, <1>n, <2>1, <2>2 DEF SetsStatus
<1>4. CASE op.kind = "comment"
  <2>1. After(op, read, row) = ensureReview(row)
    BY <1>4 DEF After
  <2>2. ensureReview(row) \in ReviewRows /\ ensureReview(row).before = row.before
        /\ ensureReview(row).status = StatusOf(row)
    BY <1>0 DEF ensureReview, ReviewRows
  <2> QED BY <1>0, <1>4, <1>n, <2>1, <2>2 DEF SetsStatus
<1>5. CASE op.kind \in {"assign", "owner"}
  <2>1. After(op, read, row) = [ensureReview(row) EXCEPT !.owner = op.owner] /\ op.owner \in Owners
    BY <1>5 DEF After, Operations
  <2>2. ensureReview(row) \in ReviewRows /\ ensureReview(row).before = row.before
        /\ ensureReview(row).status = StatusOf(row)
    BY <1>0 DEF ensureReview, ReviewRows
  <2>3. After(op, read, row) \in ReviewRows /\ After(op, read, row).before = row.before
        /\ After(op, read, row).status = StatusOf(row)
    <3> DEFINE new == ensureReview(row)
    <3> HIDE DEF new
    <3>1. [new EXCEPT !.owner = op.owner] \in ReviewRows /\ [new EXCEPT !.owner = op.owner].before = new.before
          /\ [new EXCEPT !.owner = op.owner].status = new.status
      BY <2>1, <2>2 DEF ReviewRows, new
    <3> QED BY <2>1, <2>2, <3>1 DEF new
  <2> QED BY <1>0, <1>5, <1>n, <2>3 DEF SetsStatus
<1> QED BY <1>1, <1>2, <1>3, <1>4, <1>5 DEF Operations

(* A row that is suppressed by somebody who read what is there remembers     *)
(* what is shown.                                                            *)
LEMMA RemembersWhatIsShown ==
  ASSUME NEW op \in Operations, NEW read \in ReviewRows, NEW row \in ReviewRows, SetsStatus(op),
         NEW s \in ReviewStatuses \ {"SUPPRESSED"},
         row = NoReview \/ row.status # "NONE",
         row.status # "SUPPRESSED" => s = StatusOf(row) /\ row.before = "NONE",
         row.status = "SUPPRESSED" => Otherwise(row.before, "UNREVIEWED") = s,
         StatusOf(read) = StatusOf(row), read.before = row.before,
         ~ (op.kind = "status" /\ row.status = "SUPPRESSED"),
         After(op, read, row).status = "SUPPRESSED"
  PROVE  Otherwise(After(op, read, row).before, "UNREVIEWED") = s
<1>n. "NONE" \notin ReviewStatuses
  BY DEF ReviewStatuses
<1>s. StatusOf(row) = "SUPPRESSED" <=> row.status = "SUPPRESSED"
  BY DEF StatusOf, Otherwise
<1>1. CASE op.kind = "status"
  <2>1. row.status # "SUPPRESSED" /\ After(op, read, row) = changeStatus(op, read, row)
    BY <1>1 DEF After
  <2>2. op.status = "SUPPRESSED"
        /\ changeStatus(op, read, row).before = IF row # NoReview THEN StatusOf(read) ELSE "NONE"
    BY <2>1 DEF changeStatus, ReviewRows
  <2>3. CASE row # NoReview
    BY <1>n, <2>1, <2>2, <2>3 DEF Otherwise
  <2>4. CASE row = NoReview
    BY <2>1, <2>2, <2>4 DEF Otherwise, StatusOf, NoReview
  <2> QED BY <2>3, <2>4
<1>2. CASE op.kind \in {"suppress", "rule"}
  <2>1. After(op, read, row).before = IF StatusOf(read) = "SUPPRESSED" THEN Otherwise(read.before, "UNREVIEWED")
                                                                      ELSE StatusOf(read)
    BY <1>2 DEF After, Suppress, ReviewRows
  <2>2. After(op, read, row).before = s
    BY <1>s, <2>1
  <2> QED BY <1>n, <2>2 DEF Otherwise
<1>3. CASE op.kind = "unsuppress"
  <2>1. After(op, read, row).status = Otherwise(read.before, "UNREVIEWED")
    BY <1>3 DEF After, Unsuppress, ReviewRows
  <2>2. Otherwise(row.before, "UNREVIEWED") = "SUPPRESSED"
    BY <2>1
  <2>3. row.before = "SUPPRESSED"
    BY <2>2 DEF Otherwise
  <2> QED BY <2>2, <2>3
<1> QED BY <1>1, <1>2, <1>3 DEF SetsStatus

LEMMA PartialFns ==
  ASSUME NEW h
  PROVE  h \in Partial <=> DOMAIN h \subseteq Findings /\ h \in [DOMAIN h -> ReviewRows]
BY DEF Partial

(* One transaction moves and nothing is published.                           *)
LEMMA TxMoves ==
  ASSUME ReviewInv, NEW t \in Txs, NEW o \in OpenTxs \cup {NoTx}, tx' = [tx EXCEPT ![t] = o],
         UNCHANGED <<status, review, shown, disturbed, patched>>,
         rule' \in [Rules -> {"NONE", "ACTIVE", "DELETED"}],
         Written(t)' \subseteq Written(t) \/ \A u \in Txs \ {t} : Written(u) \cap Written(t)' = {},
         TxInv(t)'
  PROVE  ReviewInv'
<1>0. ReviewTypes /\ Exclusive /\ (\A u \in Txs : TxInv(u)) /\ \A f \in Findings : FindingInv(f)
  BY DEF ReviewInv
<1>1. tx' \in [Txs -> OpenTxs \cup {NoTx}] /\ \A u \in Txs \ {t} : tx'[u] = tx[u]
  BY <1>0 DEF ReviewTypes
<1>2. ReviewTypes'
  BY <1>0, <1>1 DEF ReviewTypes
<1>3. \A u \in Txs \ {t} : Written(u)' = Written(u) /\ TxInv(u)'
  <2>1. Found' = Found
    BY DEF Found
  <2> QED BY <1>0, <1>1, <2>1 DEF Written, TxInv
<1>4. Exclusive'
  BY <1>0, <1>3 DEF Exclusive
<1>5. \A f \in Findings : FindingInv(f)'
  BY <1>0 DEF FindingInv
<1> QED BY <1>2, <1>3, <1>4, <1>5 DEF ReviewInv

LEMMA BeginInv ==
  ASSUME ReviewInv, NEW t \in Txs, NEW o \in Operations, NEW todo \in SUBSET Found, NEW at \in SUBSET Found,
         at \cap todo = {}, Begin(t, o, todo, at)
  PROVE  ReviewInv'
<1>0. ReviewTypes
  BY DEF ReviewInv
<1> DEFINE new == [op |-> o, todo |-> todo, at |-> at, pending |-> <<>>, read |-> [f \in at |-> review[f]]]
<1>1. tx' = [tx EXCEPT ![t] = new] /\ UNCHANGED <<status, review, rule, shown, disturbed, patched>>
  BY DEF Begin
<1>2. Found \subseteq Findings
  BY DEF Found
<1>3. <<>> \in Partial /\ DOMAIN <<>> = {}
  <2>1. <<>> \in [{} -> ReviewRows]
    OBVIOUS
  <2> QED BY <2>1 DEF Partial
<1>4. [f \in at |-> review[f]] \in Partial
  BY <1>0, <1>2, PartialFns DEF ReviewTypes
<1>5. new \in OpenTxs /\ new.todo = todo /\ new.at = at /\ DOMAIN new.pending = {} /\ DOMAIN new.read = at
  BY <1>2, <1>3, <1>4 DEF OpenTxs
<1> HIDE DEF new
<1>6. tx'[t] = new /\ Found' = Found
  BY <1>0, <1>1 DEF ReviewTypes, Found
<1>7. TxInv(t)'
  BY <1>5, <1>6 DEF TxInv
<1>8. Written(t)' = {}
  BY <1>5, <1>6 DEF Written
<1> QED BY <1>0, <1>1, <1>5, <1>7, <1>8, TxMoves DEF ReviewTypes

LEMMA ReviewOneInv ==
  ASSUME ReviewInv, NEW t \in Txs, NEW f \in Findings, ReviewOne(t, f)
  PROVE  ReviewInv'
<1>1. {} \in SUBSET Found /\ {f} \in SUBSET Found
  BY DEF ReviewOne
<1>2. ASSUME NEW o \in Operations, Begin(t, o, {}, {f}) PROVE ReviewInv'
  BY <1>1, <1>2, BeginInv
<1>3. \A s \in Decisions : [kind |-> "status", status |-> s] \in Operations
  BY DEF Operations
<1>4. \A r \in Rules \cup {"NONE"} : [kind |-> "suppress", rule |-> r] \in Operations
  BY DEF Operations
<1>5. [kind |-> "unsuppress"] \in Operations /\ [kind |-> "comment"] \in Operations
  BY DEF Operations
<1>6. \A w \in Owners : [kind |-> "assign", owner |-> w] \in Operations
  BY DEF Operations
<1> QED BY <1>2, <1>3, <1>4, <1>5, <1>6 DEF ReviewOne

LEMMA ReadReviewInv ==
  ASSUME ReviewInv, NEW t \in Txs, NEW f \in Findings, ReadReview(t, f)
  PROVE  ReviewInv'
<1>0. ReviewTypes /\ TxInv(t) /\ tx[t] \in OpenTxs /\ tx[t] # NoTx
  BY DEF ReviewInv, ReadReview, ReviewTypes
<1> DEFINE fresh == [g \in {f} |-> review[f]]
           read == Over(fresh, tx[t].read)
           new == [tx[t] EXCEPT !.todo = @ \ {f}, !.at = {f}, !.read = read]
<1>1. /\ tx' = [tx EXCEPT ![t] = new] /\ f \in tx[t].todo /\ tx[t].at = {}
      /\ UNCHANGED <<status, review, rule, shown, disturbed, patched>>
  BY <1>0 DEF ReadReview, ReviewTypes
<1>2. tx[t].read \in [DOMAIN tx[t].read -> ReviewRows] /\ DOMAIN tx[t].read \subseteq Findings
  BY <1>0, PartialFns DEF OpenTxs
<1>3. fresh \in [{f} -> ReviewRows]
  BY <1>0 DEF ReviewTypes
<1>4. /\ read \in [{f} \cup DOMAIN tx[t].read -> ReviewRows]
      /\ \A g \in DOMAIN tx[t].read \ {f} : read[g] = tx[t].read[g]
  <2>1. PICK old : old = tx[t].read
    OBVIOUS
  <2> HIDE DEF fresh
  <2>2. /\ Over(fresh, old) \in [{f} \cup DOMAIN old -> ReviewRows]
        /\ \A g \in DOMAIN old \ {f} : Over(fresh, old)[g] = old[g]
    BY <1>2, <1>3, <2>1 DEF Over
  <2> QED BY <2>1, <2>2
<1>5. read \in Partial /\ DOMAIN read = {f} \cup DOMAIN tx[t].read
  BY <1>2, <1>4, PartialFns
<1> HIDE DEF fresh, read
<1>6. new \in OpenTxs
  BY <1>0, <1>5 DEF OpenTxs
<1>7. /\ new.todo = tx[t].todo \ {f} /\ new.at = {f} /\ new.read = read
      /\ new.pending = tx[t].pending /\ new.op = tx[t].op
  BY <1>0 DEF OpenTxs
<1> HIDE DEF new
<1>8. tx'[t] = new /\ Found' = Found
  BY <1>0, <1>1 DEF ReviewTypes, Found
<1>9. TxInv(t)'
  BY <1>0, <1>1, <1>4, <1>5, <1>7, <1>8 DEF TxInv
<1>10. Written(t)' \subseteq Written(t)
  BY <1>0, <1>7, <1>8 DEF Written
<1> QED BY <1>0, <1>1, <1>6, <1>9, <1>10, TxMoves DEF ReviewTypes

(* The rows of a transaction are published together: only what another one   *)
(* has written too would be disturbed by it, and nobody has.                 *)
LEMMA PublishInv ==
  ASSUME ReviewInv, NEW t \in Txs, tx[t] # NoTx, NEW left, Publish(tx[t], left),
         DOMAIN left \subseteq Found, DOMAIN left \subseteq DOMAIN tx[t].read,
         \A f \in DOMAIN left : left[f] = After(tx[t].op, tx[t].read[f], review[f]),
         left = [f \in DOMAIN left |-> left[f]],
         \A u \in Txs \ {t} : DOMAIN left \cap Written(u) = {},
         tx' = [tx EXCEPT ![t] = NoTx], rule' \in [Rules -> {"NONE", "ACTIVE", "DELETED"}]
  PROVE  ReviewInv'
<1> DEFINE o == tx[t]
           done == DOMAIN left
           sets == SetsStatus(o.op)
<1>0. /\ ReviewTypes /\ Exclusive /\ (\A u \in Txs : TxInv(u)) /\ (\A f \in Findings : FindingInv(f))
      /\ o \in OpenTxs /\ done \subseteq Findings
  BY DEF ReviewInv, ReviewTypes, Found
<1>1. o.op \in Operations /\ \A f \in DOMAIN o.read : o.read[f] \in ReviewRows
  BY <1>0, PartialFns DEF OpenTxs
<1>2. ASSUME NEW f \in done
      PROVE  /\ left[f] \in ReviewRows /\ left[f].status # "NONE" /\ left[f] # NoReview
             /\ ~ sets => left[f].status = StatusOf(review[f]) /\ left[f].before = review[f].before
             /\ sets /\ left[f].status # "SUPPRESSED" => left[f].before = "NONE"
  <2>1. f \in Findings /\ review[f] \in ReviewRows /\ o.read[f] \in ReviewRows
    BY <1>0, <1>1, <1>2 DEF ReviewTypes
  <2>2. review[f] = NoReview \/ review[f].status # "NONE"
    BY <1>0, <2>1 DEF FindingInv
  <2> QED BY <1>1, <1>2, <2>1, <2>2, AfterRow
<1>3. /\ review' \in [Findings -> ReviewRows] /\ \A f \in done : review'[f] = left[f]
      /\ \A f \in Findings \ done : review'[f] = review[f]
  <2>1. review' = Over(left, review)
    BY DEF Publish
  <2> QED BY <1>0, <1>2, <2>1 DEF Over, ReviewTypes
<1>4. ASSUME sets
      PROVE  /\ status' \in [Findings -> VulnerabilityStatuses \cup {"NONE"}]
             /\ shown' \in [Findings -> ReviewStatuses \ {"SUPPRESSED"}]
             /\ disturbed' \in [Findings -> BOOLEAN] /\ patched' \in [Findings -> BOOLEAN]
             /\ \A f \in done : /\ status'[f] = mapReviewStatus(left[f].status) /\ patched'[f] = FALSE
                                /\ left[f].status # "SUPPRESSED" => shown'[f] = left[f].status
                                /\ left[f].status = "SUPPRESSED" =>
                                     shown'[f] = shown[f] /\ (~ disturbed'[f] => ~ Stale(o, f))
             /\ \A f \in Findings \ done :
                  /\ status'[f] = status[f] /\ patched'[f] = patched[f]
                  /\ shown'[f] = shown[f] /\ disturbed'[f] = disturbed[f]
  <2> DEFINE s1 == [f \in done |-> mapReviewStatus(left[f].status)]
             s2 == [f \in done |-> FALSE]
             s3 == [f \in done |-> IF left[f].status = "SUPPRESSED" THEN shown[f] ELSE left[f].status]
             s4 == [f \in done |-> left[f].status = "SUPPRESSED" /\ Stale(o, f)]
  <2>1. /\ status' = Over(s1, status) /\ patched' = Over(s2, patched)
        /\ shown' = Over(s3, shown) /\ disturbed' = Over(s4, disturbed)
    BY <1>4 DEF Publish
  <2>2. s1 \in [done -> VulnerabilityStatuses \cup {"NONE"}]
    BY DEF mapReviewStatus, VulnerabilityStatuses
  <2>3. s3 \in [done -> ReviewStatuses \ {"SUPPRESSED"}]
    <3>1. \A f \in done : left[f].status \in ReviewStatuses /\ shown[f] \in ReviewStatuses \ {"SUPPRESSED"}
      BY <1>0, <1>2 DEF ReviewRows, ReviewTypes
    <3> QED BY <3>1
  <2>4. s2 \in [done -> BOOLEAN] /\ s4 \in [done -> BOOLEAN]
    BY DEF Stale
  <2>5. \A f \in done : /\ s1[f] = mapReviewStatus(left[f].status) /\ s2[f] = FALSE
                        /\ left[f].status # "SUPPRESSED" => s3[f] = left[f].status
                        /\ left[f].status = "SUPPRESSED" => s3[f] = shown[f] /\ (~ s4[f] => ~ Stale(o, f))
    OBVIOUS
  <2> HIDE DEF s1, s2, s3, s4, done
  <2>6. /\ status' \in [Findings -> VulnerabilityStatuses \cup {"NONE"}]
        /\ (\A f \in done : status'[f] = s1[f]) /\ \A f \in Findings \ done : status'[f] = status[f]
    BY <1>0, <2>1, <2>2 DEF Over, ReviewTypes
  <2>7. /\ shown' \in [Findings -> ReviewStatuses \ {"SUPPRESSED"}]
        /\ (\A f \in done : shown'[f] = s3[f]) /\ \A f \in Findings \ done : shown'[f] = shown[f]
    BY <1>0, <2>1, <2>3 DEF Over, ReviewTypes
  <2>8. /\ patched' \in [Findings -> BOOLEAN]
        /\ (\A f \in done : patched'[f] = s2[f]) /\ \A f \in Findings \ done : patched'[f] = patched[f]
    BY <1>0, <2>1, <2>4 DEF Over, ReviewTypes
  <2>9. /\ disturbed' \in [Findings -> BOOLEAN]
        /\ (\A f \in done : disturbed'[f] = s4[f]) /\ \A f \in Findings \ done : disturbed'[f] = disturbed[f]
    BY <1>0, <2>1, <2>4 DEF Over, ReviewTypes
  <2> QED BY <2>5, <2>6, <2>7, <2>8, <2>9
<1>5. ~ sets => UNCHANGED <<status, patched, shown, disturbed>>
  BY DEF Publish
<1>6. tx' \in [Txs -> OpenTxs \cup {NoTx}] /\ tx'[t] = NoTx /\ \A u \in Txs \ {t} : tx'[u] = tx[u]
  BY <1>0 DEF ReviewTypes
<1>7. ReviewTypes'
  BY <1>0, <1>3, <1>4, <1>5, <1>6 DEF ReviewTypes
<1>8. Found \subseteq Found'
  <2>1. \A s : mapReviewStatus(s) # "NONE"
    BY DEF mapReviewStatus
  <2>2. ASSUME NEW f \in Findings, status[f] # "NONE" PROVE status'[f] # "NONE"
    <3>1. CASE sets
      <4>1. f \in done => status'[f] = mapReviewStatus(left[f].status)
        BY <1>4, <3>1
      <4>2. f \notin done => status'[f] = status[f]
        BY <1>4, <3>1
      <4> QED BY <2>1, <2>2, <4>1, <4>2
    <3>2. CASE ~ sets
      BY <1>5, <2>2, <3>2
    <3> QED BY <3>1, <3>2
  <2> QED BY <2>2 DEF Found
<1>9. ASSUME NEW u \in Txs PROVE TxInv(u)' /\ Written(u)' \subseteq Written(u)
  <2>1. CASE u = t
    BY <1>6, <2>1 DEF TxInv, Written
  <2>2. CASE u # t
    <3>1. tx'[u] = tx[u] /\ TxInv(u) /\ Written(u)' = Written(u)
      BY <1>0, <1>6, <2>2 DEF Written
    <3>2. ASSUME tx[u] # NoTx PROVE \A f \in DOMAIN tx[u].pending : f \in Findings \ done
      <4>1. DOMAIN tx[u].pending \cap done = {}
        BY <2>2, <3>2 DEF Written
      <4>2. DOMAIN tx[u].pending \subseteq Findings
        BY <3>1, <3>2 DEF TxInv, Found
      <4> QED BY <4>1, <4>2
    <3> QED BY <1>3, <1>8, <3>1, <3>2 DEF TxInv
  <2> QED BY <2>1, <2>2
<1>10. Exclusive'
  BY <1>0, <1>9 DEF Exclusive
<1>11. ASSUME NEW f \in Findings PROVE FindingInv(f)'
  <2>1. CASE f \notin done
    <3>1. /\ review'[f] = review[f] /\ status'[f] = status[f] /\ patched'[f] = patched[f]
          /\ shown'[f] = shown[f] /\ disturbed'[f] = disturbed[f]
      BY <1>3, <1>4, <1>5, <2>1
    <3> QED BY <1>0, <3>1 DEF FindingInv
  <2>2. CASE f \in done /\ ~ sets
    <3>1. /\ status[f] # "NONE" /\ review'[f] = left[f] /\ left[f].status = StatusOf(review[f])
          /\ left[f].before = review[f].before /\ left[f].status # "NONE"
          /\ UNCHANGED <<status, patched, shown, disturbed>>
      BY <1>2, <1>3, <1>5, <2>2 DEF Found
    <3>2. FindingInv(f) /\ NoReview.status = "NONE" /\ NoReview.before = "NONE"
      BY <1>0 DEF NoReview
    <3>3. CASE review[f] = NoReview
      <4>1. left[f].status = "UNREVIEWED" /\ left[f].before = "NONE"
        BY <3>1, <3>2, <3>3 DEF StatusOf, Otherwise
      <4>2. shown[f] = "UNREVIEWED" /\ (~ patched[f] => status[f] = "OPEN")
        BY <3>1, <3>2, <3>3 DEF FindingInv, StatusOf, Otherwise
      <4> QED BY <3>1, <4>1, <4>2 DEF FindingInv, StatusOf, Otherwise, mapReviewStatus
    <3>4. CASE review[f] # NoReview
      <4>1. left[f].status = review[f].status
        BY <3>1, <3>2, <3>4 DEF FindingInv, StatusOf, Otherwise
      <4> QED BY <3>1, <3>2, <3>4, <4>1 DEF FindingInv, StatusOf, Otherwise
    <3> QED BY <3>3, <3>4
  <2>3. CASE f \in done /\ sets
    <3>1. /\ review'[f] = left[f] /\ left[f] # NoReview /\ left[f].status # "NONE"
          /\ status'[f] = mapReviewStatus(left[f].status) /\ patched'[f] = FALSE
      BY <1>2, <1>3, <1>4, <2>3
    <3>2. CASE left[f].status # "SUPPRESSED"
      <4>1. shown'[f] = left[f].status /\ left[f].before = "NONE"
        BY <1>2, <1>4, <2>3, <3>2
      <4> QED BY <3>1, <3>2, <4>1 DEF FindingInv, StatusOf, Otherwise
    <3>3. CASE left[f].status = "SUPPRESSED"
      <4>1. shown'[f] = shown[f] /\ (~ disturbed'[f] => ~ Stale(o, f))
        BY <1>4, <2>3, <3>3
      <4>2. ASSUME ~ disturbed'[f] PROVE Otherwise(left[f].before, "UNREVIEWED") = shown[f]
        <5>1. /\ StatusOf(o.read[f]) = StatusOf(review[f]) /\ o.read[f].before = review[f].before
              /\ ~ (o.op.kind = "status" /\ review[f].status = "SUPPRESSED")
              /\ ~ (disturbed[f] /\ review[f].status = "SUPPRESSED")
          BY <4>1, <4>2 DEF Stale
        <5>2. /\ review[f] \in ReviewRows /\ o.read[f] \in ReviewRows
              /\ shown[f] \in ReviewStatuses \ {"SUPPRESSED"} /\ FindingInv(f)
          BY <1>0, <1>1, <2>3 DEF ReviewTypes
        <5>3. /\ review[f] = NoReview \/ review[f].status # "NONE"
              /\ review[f].status # "SUPPRESSED" => shown[f] = StatusOf(review[f]) /\ review[f].before = "NONE"
              /\ review[f].status = "SUPPRESSED" => Otherwise(review[f].before, "UNREVIEWED") = shown[f]
          BY <5>1, <5>2 DEF FindingInv
        <5>4. left[f] = After(o.op, o.read[f], review[f])
          BY <2>3
        <5> HIDE DEF o
        <5> QED BY <1>1, <2>3, <3>3, <5>1, <5>2, <5>3, <5>4, RemembersWhatIsShown
      <4> QED BY <3>1, <3>3, <4>1, <4>2 DEF FindingInv
    <3> QED BY <3>2, <3>3
  <2> QED BY <2>1, <2>2, <2>3
<1> QED BY <1>7, <1>9, <1>10, <1>11 DEF ReviewInv

LEMMA WriteReviewInv ==
  ASSUME ReviewInv, NEW t \in Txs, NEW f \in Findings, WriteReview(t, f)
  PROVE  ReviewInv'
<1>0. /\ ReviewTypes /\ Exclusive /\ TxInv(t) /\ tx[t] \in OpenTxs /\ tx[t] # NoTx
      /\ \A g \in Findings : FindingInv(g)
  BY DEF ReviewInv, WriteReview, ReviewTypes
<1> DEFINE mine == [g \in {f} |-> After(tx[t].op, tx[t].read[f], review[f])]
<1>p. PICK left : left = Over(mine, tx[t].pending)
  OBVIOUS
<1>1. /\ tx[t].at = {f} /\ ~ Locked(f, t)
      /\ \/ /\ tx[t].todo = {} /\ Publish(tx[t], left) /\ tx' = [tx EXCEPT ![t] = NoTx]
            /\ rule' = IF tx[t].op.kind = "rule" THEN [rule EXCEPT ![tx[t].op.rule] = "ACTIVE"] ELSE rule
         \/ /\ tx' = [tx EXCEPT ![t] = [tx[t] EXCEPT !.at = {}, !.pending = left]]
            /\ UNCHANGED <<status, review, rule, shown, disturbed, patched>>
  <2>1. tx[t].todo = {} \/ tx[t].todo # {}
    OBVIOUS
  <2> QED BY <1>0, <1>p, <2>1 DEF WriteReview, ReviewTypes
<1>2. DOMAIN tx[t].pending \subseteq Findings /\ tx[t].pending \in [DOMAIN tx[t].pending -> ReviewRows]
      /\ tx[t].op \in Operations /\ \A g \in DOMAIN tx[t].read : tx[t].read[g] \in ReviewRows
  BY <1>0, PartialFns DEF OpenTxs
<1>3. f \in DOMAIN tx[t].read /\ f \in Found
  BY <1>0, <1>1 DEF TxInv
<1>4. After(tx[t].op, tx[t].read[f], review[f]) \in ReviewRows
  <2>1. review[f] \in ReviewRows /\ (review[f] = NoReview \/ review[f].status # "NONE")
    BY <1>0 DEF ReviewTypes, FindingInv
  <2> QED BY <1>2, <1>3, <2>1, AfterRow
<1>5. /\ left \in [{f} \cup DOMAIN tx[t].pending -> ReviewRows]
      /\ left[f] = After(tx[t].op, tx[t].read[f], review[f])
      /\ \A g \in DOMAIN tx[t].pending \ {f} : left[g] = tx[t].pending[g]
  BY <1>2, <1>4, <1>p DEF Over
<1> HIDE DEF mine
<1>6. DOMAIN left = {f} \cup DOMAIN tx[t].pending /\ left \in Partial /\ f \notin DOMAIN tx[t].pending
  BY <1>0, <1>1, <1>2, <1>5, PartialFns DEF TxInv
<1>7. \A g \in DOMAIN left : left[g] = After(tx[t].op, tx[t].read[g], review[g])
  BY <1>0, <1>5, <1>6 DEF TxInv
<1>8. DOMAIN left \subseteq Found /\ DOMAIN left \subseteq DOMAIN tx[t].read
  BY <1>0, <1>3, <1>6 DEF TxInv
<1>9. \A u \in Txs \ {t} : DOMAIN left \cap Written(u) = {}
  <2>1. \A u \in Txs \ {t} : f \notin Written(u)
    BY <1>1 DEF Locked, LockedBy
  <2>2. \A u \in Txs \ {t} : DOMAIN tx[t].pending \cap Written(u) = {}
    BY <1>0 DEF Exclusive, Written
  <2> QED BY <1>6, <2>1, <2>2
<1>10. CASE tx' = [tx EXCEPT ![t] = NoTx] /\ Publish(tx[t], left)
            /\ rule' = IF tx[t].op.kind = "rule" THEN [rule EXCEPT ![tx[t].op.rule] = "ACTIVE"] ELSE rule
  <2>1. rule' \in [Rules -> {"NONE", "ACTIVE", "DELETED"}]
    BY <1>0, <1>10 DEF ReviewTypes
  <2>2. left = [g \in DOMAIN left |-> left[g]]
    BY <1>5
  <2> QED BY <1>0, <1>7, <1>8, <1>9, <1>10, <2>1, <2>2, PublishInv
<1>11. CASE tx' = [tx EXCEPT ![t] = [tx[t] EXCEPT !.at = {}, !.pending = left]]
            /\ UNCHANGED <<status, review, rule, shown, disturbed, patched>>
  <2> DEFINE new == [tx[t] EXCEPT !.at = {}, !.pending = left]
  <2>1. new \in OpenTxs
    BY <1>0, <1>6 DEF OpenTxs
  <2>2. new.at = {} /\ new.pending = left /\ new.todo = tx[t].todo /\ new.op = tx[t].op /\ new.read = tx[t].read
    BY <1>0 DEF OpenTxs
  <2>3. tx' = [tx EXCEPT ![t] = new]
    BY <1>11
  <2> HIDE DEF new
  <2>4. tx'[t] = new /\ Found' = Found
    BY <1>0, <1>11, <2>3 DEF ReviewTypes, Found
  <2>5. TxInv(t)'
    BY <1>0, <1>1, <1>6, <1>7, <1>8, <1>11, <2>2, <2>4 DEF TxInv
  <2>6. Written(t)' \subseteq DOMAIN left
    BY <2>2, <2>4 DEF Written
  <2>7. \A u \in Txs \ {t} : Written(u) \cap Written(t)' = {}
    BY <1>9, <2>6
  <2> QED BY <1>0, <1>11, <2>1, <2>3, <2>5, <2>7, TxMoves DEF ReviewTypes
<1> QED BY <1>1, <1>10, <1>11

LEMMA EndInv ==
  ASSUME ReviewInv, NEW t \in Txs, CommitUnmatched(t) \/ AbortReview(t)
  PROVE  ReviewInv'
<1>0. ReviewTypes
  BY DEF ReviewInv
<1>1. tx' = [tx EXCEPT ![t] = NoTx] /\ UNCHANGED <<status, review, shown, disturbed, patched>>
  BY DEF CommitUnmatched, AbortReview
<1>2. rule' \in [Rules -> {"NONE", "ACTIVE", "DELETED"}]
  BY <1>0 DEF CommitUnmatched, AbortReview, ReviewTypes
<1>3. tx'[t] = NoTx
  BY <1>0, <1>1 DEF ReviewTypes
<1>4. TxInv(t)' /\ Written(t)' = {}
  BY <1>3 DEF TxInv, Written
<1> QED BY <1>1, <1>2, <1>4, TxMoves

(* The vulnerability endpoint and normalization write the finding alone.     *)
LEMMA OnlyStatus ==
  ASSUME ReviewInv, NEW f \in Findings, NEW s \in VulnerabilityStatuses,
         status' = [status EXCEPT ![f] = s], UNCHANGED <<review, rule, tx, shown, disturbed>>,
         \/ patched' = [patched EXCEPT ![f] = TRUE]
         \/ UNCHANGED patched /\ s = IF status[f] = "NONE" THEN "OPEN" ELSE status[f]
  PROVE  ReviewInv'
<1>0. ReviewTypes /\ Exclusive /\ (\A u \in Txs : TxInv(u)) /\ \A g \in Findings : FindingInv(g)
  BY DEF ReviewInv
<1>1. ReviewTypes'
  BY <1>0 DEF ReviewTypes
<1>2. "NONE" \notin VulnerabilityStatuses /\ \A r : mapReviewStatus(r) # "NONE"
  BY DEF VulnerabilityStatuses, mapReviewStatus
<1>3. Found \subseteq Found'
  BY <1>0, <1>2 DEF Found, ReviewTypes
<1>4. Exclusive' /\ \A u \in Txs : TxInv(u)'
  BY <1>0, <1>3 DEF Exclusive, Written, TxInv
<1>5. ASSUME NEW g \in Findings PROVE FindingInv(g)'
  <2>1. CASE g # f
    BY <1>0, <2>1 DEF FindingInv, ReviewTypes
  <2>2. CASE g = f /\ patched'[f]
    BY <1>0, <2>2 DEF FindingInv, ReviewTypes
  <2>3. CASE g = f /\ ~ patched'[f]
    <3>1. ~ patched[f] /\ s = IF status[f] = "NONE" THEN "OPEN" ELSE status[f]
      BY <1>0, <2>3 DEF ReviewTypes
    <3>2. status'[f] = s /\ FindingInv(f)
      BY <1>0 DEF ReviewTypes
    <3> QED BY <1>2, <2>3, <3>1, <3>2 DEF FindingInv
  <2> QED BY <2>1, <2>2, <2>3
<1> QED BY <1>1, <1>4, <1>5 DEF ReviewInv

LEMMA ReviewInvariant == ReviewSpec => []ReviewInv
<1>1. ReviewInit => ReviewInv
  <2> SUFFICES ASSUME ReviewInit PROVE ReviewInv
    OBVIOUS
  <2>1. ReviewTypes
    BY DEF ReviewInit, ReviewTypes, ReviewRows, NoReview, ReviewStatuses
  <2>2. Exclusive /\ \A t \in Txs : TxInv(t)
    BY DEF ReviewInit, Exclusive, Written, TxInv
  <2>3. \A f \in Findings : FindingInv(f)
    BY DEF ReviewInit, FindingInv, NoReview, StatusOf, Otherwise
  <2> QED BY <2>1, <2>2, <2>3 DEF ReviewInv
<1>2. ASSUME ReviewInv, NEW t \in Txs, NEW r \in Rules, createSuppressionRule(t, r) PROVE ReviewInv'
  <2>1. [kind |-> "rule", rule |-> r] \in Operations
    BY DEF Operations
  <2>2. Found \cap Matches[r] \in SUBSET Found /\ {} \in SUBSET Found
    OBVIOUS
  <2> QED BY <1>2, <2>1, <2>2, BeginInv DEF createSuppressionRule
<1>3. ASSUME ReviewInv, NEW t \in Txs, NEW w \in Owners, NEW fs \in SUBSET Findings,
             createCodeOwnerRule(t, w, fs)
      PROVE  ReviewInv'
  <2>1. [kind |-> "owner", owner |-> w] \in Operations
    BY DEF Operations
  <2>2. fs \in SUBSET Found /\ {} \in SUBSET Found
    BY <1>3 DEF createCodeOwnerRule
  <2> QED BY <1>3, <2>1, <2>2, BeginInv DEF createCodeOwnerRule
<1>4. ASSUME ReviewInv, UNCHANGED <<status, review, tx, shown, disturbed, patched>>,
             rule' \in [Rules -> {"NONE", "ACTIVE", "DELETED"}]
      PROVE  ReviewInv'
  BY <1>4 DEF ReviewInv, ReviewTypes, Exclusive, Written, TxInv, Found, FindingInv
<1>5. ASSUME ReviewInv, NEW r \in Rules, deleteSuppressionRule(r) PROVE ReviewInv'
  BY <1>4, <1>5 DEF deleteSuppressionRule, ReviewInv, ReviewTypes
<1>6. ASSUME ReviewInv, NEW f \in Findings, NEW s \in VulnerabilityStatuses, updateVulnerability(f, s)
      PROVE  ReviewInv'
  BY <1>6, OnlyStatus DEF updateVulnerability
<1>7. ASSUME ReviewInv, NEW f \in Findings, persistNormalized(f) PROVE ReviewInv'
  <2> DEFINE s == IF status[f] = "NONE" THEN "OPEN" ELSE status[f]
  <2>1. status' = [status EXCEPT ![f] = s] /\ UNCHANGED <<review, rule, tx, shown, disturbed, patched>>
    BY <1>7 DEF persistNormalized
  <2>2. s \in VulnerabilityStatuses
    BY <1>7 DEF ReviewInv, ReviewTypes, VulnerabilityStatuses
  <2> HIDE DEF s
  <2> QED BY <1>7, <2>1, <2>2, OnlyStatus DEF s
<1>8. ReviewInv /\ UNCHANGED reviewVars => ReviewInv'
  BY <1>4 DEF reviewVars, ReviewInv, ReviewTypes
<1>9. ReviewInv /\ [ReviewNext]_reviewVars => ReviewInv'
  BY <1>2, <1>3, <1>5, <1>6, <1>7, <1>8, ReviewOneInv, ReadReviewInv, WriteReviewInv, EndInv DEF ReviewNext
<1> QED BY <1>1, <1>9, PTL DEF ReviewSpec

(* The two rows of a finding tell the same (review.repository.ts): unless    *)
(* the vulnerability endpoint wrote last, its status belongs to its review,  *)
(* however reviewers, rules and repeated normalization overlap.              *)
THEOREM RowsAgree == ReviewSpec => []ReviewAndFindingAgree
<1>1. ReviewInv => ReviewAndFindingAgree
  BY DEF ReviewInv, FindingInv, ReviewAndFindingAgree
<1> QED BY <1>1, ReviewInvariant, PTL

(* What an unsuppression brings back (previousStatus) is what was last       *)
(* shown, unless another transaction came between the read and the write or  *)
(* SUPPRESSED was put on top of SUPPRESSED.                                  *)
THEOREM SuppressionRemembers == ReviewSpec => []RemembersShown
<1>1. ReviewInv => RemembersShown
  BY DEF ReviewInv, FindingInv, RemembersShown
<1> QED BY <1>1, ReviewInvariant, PTL
=============================================================================
