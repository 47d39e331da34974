----------------------- MODULE DatabaseStartupProofs -----------------------
(***************************************************************************)
(* Proofs about DatabaseStartup for every set of processes and ports and   *)
(* every length of the script.                                             *)
(***************************************************************************)
EXTENDS DatabaseStartup, TLAPS

-----------------------------------------------------------------------------
(* Types.                                                                   *)

LEMMA ScriptLength == Tables + Seeds \in Nat /\ 1 <= Tables /\ Tables <= Tables + Seeds
BY ScriptAssumption

LEMMA InitTyped == Init => TypeOK
<1> SUFFICES ASSUME Init
             PROVE  TypeOK
  OBVIOUS
<1>1. starts \in 0 .. MaxStarts /\ faults \in 0 .. MaxFaults
  BY StartBoundAssumption DEF Init
<1>2. read \in [Servers -> 0 .. (Tables + Seeds)]
  BY ScriptAssumption DEF Init
<1> QED
  BY <1>1, <1>2 DEF Init, TypeOK

\* The part of the state a process takes along.
Places ==
  /\ pc \in [Servers -> {"down", "probed", "opened", "script", "binding", "serving"}]
  /\ step \in [Servers -> {0} \cup Script]
  /\ \A p \in Servers : step[p] # 0 => pc[p] = "script"
  /\ opened \in [Servers -> BOOLEAN]

LEMMA ReturnKeepsPlaces ==
  ASSUME Places, NEW p \in Servers, NEW result \in BOOLEAN, OpenReturns(p, result)
  PROVE  Places'
BY DEF Places, OpenReturns

LEMMA MoveKeepsPlaces ==
  ASSUME Places, NEW p \in Servers, step[p] = 0,
         NEW c \in {"down", "probed", "opened", "script", "binding", "serving"},
         pc' = [pc EXCEPT ![p] = c], UNCHANGED <<step, opened>>
  PROVE  Places'
BY DEF Places

LEMMA NextStatementKeepsPlaces ==
  ASSUME Places, NEW p \in Servers, pc[p] = "script", NEW k \in Script,
         step' = [step EXCEPT ![p] = k], UNCHANGED <<pc, opened>>
  PROVE  Places'
BY DEF Places

LEMMA FaultsTyped ==
  ASSUME faults \in 0 .. MaxFaults, Fault \/ UNCHANGED faults
  PROVE  faults' \in 0 .. MaxFaults
BY StartBoundAssumption DEF Fault

LEMMA ForgottenIsTyped ==
  ASSUME read \in [Servers -> 0 .. (Tables + Seeds)], NEW p \in Servers,
         read' = [read EXCEPT ![p] = 0] \/ UNCHANGED read
  PROVE  read' \in [Servers -> 0 .. (Tables + Seeds)]
BY ScriptAssumption

LEMMA TypesKept == TypeOK /\ [Next]_vars => TypeOK'
<1> SUFFICES ASSUME TypeOK, [Next]_vars
             PROVE  TypeOK'
  OBVIOUS
<1> DEFINE Rest ==
      /\ exists \in BOOLEAN
      /\ applied \in [Script -> Nat]
      /\ existed \in [Servers -> BOOLEAN]
      /\ read \in [Servers -> 0 .. (Tables + Seeds)]
      /\ port \in [Servers -> Ports]
      /\ starts \in 0 .. MaxStarts
      /\ faults \in 0 .. MaxFaults
<1>0. Places /\ Rest
  BY DEF TypeOK, Places
<1>1. ASSUME NEW p \in Servers, Probe(p)
      PROVE  Places' /\ Rest'
  <2>1. starts' \in 0 .. MaxStarts
    BY <1>0, <1>1, StartBoundAssumption DEF Probe
  <2>2. step[p] = 0
    BY <1>0, <1>1 DEF Probe, Places
  <2>3. Places'
    BY <1>0, <1>1, <2>2, MoveKeepsPlaces DEF Probe
  <2> QED
    BY <1>0, <1>1, <2>1, <2>3 DEF Probe
<1>2. ASSUME NEW p \in Servers, OpenFile(p)
      PROVE  Places' /\ Rest'
  <2>1. faults' \in 0 .. MaxFaults
    BY <1>0, <1>2, FaultsTyped DEF OpenFile
  <2>2. step[p] = 0
    BY <1>0, <1>2 DEF OpenFile, Places
  <2>3. Places'
    BY <1>0, <1>2, <2>2, MoveKeepsPlaces, ReturnKeepsPlaces DEF OpenFile
  <2> QED
    BY <1>0, <1>2, <2>1, <2>3 DEF OpenFile
<1>3. ASSUME NEW p \in Servers, EnableForeignKeys(p)
      PROVE  Places' /\ Rest'
  <2>1. faults' \in 0 .. MaxFaults
    BY <1>0, <1>3, FaultsTyped DEF EnableForeignKeys
  <2>2. step[p] = 0
    BY <1>0, <1>3 DEF EnableForeignKeys, Places
  <2>3. Places'
    BY <1>0, <1>3, <2>2, MoveKeepsPlaces, ReturnKeepsPlaces DEF EnableForeignKeys
  <2> QED
    BY <1>0, <1>3, <2>1, <2>3 DEF EnableForeignKeys
<1>4. ASSUME NEW p \in Servers, FindScript(p)
      PROVE  Places' /\ Rest'
  <2>1. 1 \in Script /\ Found \subseteq 0 .. (Tables + Seeds)
    BY ScriptAssumption DEF Script
  <2>2. Places'
    BY <1>0, <1>4, <2>1, NextStatementKeepsPlaces, ReturnKeepsPlaces DEF FindScript
  <2>3. read' \in [Servers -> 0 .. (Tables + Seeds)]
    <3>1. CASE UNCHANGED read
      BY <1>0, <3>1
    <3>2. CASE \E n \in Found : read' = [read EXCEPT ![p] = n]
      BY <1>0, <2>1, <3>2
    <3> QED
      BY <1>4, <3>1, <3>2 DEF FindScript
  <2> QED
    BY <1>0, <1>4, <2>2, <2>3 DEF FindScript
<1>5. ASSUME NEW p \in Servers, Statement(p)
      PROVE  Places' /\ Rest'
  <2>1. faults' \in 0 .. MaxFaults
    BY <1>0, <1>5, FaultsTyped DEF Statement
  <2>2. applied' \in [Script -> Nat]
    <3>1. CASE UNCHANGED applied
      BY <1>0, <3>1
    <3>2. CASE applied' = [applied EXCEPT ![step[p]] = @ + 1]
      <4>1. applied \in [Script -> Nat] /\ step[p] \in Script
        BY <1>0, <1>5 DEF Statement
      <4>2. applied[step[p]] + 1 \in Nat
        BY <4>1
      <4> QED
        BY <3>2, <4>1, <4>2
    <3> QED
      BY <1>5, <3>1, <3>2 DEF Statement
  <2>3. Places'
    <3>1. ASSUME step[p] < read[p]
          PROVE  step[p] + 1 \in Script
      <4>1. read[p] \in 0 .. (Tables + Seeds)
        BY <1>0
      <4> QED
        BY <1>5, <3>1, <4>1, ScriptLength DEF Statement, Script
    <3> QED
      BY <1>0, <1>5, <3>1, NextStatementKeepsPlaces, ReturnKeepsPlaces DEF Statement
  <2> QED
    BY <1>0, <1>5, <2>1, <2>2, <2>3 DEF Statement
<1>6. ASSUME NEW p \in Servers, Bind(p)
      PROVE  Places' /\ Rest'
  <2>1. step[p] = 0
    BY <1>0, <1>6 DEF Bind, Places
  <2>2. Places'
    BY <1>0, <1>6, <2>1, MoveKeepsPlaces DEF Bind
  <2>3. read' \in [Servers -> 0 .. (Tables + Seeds)]
    BY <1>0, <1>6, ForgottenIsTyped DEF Bind
  <2> QED
    BY <1>0, <1>6, <2>2, <2>3 DEF Bind
<1>7. ASSUME NEW p \in Servers, Die(p)
      PROVE  Places' /\ Rest'
  <2>1. Places'
    BY <1>0, <1>7 DEF Die, Places
  <2>2. read' \in [Servers -> 0 .. (Tables + Seeds)]
    BY <1>0, <1>7, ForgottenIsTyped DEF Die
  <2> QED
    BY <1>0, <1>7, <2>1, <2>2 DEF Die
<1>8. ASSUME UNCHANGED vars
      PROVE  Places' /\ Rest'
  BY <1>0, <1>8 DEF vars, Places
<1>9. Places' /\ Rest'
  BY <1>1, <1>2, <1>3, <1>4, <1>5, <1>6, <1>7, <1>8 DEF Next, ComeUp
<1> QED
  BY <1>9 DEF TypeOK, Places

\* A process is at a statement only inside the script.
THEOREM StartupTypeCorrect == Spec => []TypeOK
<1>1. Init => TypeOK
  BY InitTyped
<1>2. TypeOK /\ [Next]_vars => TypeOK'
  BY TypesKept
<1> QED
  BY <1>1, <1>2, PTL DEF Spec

-----------------------------------------------------------------------------
(* One process makes the schema.                                            *)

SafeInv == AppliedOnce /\ OneInitialiser /\ OnlyNewRunScript /\ OpenedMeansApplied

\* A statement that takes effect is the next of the script, and runs first.
LEMMA NextStatement ==
  ASSUME TypeOK, SafeInv, NEW p \in Servers, pc[p] = "script", step[p] \in Script, Runs(step[p])
  PROVE  \A k \in Script : applied[k] = IF k < step[p] THEN 1 ELSE 0
<1>1. applied \in [Script -> Nat] /\ \A k \in Script : applied[k] <= 1
  BY DEF TypeOK, SafeInv, AppliedOnce
<1>2. Script \subseteq Nat /\ \A k \in Script : 1 <= k
  BY ScriptAssumption DEF Script
<1>0. step[p] \in Nat /\ (step[p] > 1 \/ step[p] = 1)
  <2>1. step[p] \in Nat /\ 1 <= step[p]
    BY <1>2
  <2> QED
    BY <2>1
<1>3. CASE step[p] > 1
  <2>1. \A k \in Script : applied[k] > 0 <=> k < step[p]
    BY <1>3 DEF SafeInv, OneInitialiser
  <2>2. \A k \in Script : applied[k] \in Nat
    BY <1>1
  <2> QED
    BY <1>1, <2>1, <2>2
<1>4. CASE step[p] = 1
  <2>1. applied[1] = 0
    BY <1>4, ScriptAssumption DEF Runs
  <2>2. \A k \in Script : applied[k] = 0
    BY <1>1, <1>2, <1>4, <2>1 DEF SafeInv, AppliedOnce
  <2> QED
    BY <1>2, <1>4, <2>2
<1> QED
  BY <1>0, <1>3, <1>4

\* Before its first statement takes effect nobody else is past it.
LEMMA NobodyElse ==
  ASSUME TypeOK, SafeInv, NEW p \in Servers, pc[p] = "script", step[p] \in Script, Runs(step[p]),
         NEW q \in Servers \ {p}
  PROVE  ~(step[q] > 1)
<1>1. \A k \in Script : applied[k] = IF k < step[p] THEN 1 ELSE 0
  BY NextStatement
<1>2. Script \subseteq Nat /\ 1 \in Script /\ \A k \in Script : 1 <= k
  BY ScriptAssumption DEF Script
<1>3. SUFFICES ASSUME step[q] > 1
               PROVE  FALSE
  OBVIOUS
<1>4. applied[1] > 0
  BY <1>2, <1>3, ScriptAssumption DEF SafeInv, OneInitialiser, TypeOK
<1>5. step[p] > 1
  BY <1>1, <1>2, <1>4
<1> QED
  BY <1>3, <1>5 DEF SafeInv, OneInitialiser

\* Steps that leave the script's effects alone.
LEMMA QuietKeepsSafe ==
  ASSUME TypeOK, SafeInv, UNCHANGED applied,
         \A q \in Servers : step'[q] = step[q] \/ step'[q] \in {0, 1},
         \A q \in Servers : pc'[q] = "script" => ~existed'[q],
         \A q \in Servers :
           pc'[q] \in {"binding", "serving"} /\ opened'[q] /\ ~existed'[q]
             => \/ read'[q] = 0
                \/ /\ pc[q] \in {"binding", "serving"} /\ opened[q] /\ ~existed[q]
                   /\ read'[q] = read[q]
  PROVE  SafeInv'
<1>1. AppliedOnce'
  BY DEF SafeInv, AppliedOnce
<1>2. OneInitialiser'
  <2>1. \A q \in Servers : step'[q] > 1 => step'[q] = step[q]
    OBVIOUS
  <2> QED
    BY <2>1 DEF SafeInv, OneInitialiser
<1>3. OnlyNewRunScript'
  BY DEF SafeInv, OnlyNewRunScript
<1>4. OpenedMeansApplied'
  <2> SUFFICES ASSUME NEW q \in Servers,
                      pc'[q] \in {"binding", "serving"}, opened'[q], ~existed'[q],
                      NEW k \in 1 .. read'[q]
               PROVE  applied'[k] > 0
    BY DEF OpenedMeansApplied
  <2>1. CASE read'[q] = 0
    BY <2>1
  <2>2. CASE read'[q] # 0
    BY <2>2 DEF SafeInv, OpenedMeansApplied
  <2> QED
    BY <2>1, <2>2
<1> QED
  BY <1>1, <1>2, <1>3, <1>4 DEF SafeInv

LEMMA EffectKeepsSafe ==
  ASSUME TypeOK, SafeInv, NEW p \in Servers, Statement(p), Runs(step[p]),
         applied' = [applied EXCEPT ![step[p]] = @ + 1]
  PROVE  SafeInv'
<1>1. pc[p] = "script" /\ step[p] \in Script
  BY DEF Statement
<1>2. \A k \in Script : applied[k] = IF k < step[p] THEN 1 ELSE 0
  BY <1>1, NextStatement
<1>3. /\ Script \subseteq Nat /\ \A k \in Script : 1 <= k /\ k <= Tables + Seeds
      /\ Tables + Seeds \in Nat
  BY ScriptAssumption DEF Script
<1>0. step[p] \in Nat /\ 1 <= step[p] /\ step[p] <= Tables + Seeds
  BY <1>1, <1>3
<1>4. \A k \in Script : applied'[k] = IF k < step[p] + 1 THEN 1 ELSE 0
  <2>1. applied \in [Script -> Nat]
    BY DEF TypeOK
  <2> SUFFICES ASSUME NEW k \in Script
               PROVE  applied'[k] = IF k < step[p] + 1 THEN 1 ELSE 0
    OBVIOUS
  <2>2. k \in Nat
    BY <1>3
  <2>3. CASE k = step[p]
    <3>1. applied[k] = 0
      BY <1>0, <1>2, <2>3
    <3>2. applied'[k] = 1
      BY <2>1, <2>3, <3>1
    <3> QED
      BY <1>0, <2>3, <3>2
  <2>4. CASE k # step[p]
    <3>1. applied'[k] = applied[k]
      BY <2>1, <2>4
    <3>2. k < step[p] + 1 <=> k < step[p]
      BY <1>0, <2>2, <2>4
    <3> QED
      BY <1>2, <3>1, <3>2
  <2> QED
    BY <2>3, <2>4
<1>5. \A q \in Servers \ {p} : ~(step[q] > 1) /\ step'[q] = step[q]
  <2>1. \A q \in Servers \ {p} : step'[q] = step[q]
    BY DEF Statement, OpenReturns, TypeOK
  <2> QED
    BY <1>1, <2>1, NobodyElse
<1>6. \/ step[p] < read[p] /\ step'[p] = step[p] + 1 /\ UNCHANGED <<pc, opened>>
      \/ read[p] <= step[p] /\ step'[p] = 0 /\ OpenReturns(p, TRUE)
  <2>1. applied' # applied
    <3>1. applied[step[p]] = 0
      BY <1>0, <1>1, <1>2
    <3>2. applied'[step[p]] = 1
      BY <1>0, <1>1, <1>4
    <3> QED
      BY <3>1, <3>2
  <2>2. IF step[p] < read[p]
          THEN step' = [step EXCEPT ![p] = @ + 1] /\ UNCHANGED <<pc, opened>>
          ELSE OpenReturns(p, TRUE)
    BY <2>1 DEF Statement
  <2>3. step \in [Servers -> {0} \cup Script]
    BY DEF TypeOK
  <2>4. CASE step[p] < read[p]
    BY <2>2, <2>3, <2>4
  <2>5. CASE ~(step[p] < read[p])
    <3>1. read[p] <= step[p]
      <4>1. read[p] \in 0 .. (Tables + Seeds)
        BY DEF TypeOK
      <4> QED
        BY <1>0, <1>3, <2>5, <4>1
    <3>2. OpenReturns(p, TRUE)
      BY <2>2, <2>5
    <3>3. step'[p] = 0
      BY <2>3, <3>2 DEF OpenReturns
    <3> QED
      BY <3>1, <3>2, <3>3
  <2> QED
    BY <2>4, <2>5
<1>7. AppliedOnce'
  <2>1. \A k \in Script : applied'[k] <= 1
    BY <1>4
  <2>2. ASSUME NEW j \in Script, NEW k \in Script, j < k, applied'[k] = 1
        PROVE  applied'[j] = 1
    <3>1. j \in Nat /\ k \in Nat /\ k < step[p] + 1
      BY <1>3, <1>4, <2>2
    <3>2. j < step[p] + 1
      BY <1>0, <2>2, <3>1
    <3> QED
      BY <1>4, <3>2
  <2> QED
    BY <2>1, <2>2 DEF AppliedOnce
<1>8. OneInitialiser'
  <2>1. \A q \in Servers : step'[q] > 1 => q = p
    BY <1>5
  <2>2. ASSUME step'[p] > 1, NEW k \in Script
        PROVE  applied'[k] > 0 <=> k < step'[p]
    <3>1. step'[p] = step[p] + 1
      <4>1. step'[p] # 0
        BY <2>2
      <4> QED
        BY <1>6, <4>1
    <3> QED
      BY <1>4, <3>1
  <2> QED
    BY <2>1, <2>2 DEF OneInitialiser
<1>9. UNCHANGED <<existed, read>>
  BY DEF Statement
<1>10. OnlyNewRunScript'
  <2>1. \A q \in Servers : pc'[q] = "script" => pc[q] = "script"
    BY <1>6 DEF OpenReturns, TypeOK
  <2> QED
    BY <1>9, <2>1 DEF SafeInv, OnlyNewRunScript
<1>11. OpenedMeansApplied'
  <2> SUFFICES ASSUME NEW q \in Servers,
                      pc'[q] \in {"binding", "serving"}, opened'[q], ~existed'[q],
                      NEW k \in 1 .. read'[q]
               PROVE  applied'[k] > 0
    BY DEF OpenedMeansApplied
  <2>1. k \in Script /\ k \in Nat /\ k <= read[q]
    <3>1. read'[q] = read[q] /\ read[q] \in 0 .. (Tables + Seeds)
      BY <1>9 DEF TypeOK
    <3> QED
      BY <1>3, <3>1 DEF Script
  <2>2. CASE q = p /\ read[p] <= step[p]
    <3>1. k < step[p] + 1
      <4>1. k <= read[p] /\ read[p] \in 0 .. (Tables + Seeds)
        BY <2>1, <2>2 DEF TypeOK
      <4> QED
        BY <1>0, <2>1, <2>2, <4>1
    <3> QED
      BY <1>4, <2>1, <3>1
  <2>3. CASE pc'[q] = pc[q] /\ opened'[q] = opened[q]
    <3>1. applied[k] > 0
      <4>1. k \in 1 .. read[q]
        BY <1>9
      <4> QED
        BY <1>9, <2>3, <4>1 DEF SafeInv, OpenedMeansApplied
    <3>2. k < step[p]
      BY <1>2, <2>1, <3>1
    <3>3. k < step[p] + 1
      BY <1>0, <2>1, <3>2
    <3> QED
      BY <1>4, <2>1, <3>3
  <2>4. q # p => pc'[q] = pc[q] /\ opened'[q] = opened[q]
    BY <1>6 DEF OpenReturns, TypeOK
  <2> QED
    BY <1>6, <2>2, <2>3, <2>4
<1> QED
  BY <1>7, <1>8, <1>10, <1>11 DEF SafeInv

LEMMA SafeKept ==
  ASSUME TypeOK, SafeInv, [Next]_vars
  PROVE  SafeInv'
<1> USE DEF TypeOK
<1>1. ASSUME NEW p \in Servers, Probe(p)
      PROVE  SafeInv'
  BY <1>1, QuietKeepsSafe DEF Probe, SafeInv, OnlyNewRunScript
<1>2. ASSUME NEW p \in Servers, OpenFile(p)
      PROVE  SafeInv'
  BY <1>2, QuietKeepsSafe DEF OpenFile, OpenReturns, SafeInv, OnlyNewRunScript
<1>3. ASSUME NEW p \in Servers, EnableForeignKeys(p)
      PROVE  SafeInv'
  BY <1>3, QuietKeepsSafe DEF EnableForeignKeys, OpenReturns, SafeInv, OnlyNewRunScript
<1>4. ASSUME NEW p \in Servers, FindScript(p)
      PROVE  SafeInv'
  BY <1>4, QuietKeepsSafe DEF FindScript, OpenReturns, SafeInv, OnlyNewRunScript
<1>5. ASSUME NEW p \in Servers, Statement(p)
      PROVE  SafeInv'
  <2>1. CASE UNCHANGED applied /\ OpenReturns(p, FALSE)
    BY <1>5, <2>1, QuietKeepsSafe DEF Statement, OpenReturns, SafeInv, OnlyNewRunScript
  <2>2. CASE Runs(step[p]) /\ applied' = [applied EXCEPT ![step[p]] = @ + 1]
    BY <1>5, <2>2, EffectKeepsSafe
  <2> QED
    BY <1>5, <2>1, <2>2 DEF Statement
<1>6. ASSUME NEW p \in Servers, Bind(p)
      PROVE  SafeInv'
  BY <1>6, QuietKeepsSafe DEF Bind, SafeInv, OnlyNewRunScript
<1>7. ASSUME NEW p \in Servers, Die(p)
      PROVE  SafeInv'
  BY <1>7, QuietKeepsSafe DEF Die, SafeInv, OnlyNewRunScript
<1>8. ASSUME UNCHANGED vars
      PROVE  SafeInv'
  BY <1>8, QuietKeepsSafe DEF vars, SafeInv, OnlyNewRunScript
<1> QED
  BY <1>1, <1>2, <1>3, <1>4, <1>5, <1>6, <1>7, <1>8 DEF Next, ComeUp

LEMMA StartupInvariant == Spec => [](TypeOK /\ SafeInv)
<1>1. Init => TypeOK
  BY InitTyped
<1>2. Init => SafeInv
  <2>1. ASSUME Init
        PROVE  AppliedOnce /\ OneInitialiser /\ OnlyNewRunScript /\ OpenedMeansApplied
    BY <2>1, ScriptAssumption
       DEF Init, AppliedOnce, OneInitialiser, OnlyNewRunScript, OpenedMeansApplied
  <2> QED
    BY <2>1 DEF SafeInv
<1>3. TypeOK /\ SafeInv /\ [Next]_vars => TypeOK' /\ SafeInv'
  BY TypesKept, SafeKept
<1> QED
  BY <1>1, <1>2, <1>3, PTL DEF Spec

\* However many processes run the script, no statement takes effect twice and
\* what has taken effect is a beginning of it.
THEOREM StartupAppliesOnce == Spec => []AppliedOnce
<1>1. SafeInv => AppliedOnce
  BY DEF SafeInv
<1> QED
  BY <1>1, StartupInvariant, PTL

\* A process that found no file and whose open() succeeded has in the file what it
\* read of the script: a whole schema if it read all of it, and only then.
THEOREM StartupOpensWithWhatItRead == Spec => []OpenedMeansApplied
<1>1. SafeInv => OpenedMeansApplied
  BY DEF SafeInv
<1> QED
  BY <1>1, StartupInvariant, PTL

\* Once the schema is stuck half-way no start mends it.
THEOREM StartupNeverMended == Spec => NeverMended
<1>1. TypeOK /\ SafeInv /\ [Next]_vars => [Stuck => Stuck']_vars
  <2> SUFFICES ASSUME TypeOK, SafeInv, [Next]_vars, Stuck
               PROVE  Stuck'
    OBVIOUS
  <2>1. \A p \in Servers : pc[p] # "script"
    BY DEF SafeInv, OnlyNewRunScript, Stuck
  <2>2. ASSUME NEW p \in Servers, Probe(p)
        PROVE  Stuck'
    BY <2>2 DEF Probe, Stuck, Complete, TypeOK
  <2>3. ASSUME NEW p \in Servers, OpenFile(p) \/ EnableForeignKeys(p)
        PROVE  Stuck'
    BY <2>3 DEF OpenFile, EnableForeignKeys, OpenReturns, Stuck, Complete, TypeOK
  <2>4. ASSUME NEW p \in Servers, FindScript(p) \/ Statement(p)
        PROVE  FALSE
    BY <2>1, <2>4 DEF FindScript, Statement
  <2>5. ASSUME NEW p \in Servers, Bind(p) \/ Die(p)
        PROVE  Stuck'
    BY <2>5 DEF Bind, Die, Stuck, Complete, TypeOK
  <2>6. ASSUME UNCHANGED vars
        PROVE  Stuck'
    BY <2>6 DEF vars, Stuck, Complete
  <2> QED
    BY <2>2, <2>3, <2>4, <2>5, <2>6 DEF Next, ComeUp
<1> QED
  BY <1>1, StartupInvariant, PTL DEF Spec, NeverMended
-----------------------------------------------------------------------------
(* The schema has one author.                                               *)

LEMMA FileStaysKept == TypeOK /\ FileStays /\ [Next]_vars => FileStays'
<1> SUFFICES ASSUME TypeOK, FileStays, [Next]_vars
             PROVE  FileStays'
  OBVIOUS
<1> USE DEF TypeOK, FileStays
<1>1. ASSUME NEW p \in Servers, Probe(p)
      PROVE  FileStays'
  BY <1>1 DEF Probe
<1>2. ASSUME NEW p \in Servers, OpenFile(p)
      PROVE  FileStays'
  BY <1>2 DEF OpenFile, OpenReturns
<1>3. ASSUME NEW p \in Servers, EnableForeignKeys(p)
      PROVE  FileStays'
  BY <1>3 DEF EnableForeignKeys, OpenReturns
<1>4. ASSUME NEW p \in Servers, FindScript(p) \/ Statement(p)
      PROVE  FileStays'
  BY <1>4 DEF FindScript, Statement, OpenReturns
<1>5. ASSUME NEW p \in Servers, Bind(p) \/ Die(p)
      PROVE  FileStays'
  BY <1>5 DEF Bind, Die
<1>6. CASE UNCHANGED vars
  BY <1>6 DEF vars
<1> QED
  BY <1>1, <1>2, <1>3, <1>4, <1>5, <1>6 DEF Next, ComeUp

LEMMA InitIsFileInit == Init => File!Init
<1> SUFFICES ASSUME Init
             PROVE  File!Init
  OBVIOUS
<1>1. Candidates = {} /\ Authors = {}
  BY DEF Init, Candidates, Authors
<1>2. applied = File!FirstStatements(0)
  <2>1. \A k \in Script : ~(k <= 0)
    BY ScriptAssumption DEF Script
  <2> QED
    BY <2>1 DEF Init, File!FirstStatements, Script
<1> QED
  BY <1>1, <1>2 DEF Init, File!Init

\* A process in open() that is left alone, by what each step does to the others.
LEMMA OthersStay ==
  ASSUME NEW p \in Servers, \A q \in Servers \ {p} : pc'[q] = pc[q] /\ existed'[q] = existed[q]
                                                     /\ step'[q] = step[q]
  PROVE  /\ Candidates \ {p} = Candidates' \ {p}
         /\ Authors \ {p} = Authors' \ {p}
BY DEF Candidates, Authors

\* open() returns to a process that was making the schema, or it dies.
LEMMA ReturnIsGiveUp ==
  ASSUME TypeOK, NEW p \in Candidates, UNCHANGED <<exists, applied, existed>>,
         NEW c \in {"binding", "down"}, pc' = [pc EXCEPT ![p] = c], step' = [step EXCEPT ![p] = 0]
  PROVE  File!Next
<1>1. p \in Servers
  BY DEF Candidates
<1>2. Candidates \ {p} = Candidates' \ {p} /\ Authors \ {p} = Authors' \ {p}
  BY <1>1, OthersStay DEF TypeOK
<1>3. p \notin Candidates' /\ p \notin Authors'
  BY <1>1 DEF TypeOK, Candidates, Authors
<1>4. File!GiveUp(p)
  BY <1>2, <1>3 DEF File!GiveUp
<1> QED
  BY <1>1, <1>4 DEF File!Next

\* Steps of a process that change nothing of what the file is about.
LEMMA Stutters ==
  ASSUME UNCHANGED <<exists, applied>>, Candidates' = Candidates, Authors' = Authors
  PROVE  UNCHANGED File!vars
BY DEF File!vars

LEMMA EffectIsWrite ==
  ASSUME TypeOK, SafeInv, FileStays, NEW p \in Servers, Statement(p), Runs(step[p]),
         applied' = [applied EXCEPT ![step[p]] = @ + 1]
  PROVE  File!Next
<1> DEFINE n == step[p] - 1
<1>1. pc[p] = "script" /\ step[p] \in Script /\ ~existed[p] /\ exists
  BY DEF Statement, SafeInv, OnlyNewRunScript, FileStays
<1>2. /\ Script \subseteq Nat /\ \A k \in Script : 1 <= k /\ k <= Tables + Seeds
      /\ Tables + Seeds \in Nat
  BY ScriptAssumption DEF Script
<1>3. n \in 0 .. (Tables + Seeds) - 1 /\ step[p] = n + 1 /\ n \in Nat
  <2>1. step[p] \in Nat /\ 1 <= step[p] /\ step[p] <= Tables + Seeds
    BY <1>1, <1>2
  <2> QED
    BY <2>1, ScriptAssumption
<1>4. \A k \in Script : applied[k] = IF k < step[p] THEN 1 ELSE 0
  BY <1>1, NextStatement
<1>5. applied \in [Script -> Nat]
  BY DEF TypeOK
<1> HIDE DEF n
<1>6. applied = File!FirstStatements(n)
  <2>1. \A k \in Script : applied[k] = IF k <= n THEN 1 ELSE 0
    <3> SUFFICES ASSUME NEW k \in Script
                 PROVE  applied[k] = IF k <= n THEN 1 ELSE 0
      OBVIOUS
    <3>1. k \in Nat /\ (k < n + 1 <=> k <= n)
      BY <1>2, <1>3
    <3> QED
      BY <1>3, <1>4, <3>1
  <2> QED
    BY <1>5, <2>1 DEF File!FirstStatements, Script
<1>7. applied' = File!FirstStatements(n + 1)
  <2>1. \A k \in Script : applied'[k] = IF k <= n + 1 THEN 1 ELSE 0
    <3> SUFFICES ASSUME NEW k \in Script
                 PROVE  applied'[k] = IF k <= n + 1 THEN 1 ELSE 0
      OBVIOUS
    <3>1. k \in Nat
      BY <1>2
    <3>2. CASE k = n + 1
      <4>1. applied[k] = 0
        BY <1>3, <1>4, <3>2
      <4>2. applied'[k] = 1
        BY <1>3, <1>5, <3>2, <4>1
      <4> QED
        BY <1>3, <3>2, <4>2
    <3>3. CASE k # n + 1
      <4>1. applied'[k] = applied[k]
        BY <1>3, <1>5, <3>3
      <4>2. k < n + 1 <=> k <= n + 1
        BY <1>3, <3>1, <3>3
      <4> QED
        BY <1>3, <1>4, <4>1, <4>2
    <3> QED
      BY <3>2, <3>3
  <2>2. applied' \in [Script -> Nat] /\ DOMAIN applied' = Script
    BY <1>5, <2>1, TypesKept DEF TypeOK, Next, ComeUp
  <2> QED
    BY <2>1, <2>2 DEF File!FirstStatements, Script
<1>8. \A q \in Servers \ {p} : pc'[q] = pc[q] /\ existed'[q] = existed[q] /\ step'[q] = step[q]
  BY DEF Statement, OpenReturns, TypeOK
<1>9. Candidates \ {p} = Candidates' \ {p} /\ Authors \ {p} = Authors' \ {p}
  BY <1>8, OthersStay
<1>10. Authors \ {p} = {}
  BY <1>1, NobodyElse DEF Authors
<1>11. p \in Candidates /\ (p \in Authors <=> n # 0)
  <2>1. p \in Authors <=> n + 1 > 1
    BY <1>3 DEF Authors
  <2> QED
    BY <1>1, <1>3, <2>1 DEF Candidates
<1>12. CASE n + 1 < read[p]
  <2>1. step'[p] = n + 2 /\ UNCHANGED <<pc, existed>>
    <3>1. applied' # applied
      BY <1>1, <1>3, <1>4, <1>5
    <3>2. step' = [step EXCEPT ![p] = @ + 1] /\ UNCHANGED <<pc, existed>>
      BY <1>3, <1>12, <3>1 DEF Statement
    <3> QED
      BY <1>3, <3>2 DEF TypeOK
  <2>2. p \in Candidates' /\ p \in Authors'
    <3>1. step'[p] > 1
      BY <1>3, <2>1
    <3> QED
      BY <1>1, <2>1, <3>1 DEF Candidates, Authors
  <2>3. Candidates' = Candidates /\ Authors' = {p}
    BY <1>9, <1>10, <1>11, <2>2
  <2>4. IF n = 0 THEN Authors = {} ELSE Authors = {p}
    BY <1>10, <1>11
  <2>5. UNCHANGED exists
    BY DEF Statement
  <2>6. \/ n + 1 < Tables + Seeds /\ Authors' = {p} /\ UNCHANGED Candidates
        \/ Authors' = {} /\ Candidates' = Candidates \ {p}
    <3>1. read[p] \in 0 .. (Tables + Seeds)
      BY DEF TypeOK
    <3>2. n + 1 < Tables + Seeds
      BY <1>2, <1>3, <1>12, <3>1
    <3> QED
      BY <2>3, <3>2
  <2>7. File!Write(p, n)
    BY <1>1, <1>6, <1>7, <1>11, <2>4, <2>5, <2>6, Zenon DEF File!Write
  <2> QED
    BY <1>3, <2>7 DEF File!Next
<1>13. CASE ~(n + 1 < read[p])
  <2>1. pc' = [pc EXCEPT ![p] = "binding"] /\ step' = [step EXCEPT ![p] = 0]
    <3>1. applied' # applied
      BY <1>1, <1>3, <1>4, <1>5
    <3> QED
      BY <1>3, <1>13, <3>1 DEF Statement, OpenReturns
  <2>2. p \notin Candidates' /\ p \notin Authors'
    BY <2>1 DEF TypeOK, Candidates, Authors
  <2>3. Candidates' = Candidates \ {p} /\ Authors' = {}
    BY <1>9, <1>10, <2>2
  <2>4. IF n = 0 THEN Authors = {} ELSE Authors = {p}
    BY <1>10, <1>11
  <2>5. UNCHANGED exists
    BY DEF Statement
  <2>6. \/ n + 1 < Tables + Seeds /\ Authors' = {p} /\ UNCHANGED Candidates
        \/ Authors' = {} /\ Candidates' = Candidates \ {p}
    BY <2>3
  <2>7. File!Write(p, n)
    BY <1>1, <1>6, <1>7, <1>11, <2>4, <2>5, <2>6, Zenon DEF File!Write
  <2> QED
    BY <1>3, <2>7 DEF File!Next
<1> QED
  BY <1>12, <1>13

LEMMA NextIsFileNext ==
  ASSUME TypeOK, SafeInv, FileStays, [Next]_vars
  PROVE  [File!Next]_(File!vars)
<1>1. ASSUME NEW p \in Servers, Probe(p)
      PROVE  [File!Next]_(File!vars)
  <2>1. /\ UNCHANGED <<exists, applied, step>> /\ p \notin Candidates
        /\ \A q \in Servers \ {p} : pc'[q] = pc[q] /\ existed'[q] = existed[q]
                                      /\ step'[q] = step[q]
    BY <1>1 DEF Probe, TypeOK, Candidates
  <2>2. Candidates \ {p} = Candidates' \ {p} /\ Authors' = Authors
    BY <2>1, OthersStay DEF Authors
  <2>3. p \in Candidates' <=> ~exists
    BY <1>1 DEF Probe, TypeOK, Candidates
  <2>4. CASE exists
    BY <2>1, <2>2, <2>3, <2>4, Stutters
  <2>5. CASE ~exists
    <3>1. File!FindNoFile(p)
      BY <2>1, <2>2, <2>3, <2>5 DEF File!FindNoFile
    <3> QED
      BY <3>1 DEF File!Next
  <2> QED
    BY <2>4, <2>5
<1>2. ASSUME NEW p \in Servers, OpenFile(p)
      PROVE  [File!Next]_(File!vars)
  <2>1. CASE OpenReturns(p, FALSE) /\ UNCHANGED exists
    <3>1. CASE p \in Candidates
      BY <1>2, <2>1, <3>1, ReturnIsGiveUp DEF OpenFile, OpenReturns
    <3>2. CASE p \notin Candidates
      BY <1>2, <2>1, <3>2, Stutters DEF OpenFile, OpenReturns, TypeOK, Candidates, Authors
    <3> QED
      BY <3>1, <3>2
  <2>2. CASE exists' = TRUE /\ pc' = [pc EXCEPT ![p] = "opened"] /\ UNCHANGED step
    <3>1. /\ Candidates' = Candidates /\ Authors' = Authors /\ UNCHANGED applied
          /\ p \in Candidates \/ existed[p]
      BY <1>2, <2>2 DEF OpenFile, TypeOK, Candidates, Authors
    <3>2. CASE p \in Candidates
      <4>1. File!Create
        BY <2>2, <3>1, <3>2 DEF File!Create
      <4> QED
        BY <4>1 DEF File!Next
    <3>3. CASE existed[p]
      BY <2>2, <3>1, <3>3, Stutters DEF FileStays, TypeOK
    <3> QED
      BY <3>1, <3>2, <3>3
  <2> QED
    BY <1>2, <2>1, <2>2 DEF OpenFile
<1>3. ASSUME NEW p \in Servers, EnableForeignKeys(p)
      PROVE  [File!Next]_(File!vars)
  <2>1. UNCHANGED <<exists, applied, existed>> /\ pc[p] = "opened"
    BY <1>3 DEF EnableForeignKeys
  <2>2. CASE pc' = [pc EXCEPT ![p] = "script"] /\ UNCHANGED step
    BY <2>1, <2>2, Stutters DEF TypeOK, Candidates, Authors
  <2>3. ASSUME NEW result \in BOOLEAN, OpenReturns(p, result)
        PROVE  [File!Next]_(File!vars)
    <3>1. CASE p \in Candidates
      BY <2>1, <2>3, <3>1, ReturnIsGiveUp DEF OpenReturns
    <3>2. CASE p \notin Candidates
      BY <2>1, <2>3, <3>2, Stutters DEF OpenReturns, TypeOK, Candidates, Authors
    <3> QED
      BY <3>1, <3>2
  <2> QED
    BY <1>3, <2>2, <2>3 DEF EnableForeignKeys
<1>4. ASSUME NEW p \in Servers, FindScript(p)
      PROVE  [File!Next]_(File!vars)
  <2>1. UNCHANGED <<exists, applied, existed>> /\ pc[p] = "script" /\ step[p] = 0
    BY <1>4 DEF FindScript
  <2>2. p \in Candidates
    BY <2>1 DEF SafeInv, OnlyNewRunScript, Candidates
  <2>3. CASE step' = [step EXCEPT ![p] = 1] /\ UNCHANGED pc
    BY <2>1, <2>3, Stutters DEF TypeOK, Candidates, Authors
  <2>4. ASSUME NEW result \in BOOLEAN, OpenReturns(p, result)
        PROVE  [File!Next]_(File!vars)
    BY <2>1, <2>2, <2>4, ReturnIsGiveUp DEF OpenReturns
  <2> QED
    BY <1>4, <2>3, <2>4 DEF FindScript
<1>5. ASSUME NEW p \in Servers, Statement(p)
      PROVE  [File!Next]_(File!vars)
  <2>1. UNCHANGED <<exists, existed>> /\ pc[p] = "script"
    BY <1>5 DEF Statement
  <2>2. p \in Candidates
    BY <2>1 DEF SafeInv, OnlyNewRunScript, Candidates
  <2>3. CASE Runs(step[p]) /\ applied' = [applied EXCEPT ![step[p]] = @ + 1]
    BY <1>5, <2>3, EffectIsWrite
  <2>4. CASE OpenReturns(p, FALSE) /\ UNCHANGED applied
    BY <2>1, <2>2, <2>4, ReturnIsGiveUp DEF OpenReturns
  <2> QED
    BY <1>5, <2>3, <2>4 DEF Statement
<1>6. ASSUME NEW p \in Servers, Bind(p)
      PROVE  [File!Next]_(File!vars)
  <2>1. UNCHANGED <<exists, applied, existed, step>>
    BY <1>6 DEF Bind
  <2>2. Candidates' = Candidates
    BY <1>6 DEF Bind, TypeOK, Candidates
  <2> QED
    BY <2>1, <2>2, Stutters DEF Authors
<1>7. ASSUME NEW p \in Servers, Die(p)
      PROVE  [File!Next]_(File!vars)
  <2>1. UNCHANGED <<exists, applied, existed>>
    BY <1>7 DEF Die
  <2>2. CASE p \in Candidates
    BY <1>7, <2>1, <2>2, ReturnIsGiveUp DEF Die
  <2>3. CASE p \notin Candidates
    <3>1. step[p] = 0
      BY <2>3 DEF TypeOK, SafeInv, OnlyNewRunScript, Candidates
    <3>2. Candidates' = Candidates
      BY <1>7, <2>1, <2>3 DEF Die, TypeOK, Candidates
    <3>3. step' = step
      BY <1>7, <3>1 DEF Die, TypeOK
    <3> QED
      BY <2>1, <3>2, <3>3, Stutters DEF Authors
  <2> QED
    BY <2>2, <2>3
<1>8. CASE UNCHANGED vars
  BY <1>8, Stutters DEF vars, Candidates, Authors
<1> QED
  BY <1>1, <1>2, <1>3, <1>4, <1>5, <1>6, <1>7, <1>8 DEF Next, ComeUp

\* Processes starting up on one file implement SchemaFile: one of those that
\* found no file writes the whole schema, once, or nobody ever does.
THEOREM SchemaFileImplemented == Spec => ImplementsSchemaFile
<1>1. Init => File!Init /\ FileStays
  BY InitIsFileInit DEF Init, FileStays
<1>2. TypeOK /\ SafeInv /\ FileStays /\ [Next]_vars => [File!Next]_(File!vars) /\ FileStays'
  BY NextIsFileNext, FileStaysKept
<1> QED
  BY <1>1, <1>2, StartupInvariant, PTL DEF Spec, ImplementsSchemaFile, File!Spec
-----------------------------------------------------------------------------
(* What StartsEnd rests on.                                                 *)

LEMMA StepsLeftCounts ==
  ASSUME TypeOK, NEW p \in Servers
  PROVE  StepsLeft(p) \in Nat
<1>1. step[p] \in 0 .. (Tables + Seeds) /\ Tables + Seeds \in Nat
  BY ScriptAssumption DEF TypeOK, Script
<1>2. (Tables + Seeds + 2) - step[p] \in Nat
  BY <1>1, ScriptAssumption
<1> QED
  BY <1>1, <1>2, ScriptAssumption DEF StepsLeft

\* open() that returns leaves the port to be bound.
LEMMA ReturnDescends ==
  ASSUME TypeOK, NEW p \in Servers, pc[p] \in {"probed", "opened", "script"},
         NEW result \in BOOLEAN, OpenReturns(p, result)
  PROVE  StepsLeft(p)' < StepsLeft(p)
<1>1. StepsLeft(p)' = 1
  BY DEF OpenReturns, TypeOK, StepsLeft
<1>2. step[p] \in 0 .. (Tables + Seeds) /\ Tables + Seeds \in Nat
  BY ScriptAssumption DEF TypeOK, Script
<1>3. 1 < (Tables + Seeds + 2) - step[p]
  BY <1>2, ScriptAssumption
<1>4. 1 < Tables + Seeds + 4 /\ 1 < Tables + Seeds + 3
  BY ScriptAssumption
<1> QED
  BY <1>1, <1>3, <1>4 DEF StepsLeft

\* The next statement of the script is the one after.
LEMMA NextStatementDescends ==
  ASSUME TypeOK, NEW p \in Servers, pc[p] = "script", pc'[p] = pc[p],
         step'[p] = step[p] + 1
  PROVE  StepsLeft(p)' < StepsLeft(p)
<1>1. step[p] \in Nat
  BY ScriptAssumption DEF TypeOK, Script
<1>2. /\ StepsLeft(p) = (Tables + Seeds + 2) - step[p]
      /\ StepsLeft(p)' = (Tables + Seeds + 2) - (step[p] + 1)
  BY DEF StepsLeft
<1> QED
  BY <1>1, <1>2, ScriptAssumption

LEMMA ComingUpDescends ==
  ASSUME TypeOK, NEW p \in Servers, ComeUp(p)
  PROVE  StepsLeft(p)' < StepsLeft(p)
<1>1. CASE OpenFile(p)
  <2>1. CASE OpenReturns(p, FALSE)
    BY <1>1, <2>1, ReturnDescends DEF OpenFile
  <2>2. CASE pc' = [pc EXCEPT ![p] = "opened"]
    <3>1. StepsLeft(p) = Tables + Seeds + 4 /\ StepsLeft(p)' = Tables + Seeds + 3
      BY <1>1, <2>2 DEF OpenFile, TypeOK, StepsLeft
    <3> QED
      BY <3>1, ScriptAssumption
  <2> QED
    BY <1>1, <2>1, <2>2 DEF OpenFile
<1>2. CASE EnableForeignKeys(p)
  <2>1. ASSUME NEW result \in BOOLEAN, OpenReturns(p, result)
        PROVE  StepsLeft(p)' < StepsLeft(p)
    BY <1>2, <2>1, ReturnDescends DEF EnableForeignKeys
  <2>2. CASE pc' = [pc EXCEPT ![p] = "script"] /\ UNCHANGED step
    <3>1. step[p] = 0
      BY <1>2 DEF EnableForeignKeys, TypeOK
    <3>2. StepsLeft(p) = Tables + Seeds + 3 /\ StepsLeft(p)' = (Tables + Seeds + 2) - 0
      BY <1>2, <2>2, <3>1 DEF EnableForeignKeys, TypeOK, StepsLeft
    <3> QED
      BY <3>2, ScriptAssumption
  <2> QED
    BY <1>2, <2>1, <2>2 DEF EnableForeignKeys
<1>3. CASE FindScript(p)
  <2>1. ASSUME NEW result \in BOOLEAN, OpenReturns(p, result)
        PROVE  StepsLeft(p)' < StepsLeft(p)
    BY <1>3, <2>1, ReturnDescends DEF FindScript
  <2>2. CASE step' = [step EXCEPT ![p] = 1] /\ UNCHANGED pc
    <3>1. pc[p] = "script" /\ pc'[p] = pc[p] /\ step'[p] = step[p] + 1
      BY <1>3, <2>2 DEF FindScript, TypeOK
    <3> QED
      BY <3>1, NextStatementDescends
  <2> QED
    BY <1>3, <2>1, <2>2 DEF FindScript
<1>4. CASE Statement(p)
  <2>1. ASSUME NEW result \in BOOLEAN, OpenReturns(p, result)
        PROVE  StepsLeft(p)' < StepsLeft(p)
    BY <1>4, <2>1, ReturnDescends DEF Statement
  <2>2. CASE step' = [step EXCEPT ![p] = @ + 1] /\ UNCHANGED pc
    <3>1. pc[p] = "script" /\ pc'[p] = pc[p] /\ step'[p] = step[p] + 1
      BY <1>4, <2>2 DEF Statement, TypeOK
    <3> QED
      BY <3>1, NextStatementDescends
  <2> QED
    BY <1>4, <2>1, <2>2 DEF Statement
<1>5. CASE Bind(p)
  <2>1. StepsLeft(p) = 1 /\ StepsLeft(p)' = 0
    BY <1>5 DEF Bind, TypeOK, StepsLeft
  <2> QED
    BY <2>1
<1> QED
  BY <1>1, <1>2, <1>3, <1>4, <1>5 DEF ComeUp

\* A process in whose place nothing changed is as far from the end as before.
LEMMA BystanderKeepsSteps ==
  ASSUME TypeOK, NEW p \in Servers, pc'[p] = pc[p], step'[p] = step[p]
  PROVE  StepsLeft(p)' <= StepsLeft(p)
<1>1. StepsLeft(p)' = StepsLeft(p)
  BY DEF StepsLeft
<1> QED
  BY <1>1, StepsLeftCounts

\* A step of one process moves no other.
LEMMA OnlyOneMoves ==
  ASSUME TypeOK, NEW p \in Servers, Probe(p) \/ ComeUp(p) \/ Die(p), NEW q \in Servers \ {p}
  PROVE  pc'[q] = pc[q] /\ step'[q] = step[q]
<1>1. CASE Probe(p)
  BY <1>1 DEF Probe, TypeOK
<1>2. CASE OpenFile(p)
  BY <1>2 DEF OpenFile, OpenReturns, TypeOK
<1>3. CASE EnableForeignKeys(p)
  BY <1>3 DEF EnableForeignKeys, OpenReturns, TypeOK
<1>4. CASE FindScript(p)
  BY <1>4 DEF FindScript, OpenReturns, TypeOK
<1>5. CASE Statement(p)
  BY <1>5 DEF Statement, OpenReturns, TypeOK
<1>6. CASE Bind(p)
  BY <1>6 DEF Bind, TypeOK
<1>7. CASE Die(p)
  BY <1>7 DEF Die, TypeOK
<1> QED
  BY <1>1, <1>2, <1>3, <1>4, <1>5, <1>6, <1>7 DEF ComeUp

\* Each step of a process that comes up brings it nearer to serving or to its
\* end, and no step sets a process that was started back: StartsEnd is left with
\* nothing but the fairness that a started process goes on.
THEOREM StartsComeToAnEnd == Spec => StartsDescend
<1> DEFINE Descend ==
      \A p \in Servers :
        /\ ComeUp(p) => StepsLeft(p)' < StepsLeft(p)
        /\ pc[p] # "down" => StepsLeft(p)' <= StepsLeft(p)
<1>1. TypeOK /\ [Next]_vars => [Descend]_vars
  <2> SUFFICES ASSUME TypeOK, [Next]_vars, NEW p \in Servers
               PROVE  /\ ComeUp(p) => StepsLeft(p)' < StepsLeft(p)
                      /\ pc[p] # "down" => StepsLeft(p)' <= StepsLeft(p)
    OBVIOUS
  <2>1. ComeUp(p) => StepsLeft(p)' < StepsLeft(p)
    BY ComingUpDescends
  <2>2. ASSUME pc[p] # "down"
        PROVE  StepsLeft(p)' <= StepsLeft(p)
    <3>1. CASE ComeUp(p)
      <4>1. StepsLeft(p) \in Nat /\ StepsLeft(p)' \in Nat
        <5>1. TypeOK'
          BY TypesKept
        <5>2. StepsLeft(p)' \in Nat
          <6>1. step'[p] \in 0 .. (Tables + Seeds) /\ Tables + Seeds \in Nat
            BY <5>1, ScriptAssumption DEF TypeOK, Script
          <6>2. (Tables + Seeds + 2) - step'[p] \in Nat
            BY <6>1, ScriptAssumption
          <6> QED
            BY <6>1, <6>2, ScriptAssumption DEF StepsLeft
        <5> QED
          BY <5>2, StepsLeftCounts
      <4> QED
        BY <3>1, <4>1, ComingUpDescends
    <3>2. CASE Probe(p)
      BY <2>2, <3>2 DEF Probe
    <3>3. CASE Die(p)
      <4>1. StepsLeft(p)' = 0
        BY <3>3 DEF Die, TypeOK, StepsLeft
      <4>2. StepsLeft(p) \in Nat
        BY StepsLeftCounts
      <4> QED
        BY <4>1, <4>2
    <3>4. ASSUME NEW q \in Servers \ {p}, Probe(q) \/ ComeUp(q) \/ Die(q)
          PROVE  StepsLeft(p)' <= StepsLeft(p)
      <4>1. pc'[p] = pc[p] /\ step'[p] = step[p]
        BY <3>4, OnlyOneMoves
      <4> QED
        BY <4>1, BystanderKeepsSteps
    <3>5. CASE UNCHANGED vars
      BY <3>5, BystanderKeepsSteps DEF vars
    <3> QED
      BY <3>1, <3>2, <3>3, <3>4, <3>5 DEF Next
  <2> QED
    BY <2>1, <2>2
<1> HIDE DEF Descend
<1>2. Spec => [][Descend]_vars
  BY <1>1, StartupTypeCorrect, PTL DEF Spec
<1> QED
  BY <1>2 DEF Descend, StartsDescend
=============================================================================
