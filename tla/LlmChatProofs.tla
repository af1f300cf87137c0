---------------------------- MODULE LlmChatProofs ----------------------------
(***************************************************************************)
(* DeepSeekEngine, for any number of chats: no chat() is answered twice,   *)
(* on_result is called only with the body of a response with status 200,   *)
(* and an engine that is deleted after a run() is never heard of again.    *)
(* For a base_url of any length: parse_base_url takes it apart without     *)
(* losing a character.                                                     *)
(***************************************************************************)
EXTENDS LlmChat, SequenceTheorems, WellFoundedInduction, TLAPS

USE DEF vars, llmVars, execVars

Answers == {"result", "error"}

(* No answer, or one, is at most one. *)
LEMMA ShortAnswers == \A a \in {<<>>, <<"result">>, <<"error">>} : Len(a) <= 1
<1>1. Len(<<>>) <= 1 /\ Len(<<"result">>) <= 1 /\ Len(<<"error">>) <= 1 OBVIOUS
<1>2. QED BY <1>1

(* Nothing is asked yet. *)
LEMMA ChatInit == Init => ChatInv /\ IdleWhenDeleted
<1> SUFFICES ASSUME Init PROVE ChatInv /\ IdleWhenDeleted OBVIOUS
<1> USE DEF Init, ExecInit
<1>1. ExecTypeOK
  <2>1. called <= due /\ due <= posted OBVIOUS
  <2>2. job \in [Works -> {"none", "queued", "working", "finished"}] OBVIOUS
  <2>3. QED BY <2>1, <2>2 DEF ExecTypeOK
<1>2. answers \in [Works -> Seq(Answers)] OBVIOUS
<1>3. TypeOK BY <1>1, <1>2 DEF TypeOK, Answers
<1>4. OneAnswerEach BY DEF OneAnswerEach
<1>5. AnsweredOnceTruly BY <1>4, ShortAnswers DEF AnsweredOnceTruly, OneAnswerEach
<1>6. IdleWhenDeleted BY DEF IdleWhenDeleted
<1>7. QED BY <1>3, <1>4, <1>5, <1>6 DEF ChatInv

(* on_done of the finished jobs of S gives each of them its only answer. *)
LEMMA JobsAnswered ==
  ASSUME ChatInv, NEW S \in SUBSET Works,
         \A w \in S : job[w] = "finished",
         job' = [w \in Works |-> IF w \in S THEN "none" ELSE job[w]],
         answers' = Answered(S),
         UNCHANGED <<phase, ok, response>>
  PROVE  /\ answers' \in [Works -> Seq(Answers)]
         /\ job' \in [Works -> {"none", "queued", "working", "finished"}]
         /\ OneAnswerEach' /\ AnsweredOnceTruly'
<1>1. /\ answers \in [Works -> Seq(Answers)] /\ ok \in [Works -> BOOLEAN]
      /\ job \in [Works -> {"none", "queued", "working", "finished"}]
  BY DEF ChatInv, TypeOK, ExecTypeOK, Answers
<1>2. Append(<<>>, "result") = <<"result">> /\ Append(<<>>, "error") = <<"error">> OBVIOUS
<1>3. <<"result">> \in Seq(Answers) /\ <<"error">> \in Seq(Answers) BY DEF Answers
<1>4. \A w \in S : answers[w] = <<>> BY DEF ChatInv, OneAnswerEach
<1>5. \A w \in Works : answers'[w] = IF w \in S THEN (IF ok[w] THEN <<"result">> ELSE <<"error">>)
                                     ELSE answers[w]
  BY <1>2, <1>4 DEF Answered
<1>6. answers' = [w \in Works |-> answers'[w]] BY DEF Answered
<1>7. answers' \in [Works -> Seq(Answers)] BY <1>1, <1>3, <1>5, <1>6
<1>8. job' \in [Works -> {"none", "queued", "working", "finished"}] BY <1>1
<1>9. OneAnswerEach'
  BY <1>5 DEF ChatInv, OneAnswerEach
<1>10. \A w \in Works : answers'[w] = <<"result">> => response'[w] = "200"
  <2>1. <<"error">> # <<"result">> OBVIOUS
  <2>2. QED BY <1>5, <2>1 DEF ChatInv, OneAnswerEach, AnsweredOnceTruly
<1>11. AnsweredOnceTruly' BY <1>9, <1>10, ShortAnswers DEF AnsweredOnceTruly, OneAnswerEach
<1>12. QED BY <1>7, <1>8, <1>9, <1>11

(* A step that answers nobody and neither asks nor ends a request. *)
LEMMA NoAnswer ==
  ASSUME ChatInv, UNCHANGED <<answers, phase, response, ok, base_url>>,
         ExecTypeOK', \A w \in Works : job'[w] # "none" => job[w] # "none",
         turn' \in {"none", "step", "run"},
         inCb' \in BOOLEAN, quiet' \in BOOLEAN, gone' \in BOOLEAN
  PROVE  ChatInv'
<1>1. TypeOK' BY DEF ChatInv, TypeOK
<1>2. OneAnswerEach' BY DEF ChatInv, OneAnswerEach
<1>3. AnsweredOnceTruly' BY DEF ChatInv, AnsweredOnceTruly
<1>4. QED BY <1>1, <1>2, <1>3 DEF ChatInv

(* chat() asks, refuses a base_url it cannot use, or throws. *)
LEMMA ChatAsked == ASSUME ChatInv, NEW w \in Works, chat(w) PROVE ChatInv'
<1> DEFINE tag == parse_base_url(base_url).tag
<1>1. /\ phase[w] = "none" /\ ~gone
      /\ phase' = [phase EXCEPT ![w] = IF tag = "throw" THEN "thrown" ELSE "asked"]
      /\ answers' = IF tag = "false" THEN [answers EXCEPT ![w] = Append(@, "error")]
                    ELSE answers
      /\ IF tag = "true" THEN Submit(w) ELSE UNCHANGED execVars
      /\ quiet' = (quiet /\ tag # "true")
      /\ UNCHANGED <<base_url, response, ok, turn, inCb, gone>>
  BY DEF chat, AppRuns
<1> HIDE DEF tag
<1>2. /\ TypeOK /\ ExecTypeOK /\ answers \in [Works -> Seq(Answers)]
      /\ phase \in [Works -> {"none", "asked", "thrown"}]
      /\ job \in [Works -> {"none", "queued", "working", "finished"}]
  BY DEF ChatInv, TypeOK, ExecTypeOK, Answers
<1>3. job[w] = "none" /\ answers[w] = <<>> BY <1>1 DEF ChatInv, OneAnswerEach
<1>4. \A v \in Works : answers'[v] = IF v = w /\ tag = "false" THEN <<"error">> ELSE answers[v]
  <2>1. Append(<<>>, "error") = <<"error">> OBVIOUS
  <2>2. QED BY <1>1, <1>2, <1>3, <2>1
<1>5. answers' \in [Works -> Seq(Answers)]
  <2>1. <<"error">> \in Seq(Answers) BY DEF Answers
  <2>2. answers' = [v \in Works |-> answers'[v]] BY <1>1, <1>2
  <2>3. QED BY <1>2, <1>4, <2>1, <2>2
<1>6. /\ phase' \in [Works -> {"none", "asked", "thrown"}]
      /\ \A v \in Works : phase'[v] = IF v # w THEN phase[v]
                                       ELSE IF tag = "throw" THEN "thrown" ELSE "asked"
  BY <1>1, <1>2
<1>7. /\ ExecTypeOK'
      /\ \A v \in Works : job'[v] = IF v = w /\ tag = "true" THEN "queued" ELSE job[v]
  <2>1. CASE tag = "true"
    <3>1. job' = [job EXCEPT ![w] = "queued"] /\ UNCHANGED <<on, posted, called, due>>
      BY <1>1, <2>1 DEF Submit, Move
    <3>2. QED BY <1>2, <2>1, <3>1 DEF ExecTypeOK
  <2>2. CASE tag # "true"
    <3>1. UNCHANGED <<on, posted, called, due, job>> BY <1>1, <2>2
    <3>2. QED BY <1>2, <2>2, <3>1 DEF ExecTypeOK
  <2>3. QED BY <2>1, <2>2
<1>8. quiet' \in BOOLEAN BY <1>1
<1>9. TypeOK' BY <1>1, <1>2, <1>5, <1>6, <1>7, <1>8 DEF TypeOK, Answers
<1>10. OneAnswerEach'
  <2> SUFFICES ASSUME NEW v \in Works
               PROVE  /\ job'[v] # "none" => phase'[v] = "asked" /\ answers'[v] = <<>>
                      /\ phase'[v] = "none" => answers'[v] = <<>>
                      /\ answers'[v] \in {<<>>, <<"result">>, <<"error">>}
                      /\ ok'[v] => response'[v] = "200"
    BY DEF OneAnswerEach
  <2>1. CASE v = w BY <1>1, <1>3, <1>4, <1>6, <1>7, <2>1 DEF ChatInv, OneAnswerEach
  <2>2. CASE v # w BY <1>1, <1>4, <1>6, <1>7, <2>2 DEF ChatInv, OneAnswerEach
  <2>3. QED BY <2>1, <2>2
<1>11. AnsweredOnceTruly'
  <2>1. <<"error">> # <<"result">> OBVIOUS
  <2>2. \A v \in Works : answers'[v] = <<"result">> => response'[v] = "200"
    BY <1>1, <1>4, <2>1 DEF ChatInv, AnsweredOnceTruly
  <2>3. QED BY <1>10, <2>2, ShortAnswers DEF AnsweredOnceTruly, OneAnswerEach
<1>12. QED BY <1>9, <1>10, <1>11 DEF ChatInv

(* A request that ends decides what the answer will be; there is none so far. *)
LEMMA RequestEnded ==
  ASSUME ChatInv, NEW w \in Works, NEW r \in Responses, WorkEnd(w, r) PROVE ChatInv'
<1>1. /\ job[w] = "working" /\ job' = [job EXCEPT ![w] = "finished"]
      /\ response' = [response EXCEPT ![w] = r] /\ ok' = [ok EXCEPT ![w] = (r = "200")]
      /\ UNCHANGED <<on, posted, called, due, base_url, phase, answers, turn, inCb, quiet, gone>>
  BY DEF WorkEnd, Finish, Move
<1>2. TypeOK /\ ExecTypeOK BY DEF ChatInv, TypeOK
<1>3. ExecTypeOK' BY <1>1, <1>2 DEF ExecTypeOK
<1>4. ok' \in [Works -> BOOLEAN] /\ response' \in [Works -> Responses \cup {"none"}]
  BY <1>1, <1>2 DEF TypeOK
<1>5. TypeOK' BY <1>1, <1>2, <1>3, <1>4 DEF TypeOK
<1>6. answers[w] = <<>> BY <1>1 DEF ChatInv, OneAnswerEach
<1>7. \A v \in Works : /\ job'[v] = IF v = w THEN "finished" ELSE job[v]
                       /\ ok'[v] = IF v = w THEN r = "200" ELSE ok[v]
                       /\ response'[v] = IF v = w THEN r ELSE response[v]
  BY <1>1, <1>2 DEF TypeOK, ExecTypeOK
<1>8. OneAnswerEach' BY <1>1, <1>7 DEF ChatInv, OneAnswerEach
<1>9. AnsweredOnceTruly' BY <1>1, <1>6, <1>7 DEF ChatInv, AnsweredOnceTruly
<1>10. QED BY <1>5, <1>8, <1>9 DEF ChatInv

(* stop(): what its last turn of the loop finds finished is answered. *)
LEMMA StopAnswers ==
  ASSUME ChatInv, NEW S \in SUBSET Works, StopEffect(S),
         UNCHANGED <<base_url, phase, response, ok, turn, inCb, quiet>>, gone' \in BOOLEAN
  PROVE  ChatInv'
<1>1. /\ answers' \in [Works -> Seq(Answers)]
      /\ job' \in [Works -> {"none", "queued", "working", "finished"}]
      /\ OneAnswerEach' /\ AnsweredOnceTruly'
  BY JobsAnswered DEF StopEffect
<1>2. ExecTypeOK'
  <2>1. \A a, b, c \in Nat : a <= a /\ (a <= b /\ b <= c => a <= c) OBVIOUS
  <2>2. called <= called /\ called <= posted BY <2>1 DEF ChatInv, TypeOK, ExecTypeOK
  <2>3. due' = called /\ on' = FALSE /\ UNCHANGED <<posted, called>> BY DEF StopEffect
  <2>4. QED BY <1>1, <2>2, <2>3 DEF ChatInv, TypeOK, ExecTypeOK
<1>3. TypeOK' BY <1>1, <1>2 DEF ChatInv, TypeOK, Answers
<1>4. QED BY <1>1, <1>3 DEF ChatInv

LEMMA ChatNext == ChatInv /\ [Next]_vars => ChatInv'
<1> SUFFICES ASSUME ChatInv, [Next]_vars PROVE ChatInv' OBVIOUS
<1>0. /\ TypeOK /\ ExecTypeOK /\ turn \in {"none", "step", "run"}
      /\ inCb \in BOOLEAN /\ quiet \in BOOLEAN /\ gone \in BOOLEAN
      /\ job \in [Works -> {"none", "queued", "working", "finished"}]
  BY DEF ChatInv, TypeOK, ExecTypeOK
<1>1. UNCHANGED execVars => ExecTypeOK' /\ job' = job BY <1>0 DEF ExecTypeOK
<1>2. CASE start
  <2>1. ExecTypeOK' /\ job' = job /\ UNCHANGED llmVars
    BY <1>0, <1>2 DEF start, ExecStart, ExecTypeOK
  <2>2. QED BY <1>0, <2>1, NoAnswer
<1>3. CASE \E w \in Works : chat(w) BY <1>3, ChatAsked
<1>4. ASSUME NEW how \in {"step", "run"}, Turn(how) PROVE ChatInv'
  BY <1>0, <1>1, <1>4, NoAnswer DEF Turn
<1>5. ASSUME NEW S \in SUBSET Works, stop(S) PROVE ChatInv'
  BY <1>0, <1>5, StopAnswers DEF stop
<1>6. ASSUME NEW S \in SUBSET Works, destroy(S) PROVE ChatInv'
  <2>1. /\ gone' = TRUE /\ UNCHANGED <<base_url, phase, response, ok, turn, inCb, quiet>>
        /\ StopEffect(S) \/ UNCHANGED <<execVars, answers>>
    BY <1>6 DEF destroy
  <2>2. CASE StopEffect(S) BY <2>1, <2>2, StopAnswers
  <2>3. CASE UNCHANGED <<execVars, answers>> BY <1>0, <1>1, <2>1, <2>3, NoAnswer
  <2>4. QED BY <2>1, <2>2, <2>3
<1>7. ASSUME NEW w \in Works, OnDoneCall(w) PROVE ChatInv'
  <2>1. /\ job[w] = "finished" /\ job' = [job EXCEPT ![w] = "none"]
        /\ answers' = Answered({w}) /\ inCb' = TRUE
        /\ UNCHANGED <<on, posted, called, due, base_url, phase, response, ok, turn, quiet, gone>>
    BY <1>7 DEF OnDoneCall, OnDone, Move
  <2>2. job' = [v \in Works |-> IF v \in {w} THEN "none" ELSE job[v]] BY <1>0, <2>1
  <2>3. /\ answers' \in [Works -> Seq(Answers)]
        /\ job' \in [Works -> {"none", "queued", "working", "finished"}]
        /\ OneAnswerEach' /\ AnsweredOnceTruly'
    BY <2>1, <2>2, JobsAnswered
  <2>4. ExecTypeOK' BY <1>0, <2>1, <2>3 DEF ExecTypeOK
  <2>5. TypeOK' BY <1>0, <2>1, <2>3, <2>4 DEF TypeOK, Answers
  <2>6. QED BY <2>3, <2>5 DEF ChatInv
<1>8. CASE CbReturn \/ StepReturn \/ RunReturn
  BY <1>0, <1>1, <1>8, NoAnswer DEF CbReturn, StepReturn, RunReturn
<1>9. ASSUME NEW w \in Works, WorkBegin(w) PROVE ChatInv'
  <2>1. /\ job[w] = "queued" /\ job' = [job EXCEPT ![w] = "working"]
        /\ UNCHANGED <<on, posted, called, due, llmVars>>
    BY <1>9 DEF WorkBegin, Begin, Move
  <2>2. ExecTypeOK' /\ \A v \in Works : job'[v] # "none" => job[v] # "none"
    BY <1>0, <2>1 DEF ExecTypeOK
  <2>3. QED BY <1>0, <2>1, <2>2, NoAnswer
<1>10. ASSUME NEW w \in Works, NEW r \in Responses, WorkEnd(w, r) PROVE ChatInv'
  BY <1>10, RequestEnded
<1>11. CASE UNCHANGED vars BY <1>0, <1>1, <1>11, NoAnswer
<1>12. QED
  BY <1>2, <1>3, <1>4, <1>5, <1>6, <1>7, <1>8, <1>9, <1>10, <1>11 DEF Next, Loop, Pool

(* A deleted engine has no job, as long as it is deleted after a run() only. *)
LEMMA IdleNext ==
  ASSUME "early_delete" \notin AppMay, ChatInv, IdleWhenDeleted, [Next]_vars
  PROVE  IdleWhenDeleted'
<1>0. /\ quiet \in BOOLEAN /\ gone \in BOOLEAN
      /\ job \in [Works -> {"none", "queued", "working", "finished"}]
  BY DEF ChatInv, TypeOK, ExecTypeOK
<1>1. CASE UNCHANGED <<quiet, gone, job>> BY <1>1 DEF IdleWhenDeleted
<1>2. CASE start BY <1>1, <1>2 DEF start, ExecStart
<1>3. ASSUME NEW w \in Works, chat(w) PROVE IdleWhenDeleted'
  <2>1. ~gone /\ gone' = gone BY <1>3 DEF chat, AppRuns
  <2>2. quiet' => quiet /\ job' = job BY <1>3 DEF chat
  <2>3. QED BY <2>1, <2>2 DEF IdleWhenDeleted
<1>4. CASE \E how \in {"step", "run"} : Turn(how) BY <1>1, <1>4 DEF Turn
<1>5. ASSUME NEW S \in SUBSET Works, stop(S) PROVE IdleWhenDeleted'
  <2>1. \A w \in Works : job[w] = "none" => job'[w] = "none"
    BY <1>5 DEF stop, StopEffect
  <2>2. QED BY <1>5, <2>1 DEF stop, IdleWhenDeleted
<1>6. ASSUME NEW S \in SUBSET Works, destroy(S) PROVE IdleWhenDeleted'
  <2>1. quiet /\ quiet' = quiet BY <1>6 DEF destroy
  <2>2. \A w \in Works : job[w] = "none" => job'[w] = "none"
    BY <1>6 DEF destroy, StopEffect
  <2>3. QED BY <2>1, <2>2 DEF IdleWhenDeleted
<1>7. ASSUME NEW w \in Works, OnDoneCall(w) PROVE IdleWhenDeleted'
  <2>1. job[w] = "finished" /\ UNCHANGED <<quiet, gone>>
    BY <1>7 DEF OnDoneCall, OnDone, Move
  <2>2. QED BY <2>1 DEF IdleWhenDeleted
<1>8. CASE CbReturn \/ StepReturn BY <1>1, <1>8 DEF CbReturn, StepReturn
<1>9. CASE RunReturn BY <1>9 DEF RunReturn, IdleWhenDeleted
<1>10. ASSUME NEW w \in Works, WorkBegin(w) \/ \E r \in Responses : WorkEnd(w, r)
       PROVE  IdleWhenDeleted'
  <2>1. job[w] # "none" /\ UNCHANGED <<quiet, gone>>
    BY <1>10 DEF WorkBegin, WorkEnd, Begin, Finish, Move
  <2>2. QED BY <2>1 DEF IdleWhenDeleted
<1>11. CASE UNCHANGED vars BY <1>1, <1>11
<1>12. QED
  BY <1>2, <1>3, <1>4, <1>5, <1>6, <1>7, <1>8, <1>9, <1>10, <1>11 DEF Next, Loop, Pool

(* Nothing of a deleted engine is called: neither chat() nor stop() can be, and
   there is no job whose on_done could. *)
LEMMA DeletedSilent ==
  ASSUME IdleWhenDeleted, gone, [Next]_vars
  PROVE  answers' = answers
<1>1. \A w \in Works : job[w] = "none" BY DEF IdleWhenDeleted
<1>2. CASE \E w \in Works : OnDoneCall(w) BY <1>1, <1>2 DEF OnDoneCall, OnDone, Move
<1>3. CASE \E S \in SUBSET Works : stop(S) \/ destroy(S)
  BY <1>3 DEF stop, destroy, AppRuns
<1>4. CASE \E w \in Works : chat(w) BY <1>4 DEF chat, AppRuns
<1>5. CASE start BY <1>5 DEF start, AppRuns
<1>6. CASE \E how \in {"step", "run"} : Turn(how) BY <1>6 DEF Turn
<1>7. CASE CbReturn \/ StepReturn \/ RunReturn BY <1>7 DEF CbReturn, StepReturn, RunReturn
<1>8. CASE \E w \in Works : Pool(w) BY <1>8 DEF Pool, WorkBegin, WorkEnd
<1>9. CASE UNCHANGED vars BY <1>9
<1>10. QED
  BY <1>2, <1>3, <1>4, <1>5, <1>6, <1>7, <1>8, <1>9 DEF Next, Loop

(***************************************************************************)
(* The theorems.                                                           *)
(***************************************************************************)
(* Types, at most one answer to each chat(), and none to a chat() whose request is
   still in the pool: what every operation of the engine preserves. *)
THEOREM ChatInvariant == Spec => []ChatInv
<1>1. Init => ChatInv BY ChatInit
<1>2. ChatInv /\ [Next]_vars => ChatInv' BY ChatNext
<1>3. QED BY <1>1, <1>2, PTL DEF Spec

(* Each chat() has at most one answer, however stop(), the turns of the loop and
   the pool interleave, and on_result only for a response with status 200. *)
THEOREM ChatsAnsweredOnce == Spec => []AnsweredOnceTruly
<1>1. ChatInv => AnsweredOnceTruly BY DEF ChatInv
<1>2. QED BY <1>1, ChatInvariant, PTL

(* After an engine that run() had come back from is deleted, no callback of it is
   called any more, whatever turns its loop. *)
THEOREM DeletedIsSilent ==
  ASSUME "early_delete" \notin AppMay PROVE Spec => NothingAfterDelete
<1>1. Init => ChatInv /\ IdleWhenDeleted BY ChatInit
<1>2. ChatInv /\ IdleWhenDeleted /\ [Next]_vars => (ChatInv /\ IdleWhenDeleted)'
  BY ChatNext, IdleNext
<1>3. ChatInv /\ IdleWhenDeleted /\ [Next]_vars => [gone => answers' = answers]_vars
  BY DeletedSilent
<1>4. QED BY <1>1, <1>2, <1>3, PTL DEF Spec, NothingAfterDelete

-----------------------------------------------------------------------------
(* A set of naturals that is not empty has a minimum, which Min chooses. *)
LEMMA MinProperty ==
  ASSUME NEW T, T \subseteq Nat, T # {}
  PROVE  Min(T) \in T /\ \A y \in T : Min(T) <= y
<1> DEFINE R == OpToRel(<, Nat)
<1>1. IsWellFoundedOn(R, Nat) BY NatLessThanWellFounded
<1>2. \A x, y \in Nat : x < y => <<x, y>> \in R BY DEF OpToRel
<1> HIDE DEF R
<1>3. PICK x \in T : \A y \in T : <<y, x>> \notin R BY <1>1, WFMin
<1>4. ASSUME NEW y \in T PROVE x <= y
  <2>1. x \in Nat /\ y \in Nat /\ ~(y < x) BY <1>2, <1>3
  <2>2. QED BY <2>1
<1>5. QED BY <1>4 DEF Min

(* Find returns the first place of a character, or 0. *)
LEMMA FindFirst ==
  ASSUME NEW S, NEW s \in Seq(S), NEW c
  PROVE  /\ Find(s, c) \in 0..Len(s) /\ Len(s) \in Nat
         /\ Find(s, c) = 0 => \A i \in 1..Len(s) : s[i] # c
         /\ Find(s, c) > 0 => s[Find(s, c)] = c
         /\ \A i \in 1..(Find(s, c) - 1) : s[i] # c
<1> DEFINE I == {i \in 1..Len(s) : s[i] = c}
<1>0. Len(s) \in Nat OBVIOUS
<1>1. Find(s, c) = IF I # {} THEN Min(I) ELSE 0 BY DEF Find, SelectInSeq
<1>2. I \subseteq Nat BY <1>0
<1>3. CASE I = {} BY <1>0, <1>1, <1>3
<1>4. CASE I # {}
  <2>1. Min(I) \in I /\ \A y \in I : Min(I) <= y BY <1>2, <1>4, MinProperty
  <2>2. Find(s, c) = Min(I) BY <1>1, <1>4
  <2>3. PICK m : m = Find(s, c) OBVIOUS
  <2>4. m \in 1..Len(s) /\ s[m] = c /\ \A y \in I : m <= y BY <2>1, <2>2, <2>3
  <2>5. ASSUME NEW i \in 1..(m - 1) PROVE s[i] # c
    <3>1. i \in 1..Len(s) /\ ~(m <= i) BY <1>0, <2>4, <2>5
    <3>2. QED BY <2>4, <3>1
  <2>6. m \in 0..Len(s) /\ m # 0 BY <1>0, <2>4
  <2>7. QED BY <1>0, <2>3, <2>4, <2>5, <2>6
<1>5. QED BY <1>3, <1>4

(* A sequence cut after k elements. *)
LEMMA Cut ==
  ASSUME NEW S, NEW s \in Seq(S), NEW k \in 0..Len(s)
  PROVE  /\ SubSeq(s, 1, k) \in Seq(S) /\ Len(SubSeq(s, 1, k)) = k
         /\ \A i \in 1..k : SubSeq(s, 1, k)[i] = s[i]
         /\ SubSeq(s, k + 1, Len(s)) \in Seq(S)
         /\ Len(SubSeq(s, k + 1, Len(s))) = Len(s) - k
         /\ \A i \in 1..(Len(s) - k) : SubSeq(s, k + 1, Len(s))[i] = s[k + i]
         /\ SubSeq(s, 1, k) \o SubSeq(s, k + 1, Len(s)) = s
<1>1. Len(s) \in Nat /\ \A i \in 1..Len(s) : s[i] \in S OBVIOUS
<1>2. /\ SubSeq(s, 1, k) \in Seq(S) /\ Len(SubSeq(s, 1, k)) = k
      /\ \A i \in 1..k : SubSeq(s, 1, k)[i] = s[i]
  <2>1. 1 \in Int /\ k \in Int /\ \A i \in 1..k : s[i] \in S BY <1>1
  <2>2. /\ SubSeq(s, 1, k) \in Seq(S)
        /\ Len(SubSeq(s, 1, k)) = IF 1 <= k THEN k - 1 + 1 ELSE 0
        /\ \A i \in 1..(k - 1 + 1) : SubSeq(s, 1, k)[i] = s[1 + i - 1]
    BY <2>1, SubSeqProperties
  <2>3. QED BY <1>1, <2>2
<1>3. /\ SubSeq(s, k + 1, Len(s)) \in Seq(S)
      /\ Len(SubSeq(s, k + 1, Len(s))) = Len(s) - k
      /\ \A i \in 1..(Len(s) - k) : SubSeq(s, k + 1, Len(s))[i] = s[k + i]
  <2>1. k + 1 \in Int /\ Len(s) \in Int /\ \A i \in (k + 1)..Len(s) : s[i] \in S BY <1>1
  <2>2. /\ SubSeq(s, k + 1, Len(s)) \in Seq(S)
        /\ Len(SubSeq(s, k + 1, Len(s)))
             = IF k + 1 <= Len(s) THEN Len(s) - (k + 1) + 1 ELSE 0
        /\ \A i \in 1..(Len(s) - (k + 1) + 1) :
             SubSeq(s, k + 1, Len(s))[i] = s[k + 1 + i - 1]
    BY <2>1, SubSeqProperties
  <2>3. QED BY <1>1, <2>2
<1>4. SubSeq(s, 1, k) \o SubSeq(s, k + 1, Len(s)) = SubSeq(s, 1, Len(s))
  <2>1. 1 \in 1..(Len(s) + 1) /\ k \in (1 - 1)..Len(s) /\ Len(s) \in k..Len(s) BY <1>1
  <2>2. QED BY <2>1, ConcatAdjacentSubSeq
<1>5. SubSeq(s, 1, Len(s)) = s BY SubSeqFull
<1>6. QED BY <1>2, <1>3, <1>4, <1>5

(* Four sequences, put together from the right or from the left. *)
LEMMA Regroup ==
  ASSUME NEW S, NEW a \in Seq(S), NEW b \in Seq(S), NEW c \in Seq(S), NEW d \in Seq(S)
  PROVE  a \o (b \o (c \o d)) = a \o (b \o c) \o d
<1> DEFINE l == a \o (b \o (c \o d))
           r == a \o (b \o c) \o d
<1>1. l \in Seq(S) /\ r \in Seq(S)
  <2>1. c \o d \in Seq(S) /\ b \o c \in Seq(S) BY ConcatProperties
  <2>2. b \o (c \o d) \in Seq(S) /\ a \o (b \o c) \in Seq(S) BY <2>1, ConcatProperties
  <2>3. QED BY <2>2, ConcatProperties
<1>2. Len(l) = Len(r) OBVIOUS
<1>3. ASSUME NEW i \in 1..Len(l) PROVE l[i] = r[i] OBVIOUS
<1> HIDE DEF l, r
<1>4. l = r BY <1>1, <1>2, <1>3, SeqEqual
<1>5. QED BY <1>4 DEF l, r

(* The digits a string begins with. *)
LEMMA StoiPrefix ==
  ASSUME NEW S, NEW s \in Seq(S)
  PROVE  \E j \in 0..Len(s) : /\ Stoi(s) = SubSeq(s, 1, j)
                               /\ \A i \in 1..j : s[i] = "8"
<1> DEFINE I == {i \in 1..Len(s) : s[i] # "8"}
           f == SelectInSeq(s, LAMBDA x : x # "8")
<1>0. Len(s) \in Nat OBVIOUS
<1>1. f = IF I # {} THEN Min(I) ELSE 0 BY DEF SelectInSeq
<1>2. Stoi(s) = SubSeq(s, 1, IF f = 0 THEN Len(s) ELSE f - 1) BY DEF Stoi
<1>3. CASE I = {}
  <2>1. f = 0 BY <1>1, <1>3
  <2> HIDE DEF f
  <2>2. Stoi(s) = SubSeq(s, 1, Len(s)) BY <1>2, <2>1
  <2>3. Len(s) \in 0..Len(s) /\ \A i \in 1..Len(s) : s[i] = "8" BY <1>0, <1>3
  <2>4. QED BY <2>2, <2>3
<1>4. CASE I # {}
  <2>0. I \subseteq Nat BY <1>0
  <2>1. Min(I) \in I /\ \A y \in I : Min(I) <= y BY <2>0, <1>4, MinProperty
  <2>2. PICK m : m = f OBVIOUS
  <2>3. m = Min(I) BY <1>1, <1>4, <2>2
  <2>4. Stoi(s) = SubSeq(s, 1, IF m = 0 THEN Len(s) ELSE m - 1) BY <1>2, <2>2
  <2> HIDE DEF f
  <2>5. m \in 1..Len(s) /\ \A y \in I : m <= y BY <2>1, <2>3
  <2>6. Stoi(s) = SubSeq(s, 1, m - 1) /\ m - 1 \in 0..Len(s) BY <1>0, <2>4, <2>5
  <2>7. ASSUME NEW i \in 1..(m - 1) PROVE s[i] = "8"
    <3>1. i \in 1..Len(s) /\ ~(m <= i) BY <1>0, <2>5
    <3>2. QED BY <2>5, <3>1
  <2>8. QED BY <2>6, <2>7
<1>5. QED BY <1>3, <1>4

(* The rest of a base_url is a string within the bound. *)
LEMMA UrlString ==
  ASSUME NEW url \in Urls
  PROVE  /\ url.scheme \in {"https", "http", "other"}
         /\ url.rest \in Seq(Chars) /\ Len(url.rest) <= MaxUrl /\ Len(url.rest) \in Nat
<1>1. /\ url.rest \in UNION {[1..n -> Chars] : n \in 0..MaxUrl}
      /\ url.scheme \in {"https", "http", "other"}
  BY DEF Urls, BoundedSeq, SeqOf
<1>2. PICK n \in 0..MaxUrl : url.rest \in [1..n -> Chars] BY <1>1
<1>3. n \in Nat /\ n <= MaxUrl BY LlmBounds
<1>4. url.rest \in Seq(Chars) /\ Len(url.rest) = n BY <1>2, <1>3
<1>5. QED BY <1>1, <1>3, <1>4

(* What parse_base_url makes of a base_url within the bound: the cut at the first
   '/' and, before it, the cut at the first ':' and after the digits that follow;
   each cut leaves two pieces that put together are what was cut. *)
LEMMA ParsedUrl == base_url \in Urls => ParseRoundTrip
<1> SUFFICES ASSUME base_url \in Urls PROVE ParseRoundTrip OBVIOUS
<1>1. PICK r : r = base_url.rest OBVIOUS
<1>2. /\ r \in Seq(Chars) /\ Len(r) <= MaxUrl /\ Len(r) \in Nat
      /\ base_url.scheme \in {"https", "http", "other"}
  BY <1>1, UrlString
<1>3. PICK slash : slash = Find(r, "/") OBVIOUS
<1>4. PICK hp : hp = IF slash = 0 THEN r ELSE SubSeq(r, 1, slash - 1) OBVIOUS
<1>5. PICK path : path = IF slash = 0 THEN <<>> ELSE From(r, slash) OBVIOUS
<1>6. /\ hp \in Seq(Chars) /\ path \in Seq(Chars) /\ hp \o path = r
      /\ Len(hp) \in Nat /\ Len(hp) <= Len(r)
      /\ \A i \in 1..Len(hp) : hp[i] # "/"
      /\ path = <<>> \/ path[1] = "/"
  <2>1. /\ slash \in 0..Len(r)
        /\ slash = 0 => \A i \in 1..Len(r) : r[i] # "/"
        /\ slash > 0 => r[slash] = "/"
        /\ \A i \in 1..(slash - 1) : r[i] # "/"
    BY <1>2, <1>3, FindFirst
  <2>2. CASE slash = 0
    <3>1. hp = r /\ path = <<>> BY <1>4, <1>5, <2>2
    <3>2. r \o <<>> = r /\ <<>> \in Seq(Chars) BY <1>2, ConcatEmptySeq
    <3>3. QED BY <1>2, <2>1, <2>2, <3>1, <3>2
  <2>3. CASE slash # 0
    <3>1. PICK k : k = slash - 1 OBVIOUS
    <3>2. k \in 0..Len(r) /\ k + 1 = slash /\ k < Len(r) BY <1>2, <2>1, <2>3, <3>1
    <3>3. hp = SubSeq(r, 1, k) /\ path = SubSeq(r, k + 1, Len(r))
      BY <1>4, <1>5, <2>3, <3>1, <3>2 DEF From
    <3>4. /\ hp \in Seq(Chars) /\ Len(hp) = k /\ \A i \in 1..k : hp[i] = r[i]
          /\ path \in Seq(Chars) /\ Len(path) = Len(r) - k
          /\ \A i \in 1..(Len(r) - k) : path[i] = r[k + i]
          /\ hp \o path = r
      BY <1>2, <3>2, <3>3, Cut
    <3>5. path[1] = "/" BY <1>2, <2>1, <2>3, <3>2, <3>4
    <3>6. QED BY <1>2, <2>1, <3>1, <3>2, <3>4, <3>5
  <2>4. QED BY <2>2, <2>3
<1>7. PICK colon : colon = Find(hp, ":") OBVIOUS
<1>8. /\ colon \in 0..Len(hp)
      /\ colon = 0 => \A i \in 1..Len(hp) : hp[i] # ":"
      /\ colon > 0 => hp[colon] = ":"
      /\ \A i \in 1..(colon - 1) : hp[i] # ":"
  BY <1>6, <1>7, FindFirst
<1>9. PICK port : port = From(hp, colon + 1) OBVIOUS
<1>10. PICK p : p = parse_base_url(base_url) OBVIOUS
<1>11. PICK scheme : scheme = base_url.scheme OBVIOUS
<1>12. /\ scheme = "other" => p.tag = "false"
       /\ scheme # "other" /\ colon = 0 =>
            p = [tag |-> "true", host |-> hp, port |-> <<scheme>>, path |-> path]
       /\ scheme # "other" /\ colon # 0 /\ Stoi(port) = <<>> => p.tag = "throw"
       /\ scheme # "other" /\ colon # 0 /\ Stoi(port) # <<>> =>
            p = [tag |-> "true", host |-> SubSeq(hp, 1, colon - 1),
                 port |-> Stoi(port), path |-> path]
  <2>1. p = LET host == IF colon = 0 THEN hp ELSE SubSeq(hp, 1, colon - 1)
                ret(t, q) == [tag |-> t, host |-> host, port |-> q, path |-> path]
            IN IF scheme = "other" THEN ret("false", <<>>)
               ELSE IF colon = 0 THEN ret("true", <<scheme>>)
               ELSE IF Stoi(port) = <<>> THEN ret("throw", <<>>)
               ELSE ret("true", Stoi(port))
    BY <1>1, <1>3, <1>4, <1>5, <1>7, <1>9, <1>10, <1>11 DEF parse_base_url
  <2>2. QED BY <2>1
<1> DEFINE sep == IF p.port = <<scheme>> THEN <<>> ELSE <<":">> \o p.port
           Has(q, c) == \E i \in 1..Len(q) : q[i] = c
<1>13. SUFFICES ASSUME p.tag = "true"
                PROVE  /\ \E junk \in {<<>>} \cup (IF sep = <<>> THEN {}
                                                    ELSE BoundedSeq(Chars \ {"/"}, MaxUrl)) :
                            r = p.host \o sep \o junk \o p.path
                       /\ ~Has(p.host, ":") /\ ~Has(p.host, "/")
                       /\ p.path = <<>> \/ p.path[1] = "/"
  BY <1>1, <1>10, <1>11 DEF ParseRoundTrip
<1>14. CASE colon = 0
  <2>1. p = [tag |-> "true", host |-> hp, port |-> <<scheme>>, path |-> path]
    BY <1>12, <1>13, <1>14
  <2>2. p.host = hp /\ p.path = path /\ sep = <<>> BY <2>1
  <2>3. hp \o <<>> = hp BY <1>6, ConcatEmptySeq
  <2>4. r = p.host \o sep \o <<>> \o p.path BY <1>6, <2>2, <2>3
  <2>5. ~Has(hp, ":") /\ ~Has(hp, "/") BY <1>6, <1>8, <1>14
  <2>6. QED BY <1>6, <2>2, <2>4, <2>5
<1>15. CASE colon # 0
  <2>1. /\ Stoi(port) # <<>>
        /\ p = [tag |-> "true", host |-> SubSeq(hp, 1, colon - 1),
                port |-> Stoi(port), path |-> path]
    BY <1>12, <1>13, <1>15
  <2>2. PICK host : host = SubSeq(hp, 1, colon - 1) OBVIOUS
  <2>3. p.host = host /\ p.path = path /\ p.port = Stoi(port) BY <2>1, <2>2
  <2>4. /\ host \in Seq(Chars) /\ Len(host) = colon - 1
        /\ \A i \in 1..(colon - 1) : host[i] = hp[i]
        /\ host \o SubSeq(hp, colon, Len(hp)) = hp
    <3>1. PICK k : k = colon - 1 OBVIOUS
    <3>2. k \in 0..Len(hp) /\ k + 1 = colon BY <1>6, <1>8, <1>15, <3>1
    <3>3. hp \in Seq(Chars) BY <1>6
    <3>4. /\ SubSeq(hp, 1, k) \in Seq(Chars) /\ Len(SubSeq(hp, 1, k)) = k
          /\ \A i \in 1..k : SubSeq(hp, 1, k)[i] = hp[i]
          /\ SubSeq(hp, 1, k) \o SubSeq(hp, k + 1, Len(hp)) = hp
      BY <3>2, <3>3, Cut, Zenon
    <3>5. QED BY <2>2, <3>1, <3>2, <3>4, Zenon
  <2>5. /\ port \in Seq(Chars) /\ Len(port) = Len(hp) - colon
        /\ \A i \in 1..(Len(hp) - colon) : port[i] = hp[colon + i]
    <3>1. port = SubSeq(hp, colon + 1, Len(hp)) BY <1>9 DEF From
    <3>2. QED BY <1>6, <1>8, <3>1, Cut
  <2>6. SubSeq(hp, colon, Len(hp)) = <<":">> \o port
    <3>1. port = SubSeq(hp, colon + 1, Len(hp)) BY <1>9 DEF From
    <3>2. colon \in 1..Len(hp) /\ Len(hp) \in colon..Len(hp) /\ hp[colon] = ":"
      BY <1>6, <1>8, <1>15
    <3>3. SubSeq(hp, colon, Len(hp)) = <<hp[colon]>> \o SubSeq(hp, colon + 1, Len(hp))
      BY <1>6, <3>2, SubSeqRecursiveFirst
    <3>4. QED BY <3>1, <3>2, <3>3
  <2>7. PICK j \in 0..Len(port) : /\ Stoi(port) = SubSeq(port, 1, j)
                                  /\ \A i \in 1..j : port[i] = "8"
    BY <2>5, StoiPrefix
  <2>8. PICK digits : digits = Stoi(port) OBVIOUS
  <2>9. PICK junk : junk = SubSeq(port, j + 1, Len(port)) OBVIOUS
  <2>10. /\ digits \in Seq(Chars) /\ Len(digits) = j /\ \A i \in 1..j : digits[i] = "8"
         /\ junk \in Seq(Chars) /\ Len(junk) = Len(port) - j
         /\ \A i \in 1..(Len(port) - j) : junk[i] = port[j + i]
         /\ digits \o junk = port
    <3>1. digits = SubSeq(port, 1, j) BY <2>7, <2>8
    <3>2. port \in Seq(Chars) BY <2>5
    <3>3. /\ SubSeq(port, 1, j) \in Seq(Chars) /\ Len(SubSeq(port, 1, j)) = j
          /\ \A i \in 1..j : SubSeq(port, 1, j)[i] = port[i]
          /\ SubSeq(port, j + 1, Len(port)) \in Seq(Chars)
          /\ Len(SubSeq(port, j + 1, Len(port))) = Len(port) - j
          /\ \A i \in 1..(Len(port) - j) : SubSeq(port, j + 1, Len(port))[i] = port[j + i]
          /\ SubSeq(port, 1, j) \o SubSeq(port, j + 1, Len(port)) = port
      BY <3>2, Cut, Zenon
    <3>4. QED BY <2>7, <2>9, <3>1, <3>3, Zenon
  <2>11. digits # <<scheme>>
    <3>1. j \in Nat /\ j # 0 BY <2>1, <2>5, <2>8, <2>10
    <3>2. digits[1] = "8" BY <2>10, <3>1
    <3>3. scheme # "8" /\ <<scheme>>[1] = scheme BY <1>2, <1>11
    <3>4. QED BY <3>2, <3>3
  <2>12. sep = <<":">> \o digits
    <3>1. p.port = digits BY <2>3, <2>8
    <3>2. p.port # <<scheme>> BY <2>11, <3>1
    <3>3. sep = <<":">> \o p.port BY <3>2
    <3>4. QED BY <3>1, <3>3
  <2> HIDE DEF sep
  <2>13. junk \in BoundedSeq(Chars \ {"/"}, MaxUrl)
    <3>1. PICK n : n = Len(junk) OBVIOUS
    <3>2. n \in 0..MaxUrl /\ n = Len(hp) - colon - j
      BY <1>2, <1>6, <1>8, <2>5, <2>7, <2>10, <3>1, LlmBounds
    <3>3. \A i \in 1..n : junk[i] \in Chars \ {"/"}
      <4> TAKE i \in 1..n
      <4>1. junk[i] \in Chars BY <2>10, <3>1
      <4>2. PICK m : m = j + i OBVIOUS
      <4>3. PICK l : l = colon + m OBVIOUS
      <4>4. /\ colon \in Nat /\ j \in Nat /\ Len(hp) \in Nat /\ n = Len(port) - j
            /\ Len(port) = Len(hp) - colon /\ n \in Nat
        BY <1>6, <1>8, <2>5, <2>7, <2>10, <3>1, <3>2
      <4>5. /\ m \in 1..(Len(hp) - colon) /\ l \in 1..Len(hp) /\ i \in 1..(Len(port) - j)
        BY <4>2, <4>3, <4>4
      <4>6. junk[i] = port[m] BY <2>10, <4>2, <4>5, Zenon
      <4>7. port[m] = hp[l] BY <2>5, <4>3, <4>5, Zenon
      <4>8. hp[l] # "/" BY <1>6, <4>5, Zenon
      <4>9. QED BY <4>1, <4>6, <4>7, <4>8, Zenon
    <3>4. junk \in [1..n -> Chars \ {"/"}]
      <4>1. junk \in Seq(Chars) BY <2>10
      <4>2. DOMAIN junk = 1..n /\ junk \in [1..n -> Chars] BY <3>1, <4>1, LenProperties
      <4>3. QED BY <3>3, <4>2
    <3>5. QED BY <3>2, <3>4 DEF BoundedSeq, SeqOf
  <2>14. <<":">> \in Seq(Chars) BY DEF Chars
  <2>15. sep # <<>> /\ sep \in Seq(Chars)
    <3>1. <<":">> # <<>> OBVIOUS
    <3>2. QED BY <2>10, <2>12, <2>14, <3>1, ConcatEqualIffEmpty, ConcatProperties
  <2>16. r = host \o sep \o junk \o path
    <3>1. hp = host \o (<<":">> \o (digits \o junk)) BY <2>4, <2>6, <2>10, Zenon
    <3>2. host \o (<<":">> \o (digits \o junk)) = host \o (<<":">> \o digits) \o junk
      <4>1. /\ host \in Seq(Chars) /\ <<":">> \in Seq(Chars)
            /\ digits \in Seq(Chars) /\ junk \in Seq(Chars)
        BY <2>4, <2>10, <2>14
      <4>2. PICK c : c = <<":">> OBVIOUS
      <4>3. host \o (c \o (digits \o junk)) = host \o (c \o digits) \o junk
        BY <4>1, <4>2, Regroup
      <4>4. QED BY <4>2, <4>3, Zenon
    <3>3. QED BY <1>6, <2>12, <3>1, <3>2, Zenon
  <2>17. ~Has(host, ":") /\ ~Has(host, "/")
    <3>1. ASSUME NEW i \in 1..Len(host) PROVE host[i] # ":" /\ host[i] # "/"
      <4>1. i \in 1..(colon - 1) /\ i \in 1..Len(hp) BY <1>6, <1>8, <1>15, <2>4
      <4>2. QED BY <1>6, <1>8, <2>4, <4>1
    <3>2. QED BY <3>1
  <2>18. QED BY <1>6, <2>3, <2>13, <2>15, <2>16, <2>17
<1>16. QED BY <1>14, <1>15

(* For a base_url of any length: the host, port and path that parse_base_url
   returns true for are the pieces of it (but for what follows the port's digits),
   the host has no ':' or '/', the path is empty or begins at the first '/'. *)
THEOREM UrlsParsed == Spec => []ParseRoundTrip
<1>1. ChatInv => base_url \in Urls BY DEF ChatInv, TypeOK
<1>2. ChatInv => ParseRoundTrip BY <1>1, ParsedUrl
<1>3. QED BY <1>2, ChatInvariant, PTL
==============================================================================
