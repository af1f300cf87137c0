------------------------------- MODULE LlmChat -------------------------------
(***************************************************************************)
(* DeepSeekEngine of src/wheel/llm: chat() hands one HTTPS request to the  *)
(* thread pool and calls on_result or on_error from the loop.  The         *)
(* scheduler is Executor, which UvScheduler implements; each chat() is one *)
(* of its blocking jobs, and `on' is also started_.                        *)
(*                                                                         *)
(* The loop is libuv's default one: once the engine is deleted, the step() *)
(* of another module still turns it.  As the programs in tests/ do, the    *)
(* application deletes an engine after a run() that came back; it may call *)
(* stop() inside a callback.                                               *)
(***************************************************************************)
EXTENDS Executor, SequencesExt

CONSTANTS
  MaxUrl,   \* bound on the length of a base_url, its scheme not counted
  AppMay    \* {"early_delete"}: deleting an engine with chats under way

ASSUME LlmBounds == MaxUrl \in Nat /\ AppMay \subseteq {"early_delete"}

-----------------------------------------------------------------------------
(* base_url: its scheme, and the rest as letters, digits, ':' and '/'. *)
Chars == {"h", "8", ":", "/"}
Urls == [scheme : {"https", "http", "other"}, rest : BoundedSeq(Chars, MaxUrl)]

Find(s, c) == SelectInSeq(s, LAMBDA x : x = c)
From(s, i) == SubSeq(s, i, Len(s))

(* std::stoi: the digits s begins with; it throws when there are none. *)
Stoi(s) == LET i == SelectInSeq(s, LAMBDA x : x # "8")
           IN SubSeq(s, 1, IF i = 0 THEN Len(s) ELSE i - 1)

(* Mutant of parse_base_url: the colon is searched for in the whole URL. *)
parse_base_url_AnyColon(url) ==
  LET slash    == Find(url.rest, "/")
      path     == IF slash = 0 THEN <<>> ELSE From(url.rest, slash)
      colon    == Find(url.rest, ":")
      portStr  == From(url.rest, colon + 1)
      host     == IF colon = 0 THEN SubSeq(url.rest, 1, Len(url.rest) - Len(path))
                  ELSE SubSeq(url.rest, 1, colon - 1)
      ret(t, p) == [tag |-> t, host |-> host, port |-> p, path |-> path]
  IN IF url.scheme = "other" THEN ret("false", <<>>)
     ELSE IF colon = 0 THEN ret("true", <<url.scheme>>)
     ELSE IF Stoi(portStr) = <<>> THEN ret("throw", <<>>)
     ELSE ret("true", Stoi(portStr))

(* The default port of a scheme is written <<scheme>>. *)
parse_base_url(url) ==
  LET slash    == Find(url.rest, "/")
      hostPort == IF slash = 0 THEN url.rest ELSE SubSeq(url.rest, 1, slash - 1)
      path     == IF slash = 0 THEN <<>> ELSE From(url.rest, slash)
      colon    == Find(hostPort, ":")
      host     == IF colon = 0 THEN hostPort ELSE SubSeq(hostPort, 1, colon - 1)
      portStr  == From(hostPort, colon + 1)
      ret(t, p) == [tag |-> t, host |-> host, port |-> p, path |-> path]
  IN IF url.scheme = "other" THEN ret("false", <<>>)
     ELSE IF colon = 0 THEN ret("true", <<url.scheme>>)
     ELSE IF Stoi(portStr) = <<>> THEN ret("throw", <<>>)
     ELSE ret("true", Stoi(portStr))

-----------------------------------------------------------------------------
VARIABLES
  base_url,  \* config_.base_url
  phase,     \* where each chat() is: "none", "asked", "thrown"
  response,  \* what the server's side of the request came to
  ok,        \* ctx->ok
  answers,   \* the callbacks each chat() has had
  turn,      \* "none", or which of step() and run() is turning the loop
  inCb,      \* the main thread is in a callback
  quiet,     \* run() has come back since the last chat()
  gone       \* the engine has been deleted

llmVars == <<base_url, phase, response, ok, answers, turn, inCb, quiet, gone>>
vars == <<execVars, llmVars>>

Responses == {"200", "200_not_json", "status", "failed", "exception"}

(* Every variable has its type. *)
TypeOK ==
  /\ ExecTypeOK
  /\ base_url \in Urls
  /\ phase \in [Works -> {"none", "asked", "thrown"}]
  /\ response \in [Works -> Responses \cup {"none"}]
  /\ ok \in [Works -> BOOLEAN]
  /\ answers \in [Works -> Seq({"result", "error"})]
  /\ turn \in {"none", "step", "run"}
  /\ inCb \in BOOLEAN /\ quiet \in BOOLEAN /\ gone \in BOOLEAN

Init ==
  /\ ExecInit
  /\ base_url \in Urls
  /\ phase = [w \in Works |-> "none"] /\ response = [w \in Works |-> "none"]
  /\ ok = [w \in Works |-> FALSE] /\ answers = [w \in Works |-> <<>>]
  /\ turn = "none" /\ inCb = FALSE /\ quiet = TRUE /\ gone = FALSE

AppRuns == ~gone /\ (turn = "none" \/ inCb)

start == AppRuns /\ ExecStart /\ UNCHANGED llmVars

(* The lambda given to run_blocking() as on_done. *)
Answered(S) == [w \in Works |-> IF w \in S
                                THEN Append(answers[w], IF ok[w] THEN "result" ELSE "error")
                                ELSE answers[w]]

(* chat() on any engine, started or not.  An invalid base_url is reported from
   within chat(); std::stoi's exception leaves chat() and calls nothing. *)
chat(w) ==
  /\ AppRuns
  /\ phase[w] = "none"
  /\ LET tag == parse_base_url(base_url).tag
     IN /\ phase' = [phase EXCEPT ![w] = IF tag = "throw" THEN "thrown" ELSE "asked"]
        /\ answers' = IF tag = "false" THEN [answers EXCEPT ![w] = Append(@, "error")]
                      ELSE answers
        /\ IF tag = "true" THEN Submit(w) ELSE UNCHANGED execVars
        /\ quiet' = (quiet /\ tag # "true")
  /\ UNCHANGED <<base_url, response, ok, turn, inCb, gone>>

WorkBegin(w) == Begin(w) /\ UNCHANGED llmVars

(* Mutant of WorkEnd: ok is set before the body is parsed, and the handler of
   the exception leaves it. *)
WorkEnd_OkFirst(w, r) ==
  /\ Finish(w)
  /\ response' = [response EXCEPT ![w] = r]
  /\ ok' = [ok EXCEPT ![w] = r \in {"200", "200_not_json"}]
  /\ UNCHANGED <<base_url, phase, answers, turn, inCb, quiet, gone>>

(* The request in the pool: a status other than 200, a failed connection or
   timeout, a body that does not parse and any other exception give an error. *)
WorkEnd(w, r) ==
  /\ Finish(w)
  /\ response' = [response EXCEPT ![w] = r]
  /\ ok' = [ok EXCEPT ![w] = (r = "200")]
  /\ UNCHANGED <<base_url, phase, answers, turn, inCb, quiet, gone>>

(* step() and run(), of this engine or of another module on the same loop. *)
Turn(how) ==
  /\ turn = "none"
  /\ turn' = how
  /\ UNCHANGED <<execVars, base_url, phase, response, ok, answers, inCb, quiet, gone>>

(* Mutant of OnDoneCall: a stopped engine calls nobody. *)
OnDoneCall_Started(w) ==
  /\ turn # "none" /\ ~inCb
  /\ OnDone(w)
  /\ answers' = IF on THEN Answered({w}) ELSE answers
  /\ inCb' = TRUE
  /\ UNCHANGED <<base_url, phase, response, ok, turn, quiet, gone>>

OnDoneCall(w) ==
  /\ turn # "none" /\ ~inCb
  /\ OnDone(w)
  /\ answers' = Answered({w})
  /\ inCb' = TRUE
  /\ UNCHANGED <<base_url, phase, response, ok, turn, quiet, gone>>

CbReturn ==
  /\ inCb
  /\ inCb' = FALSE
  /\ UNCHANGED <<execVars, base_url, phase, response, ok, answers, turn, quiet, gone>>

StepReturn ==
  /\ turn = "step" /\ ~inCb
  /\ turn' = "none"
  /\ UNCHANGED <<execVars, base_url, phase, response, ok, answers, inCb, quiet, gone>>

(* Mutant of RunReturn: requests do not keep the loop alive. *)
RunReturn_NoReqs ==
  /\ turn = "run" /\ ~inCb
  /\ ~on
  /\ turn' = "none"
  /\ quiet' = TRUE
  /\ UNCHANGED <<execVars, base_url, phase, response, ok, answers, inCb, gone>>

(* run() comes back when the loop has neither a handle nor a request. *)
RunReturn ==
  /\ turn = "run" /\ ~inCb
  /\ ~on /\ \A w \in Works : job[w] = "none"
  /\ turn' = "none"
  /\ quiet' = TRUE
  /\ UNCHANGED <<execVars, base_url, phase, response, ok, answers, inCb, gone>>

(* stop(), whose step() calls on_done of the finished requests it finds. *)
StopEffect(S) ==
  /\ \A w \in S : job[w] = "finished"
  /\ on' = FALSE
  /\ due' = called
  /\ job' = [w \in Works |-> IF w \in S THEN "none" ELSE job[w]]
  /\ answers' = Answered(S)
  /\ UNCHANGED <<posted, called>>

stop(S) ==
  /\ AppRuns /\ on
  /\ StopEffect(S)
  /\ UNCHANGED <<base_url, phase, response, ok, turn, inCb, quiet, gone>>

destroy(S) ==
  /\ ~gone /\ turn = "none"
  /\ quiet \/ "early_delete" \in AppMay
  /\ IF on THEN StopEffect(S) ELSE S = {} /\ UNCHANGED <<execVars, answers>>
  /\ gone' = TRUE
  /\ UNCHANGED <<base_url, phase, response, ok, turn, inCb, quiet>>

Pool(w) == WorkBegin(w) \/ \E r \in Responses : WorkEnd(w, r)

Loop == (\E w \in Works : OnDoneCall(w)) \/ CbReturn \/ StepReturn \/ RunReturn

Next ==
  \/ start \/ (\E w \in Works : chat(w))
  \/ \E how \in {"step", "run"} : Turn(how)
  \/ \E S \in SUBSET Works : stop(S) \/ destroy(S)
  \/ Loop \/ \E w \in Works : Pool(w)

Spec == Init /\ [][Next]_vars

(* The program keeps turning the default loop, its callbacks return, on_done is
   called in each turn that finds it due, and a request ends: the client sets
   its timeouts. *)
Fairness ==
  /\ WF_vars(Turn("step") \/ Turn("run"))
  /\ WF_vars(CbReturn) /\ WF_vars(StepReturn) /\ WF_vars(RunReturn)
  /\ \A w \in Works : SF_vars(OnDoneCall(w)) /\ WF_vars(Pool(w))

FairSpec == Spec /\ Fairness

-----------------------------------------------------------------------------
(* No chat() calls its callbacks twice, however stop(), the turns of the loop
   and other chats interleave, and on_result is called only with the parsed body
   of a response with status 200. *)
AnsweredOnceTruly ==
  \A w \in Works :
    /\ Len(answers[w]) <= 1
    /\ answers[w] = <<"result">> => response[w] = "200"

(* What makes AnsweredOnceTruly inductive: a chat() whose job is under way was
   asked and has had no answer, and ok is set by a response with status 200. *)
OneAnswerEach ==
  \A w \in Works :
    /\ job[w] # "none" => phase[w] = "asked" /\ answers[w] = <<>>
    /\ phase[w] = "none" => answers[w] = <<>>
    /\ answers[w] \in {<<>>, <<"result">>, <<"error">>}
    /\ ok[w] => response[w] = "200"

ChatInv == TypeOK /\ OneAnswerEach /\ AnsweredOnceTruly

(* For an application that deletes the engine after a run() only: no job is left
   when run() has come back, and none in a deleted engine. *)
IdleWhenDeleted ==
  /\ gone => quiet
  /\ quiet => \A w \in Works : job[w] = "none"

(* Once run() has come back and the engine is deleted nothing of it is called
   any more, although its loop goes on turning. *)
NothingAfterDelete == [][gone => answers' = answers]_vars

(* parse_base_url takes a URL apart and loses nothing: host, port and path, put
   together again, are the URL it was given (but for what follows the digits of
   the port), the host has no ':' or '/' and the path begins at the first '/'. *)
ParseRoundTrip ==
  LET p == parse_base_url(base_url)
      sep == IF p.port = <<base_url.scheme>> THEN <<>> ELSE <<":">> \o p.port
      Has(s, c) == \E i \in 1..Len(s) : s[i] = c
  IN p.tag = "true" =>
       /\ \E junk \in {<<>>} \cup (IF sep = <<>> THEN {} ELSE BoundedSeq(Chars \ {"/"}, MaxUrl)) :
            base_url.rest = p.host \o sep \o junk \o p.path
       /\ ~Has(p.host, ":") /\ ~Has(p.host, "/")
       /\ p.path = <<>> \/ p.path[1] = "/"

(* Every chat() that did not throw is answered, also when the engine is stopped
   or deleted meanwhile. *)
ChatAnswered == \A w \in Works : (phase[w] = "asked") ~> (answers[w] # <<>>)
=============================================================================
