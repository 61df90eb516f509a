---------------------------- MODULE PushReceivers ----------------------------
(***************************************************************************)
(* The receivers to which others send (receivers/httpReceiver.go,          *)
(* natsReceiver.go, eecptReceiver.go), prometheusReceiver.go, and the      *)
(* analysis of the eecpt receiver, whose HTTP handler fills the buffers    *)
(* that a ticking goroutine reads.                                         *)
(*                                                                         *)
(* A payload is a sequence of lines.  A line is kept or dropped by the     *)
(* message processor or makes it fail, or it cannot be read (bad, torn).   *)
(***************************************************************************)
EXTENDS Component, Integers, SequencesExt

CONSTANTS
  Reports,       (* what the ranks of a job report                         *)
  BufferLength,  (* analysis_buffer_size                                   *)
  MaxValues      (* bound: the values that a behaviour has                 *)

ASSUME BufferAssumption == BufferLength \in Nat \ {0}   \* NewEECPTReceiver

PushedLine == {"kept", "region", "dropped", "failing", "bad", "torn", "pid"}

(* DecodeInfluxMessage fails on a bad line, which is not the line protocol *)
(* or of which NewMessage makes no message; Next stops at a torn one.      *)
Unreadable == {"bad", "torn"}

(* The lines before the first that ends the loop, and which that is. *)
Upto(lines, ends) ==
  LET n == SelectInSeq(lines, LAMBDA l : l \in ends)
  IN IF n = 0 THEN [lines |-> lines, end |-> "done"]
     ELSE [lines |-> SubSeq(lines, 1, n - 1), end |-> lines[n]]

(* A message that the processor drops is not sent, nor one it fails on.    *)
Sent(lines) == Only(lines, PushedLine \ {"dropped", "failing"})

ServerHttpSkips(r) ==   \* mutant: goes on after a line that is not decoded
  IF r.method # "POST" \/ r.auth = "wrong" \/ ~r.sink THEN [status |-> 401, sent |-> <<>>]
  ELSE [status |-> 200, sent |-> Only(r.lines, {"kept", "region"})]

ServerHttp(r) ==
  LET read == Upto(r.lines, Unreadable) IN
    CASE r.method # "POST" -> [status |-> 405, sent |-> <<>>]
      [] r.method = "POST" /\ r.auth = "wrong" -> [status |-> 401, sent |-> <<>>]
      [] r.method = "POST" /\ r.auth # "wrong" /\ ~r.sink -> [status |-> 200, sent |-> <<>>]
      [] OTHER -> [status |-> IF read.end = "done" THEN 200 ELSE 500,
                   sent |-> Sent(read.lines)]

(* A region metric goes to the analysis after it was sent.  There a field  *)
(* pid, which no decoder makes an int, makes the handler panic.            *)
ServerHttpEECPT(r) ==
  LET read == Upto(r.lines, Unreadable \cup {"pid"}) IN
    IF r.method = "POST" /\ r.auth # "wrong" /\ r.sink /\ read.end = "pid"
    THEN [status |-> 0, sent |-> Append(Sent(read.lines), "pid")]
    ELSE ServerHttp(r)

NatsReceive(r) ==
  IF ~r.sink THEN <<>> ELSE Sent(Upto(r.lines, Unreadable).lines)

(* The page of Prometheus.  A comment is skipped, and a sample whose value *)
(* is not a number: a word, or the NaN that NewMessage refuses.  A sample  *)
(* without value, one whose labels have a space, and an empty line make    *)
(* the program panic after it has sent what is above; when there is no     *)
(* page, log.Fatal ends the program.                                       *)
Sample == {"plain", "labelled", "comment", "word", "NaN", "spaced", "blank", "no value"}
Numeric == {"plain", "labelled"}
Scrape(page) ==
  LET read == Upto(page.samples, {"spaced", "blank", "no value"})
  IN IF ~page.got THEN [sent |-> <<>>, end |-> "fatal"]
     ELSE [sent |-> Only(read.lines, Numeric), end |-> read.end]
-----------------------------------------------------------------------------
(* The constructors.  Texts of durations that cannot be parsed are zero.   *)
Duration(text) == IF text = "5m" THEN 300 ELSE 0
NoReceiver == [error |-> TRUE]
WrongAuth(c) == (c.user = "") # (c.password = "")

NewHttpReceiver(c) ==
  IF c.port = "" \/ WrongAuth(c) \/ c.processor = "bad" THEN NoReceiver
  ELSE [useBasicAuth |-> c.user # "" \/ c.password # "",
        idleTimeout |-> Duration(c.interval)]

(* The length of the buffers is one variable of the package, and set       *)
(* before the message processor is configured.                             *)
NewEECPTReceiver(c, bufferSize) ==
  IF c.port = "" \/ WrongAuth(c) \/ c.bufferLength <= 0
  THEN [receiver |-> NoReceiver, bufferSize |-> bufferSize]
  ELSE [receiver |-> IF c.processor = "bad" THEN NoReceiver
                     ELSE [useBasicAuth |-> c.user # "" \/ c.password # "",
                           analysisInterval |-> Duration(c.interval)],
        bufferSize |-> c.bufferLength]

NewNatsReceiver(c) ==
  IF "" \in {c.addr, c.port, c.subject} \/ c.processor = "bad" THEN "error"
  ELSE IF c.user # "" /\ c.password # "" THEN "user"
  ELSE IF c.nkeyFile = "" THEN "anonymous"
  ELSE IF c.nkeyFile = "missing" THEN "error" ELSE "credentials"

(* A ticker of interval zero makes Start panic. *)
NewPrometheusReceiver(c) ==
  IF "" \in {c.addr, c.port, c.interval} THEN NoReceiver
  ELSE [interval |-> Duration(c.interval), ssl |-> c.ssl]

(* The rank of a message: the tag rank or else the field, then the tag pid;*)
(* -1 when there is none or none that is a number.                         *)
RankOf(m) ==
  LET rank == IF m.rankTag # <<>> THEN m.rankTag[1]
              ELSE IF m.rankField # <<>> THEN m.rankField[1] ELSE -1
  IN IF m.pidTag # <<>> THEN m.pidTag[1] ELSE rank
JobOf(m) == IF m.jobid = "" THEN m.application ELSE m.jobid
-----------------------------------------------------------------------------
(***************************************************************************)
(* The analysis.  tasks has the buffers of the ranks of the one job,       *)
(* adding the value for which the handler has made a task but not yet      *)
(* taken its lock; verdict is that of the goroutine between Analyse and    *)
(* Reset.  reported has all values of a rank and fresh those since the     *)
(* last event: neither is state of the code.                               *)
(***************************************************************************)
NoTask == <<>>
AnalysisInit ==
  st = [kind |-> "analysis", tasks |-> NoTask, adding |-> <<>>, verdict |-> "none",
        reported |-> NoTask, fresh |-> 0, panicked |-> FALSE, event |-> FALSE]

AnalyseTask(buffer) ==   \* a rational number
  LET n == Len(buffer)
      rise == buffer[n - 1] - buffer[1]      \* prev is rise / (n - 2)
      last == buffer[n] - buffer[n - 1]
      dev == last * (n - 2) - rise
  IN IF n < 3 THEN <<0, 1>>
     ELSE IF rise <= 0 THEN <<0, 1>> ELSE <<dev * dev, (n - 2) * rise>>

Analyse(tasks) ==
  FoldSet(LAMBDA rank, sum :
            LET x == AnalyseTask(tasks[rank])
            IN <<sum[1] * x[2] + x[1] * sum[2], sum[2] * x[2]>>,
          <<0, 1>>, DOMAIN tasks)

(* In units of 1/10000, for fewer than 3 and fewer than 5 tasks. *)
ChiSquareLimit(tasks) == IF Cardinality(DOMAIN tasks) < 3 THEN 38145 ELSE 78147

AddValue(buffer, v) ==
  LET longer == Append(buffer, v)
  IN IF Len(longer) > BufferLength THEN Tail(longer) ELSE longer

NewTask ==   \* toAnalysis up to the call of Add
  \E rank \in {0, 1}, v \in Reports :
    /\ Is("analysis") /\ st.adding = <<>> /\ ~st.panicked
    /\ FoldSet(LAMBDA r, n : n + Len(st.reported[r]), 0, DOMAIN st.reported) < MaxValues
    /\ st' = [st EXCEPT !.tasks = AssignNew(@, rank, <<>>),
                        !.reported = AssignNew(@, rank, <<>>),
                        !.adding = <<rank, v>>, !.event = FALSE]

AddToTask ==
  /\ Is("analysis") /\ st.adding # <<>> /\ ~st.panicked
  /\ LET rank == st.adding[1]
         v == st.adding[2]
     IN st' = [st EXCEPT !.tasks[rank] = AddValue(@, v), !.adding = <<>>,
                         !.reported[rank] = Append(@, v), !.fresh = @ + 1,
                         !.event = FALSE]

AnalyseJob ==
  /\ Is("analysis") /\ st.verdict = "none" /\ ~st.panicked
  /\ st' = [st EXCEPT
              !.verdict = LET x == Analyse(st.tasks)
                          IN IF 10000 * x[1] > ChiSquareLimit(st.tasks) * x[2]
                             THEN "changed" ELSE "same",
              !.event = FALSE]

ResetJobKeeps ==   \* mutant: the buffers are not reset
  /\ Is("analysis") /\ st.verdict # "none" /\ ~st.panicked
  /\ st' = [st EXCEPT !.verdict = "none", !.event = (st.verdict = "changed"),
                      !.fresh = IF st.verdict = "changed" THEN 0 ELSE @]

(* After an event every buffer keeps its last value; one that has none     *)
(* yet makes the goroutine, and the program, panic.                        *)
ResetJob ==
  /\ Is("analysis") /\ st.verdict # "none" /\ ~st.panicked
  /\ st' = IF st.verdict = "same"
           THEN [st EXCEPT !.verdict = "none", !.event = FALSE]
           ELSE [st EXCEPT
                   !.verdict = "none", !.event = TRUE, !.fresh = 0,
                   !.panicked = \E r \in DOMAIN st.tasks : st.tasks[r] = <<>>,
                   !.tasks = [r \in DOMAIN @ |->
                                IF @[r] = <<>> THEN <<>> ELSE <<Last(@[r])>>]]
-----------------------------------------------------------------------------
RequestInit ==
  \E lines \in UNION {[1..n -> PushedLine] : n \in 0..3}, sink \in BOOLEAN :
  \E method \in {"POST", "GET"}, auth \in {"none", "right", "wrong"} :
    st = [kind |-> "push", lines |-> lines, sink |-> sink, method |-> method,
          auth |-> auth]
ScrapeInit ==
  \E samples \in UNION {[1..n -> Sample] : n \in 0..3}, got \in BOOLEAN :
    st = [kind |-> "scrape", samples |-> samples, got |-> got]
PushConfigInit ==
  \E user, password \in {"", "x"}, processor \in {"none", "bad"} :
  \E interval \in {"5m", "soon"}, n \in {0, 4}, nkeyFile \in {"", "there", "missing"} :
    st = [kind |-> "pushConfig", port |-> "8080", addr |-> "host", subject |-> "s",
          user |-> user, password |-> password, processor |-> processor, ssl |-> TRUE,
          interval |-> interval, bufferLength |-> n, nkeyFile |-> nkeyFile]
RankInit ==
  \E rankTag, rankField, pidTag \in {<<>>, <<7>>, <<9>>}, jobid \in {"", "j"} :
    st = [kind |-> "rank", rankTag |-> rankTag, rankField |-> rankField,
          pidTag |-> pidTag, jobid |-> jobid, application |-> "app"]

PushInit == RequestInit \/ ScrapeInit \/ PushConfigInit \/ RankInit
-----------------------------------------------------------------------------
(* What a sender is told was accepted has been handed on completely and in *)
(* order, except the messages that the processor drops or fails on, of     *)
(* which the sender hears nothing, and unless there is no sink.  A refused *)
(* request is not refused as a whole: a beginning of it has been handed    *)
(* on, and the sender who leaves out what cannot be read and sends the     *)
(* rest again has that beginning handed on twice.  HTTP, the eecpt         *)
(* receiver and NATS hand on the same of the same lines (ServerHttp,       *)
(* _NatsReceive).                                                          *)
SenderIsToldRight ==
  Is("push") =>
    LET http == ServerHttp(st)
        eecpt == ServerHttpEECPT(st)
        again == ServerHttp([method |-> st.method, auth |-> st.auth, sink |-> st.sink,
                             lines |-> Only(st.lines, PushedLine \ Unreadable)])
    IN /\ http.status = 200 /\ st.sink => http.sent = Sent(st.lines)
       /\ IsPrefix(http.sent, Sent(st.lines))
       /\ http.status = 500 => again.status = 200 /\ IsPrefix(http.sent, again.sent)
       /\ IsPrefix(eecpt.sent, http.sent)
       /\ eecpt.status = 200 => eecpt = http
       /\ http.status \in {200, 500} => NatsReceive(st) = http.sent

(* The numbers of a page are handed on in order, all of them unless the    *)
(* scrape ends the program; then a beginning was (the loop of the          *)
(* Prometheus receiver).                                                   *)
NumbersAreHandedOn ==
  Is("scrape") =>
    LET scraped == Scrape(st) IN
      /\ IsPrefix(scraped.sent, Only(st.samples, Numeric))
      /\ scraped.end = "done" => scraped.sent = Only(st.samples, Numeric)

(* A receiver that asks for credentials has both, the length of the        *)
(* buffers stays positive whatever is refused, and a message that names a  *)
(* rank or a job in any way gets one (the constructors, toAnalysis).       *)
PushedIsUnderstood ==
  /\ Is("pushConfig") =>
       /\ \A new \in {NewHttpReceiver(st), NewEECPTReceiver(st, 4).receiver} :
            new # NoReceiver => (new.useBasicAuth <=> st.user # "" /\ st.password # "")
       /\ NewEECPTReceiver(st, 4).bufferSize > 0
  /\ Is("rank") => (RankOf(st) = -1 <=> st.rankTag = <<>> /\ st.rankField = <<>>
                                         /\ st.pidTag = <<>>)
                   /\ JobOf(st) # ""

(* From the configuration to the sink: what was pushed or scraped is       *)
(* handed on completely, but for the exceptions named above, in order and  *)
(* attributed to somebody.                                                 *)
AcceptedIsHandedOn == SenderIsToldRight /\ NumbersAreHandedOn /\ PushedIsUnderstood

(* The buffer of a rank has its latest values, and no event of a new phase *)
(* follows another before at least two values have come in: one report     *)
(* tells of one change (Analyse, Reset and Add of eecptReceiver.go).       *)
PhasesAreToldOnce ==
  Is("analysis") =>
    /\ \A r \in DOMAIN st.tasks :
         /\ Len(st.tasks[r]) <= BufferLength
         /\ IsSuffix(st.tasks[r], st.reported[r])
    /\ st.verdict = "changed" => st.fresh >= 2
=============================================================================
