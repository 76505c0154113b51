----------------------------- MODULE BoardBench -----------------------------
(***************************************************************************)
(* The two-board benchmark (host/board_bench.py): scenarios one after      *)
(* another, each a script of console commands, waits and speech through    *)
(* the webvoice server, with a verdict for each.  A pump thread per board  *)
(* owns its console: it runs the commands handed to it and takes what      *)
(* arrives.  What was submitted travels on when nobody waits for it any    *)
(* more.  Payloads are names; measurements and reports are left out.       *)
(***************************************************************************)
EXTENDS Integers, Sequences, SequencesExt, FiniteSets

CONSTANTS
  Plans,         \* --scenarios: sequences of names to try
  NMsgs, NBulk,  \* --n-msgs, --n-bulk
  MaxTrouble     \* bound: commands not run in time, pumps that die, boards
                 \* that do not answer, what is lost on the air, talks failed

BenchAssumption == {NMsgs, NBulk, MaxTrouble} \subseteq Nat

Boards == {"A", "B"}
other(n) == IF n = "A" THEN "B" ELSE "A"

VARIABLES
  names, at,     \* the plan, and the scenario in hand
  phase,         \* attach, pick, begin, run, aborted, done
  script,        \* what is left of the scenario
  failing,       \* an exception is on its way through a finally
  attached,      \* boards with a console and a pump
  jobs,          \* commands a pump has been handed
  calling,       \* the script waits for its command
  fault,         \* boards whose pump died
  got,           \* what a console recorded
  mark,          \* k0: how much it had recorded
  pending,       \* consoles with a file under way
  transit,       \* submitted and not arrived
  server,        \* the webvoice server: none, ours, external
  holds,         \* it holds the boards
  final_detach,
  results,       \* names and verdicts
  trouble,
  own, credited, last_id,   \* history: submissions of the scenario in hand,
                 \* those its waits were satisfied by, the last number
  contended      \* history: the bench opened boards the server held

consoles == <<attached, jobs, calling, fault, got, pending>>
voice == <<server, holds, final_detach>>
history == <<own, credited, last_id, contended>>
bench == <<names, at, phase, script, failing, mark, results>>
vars == <<bench, consoles, transit, voice, trouble, history>>

-----------------------------------------------------------------------------
(* The operations of a script. *)
Cmd(src, kind, what) == [op |-> "cmd", src |-> src, kind |-> kind, what |-> what]
Await(dst, kind, what, must) ==
  [op |-> "await", dst |-> dst, kind |-> kind, what |-> what, must |-> must]
(* Since a mark: whatever ends is taken, and compared when exact is set.   *)
Ended(dst, kind, what, exact) ==
  [op |-> "ended", dst |-> dst, kind |-> kind, what |-> what, exact |-> exact]
Mark(dst) == [op |-> "mark", dst |-> dst]
Clear(dst) == [op |-> "clear", dst |-> dst]
Quiesce == [op |-> "quiesce"]
Talk(src) == [op |-> "talk", src |-> src]
Op(name) == [op |-> name]

BothWays(Steps(_)) == Steps("A") \o Steps("B")
Repeat(n, steps(_)) == FlattenSeq([i \in 1 .. n |-> steps(i)])

send_and_wait(src, text) ==
  <<Cmd(src, "text", text), Await(other(src), "text", text, TRUE)>>
Attach == <<>>
(* The handshake that a primer is followed by need not come.               *)
Warmup ==
  LET Steps(src) == <<Cmd(src, "text", <<"primer">>),
                      Await(other(src), "text", <<"primer">>, TRUE), Quiesce,
                      Clear(other(src))>>
  IN BothWays(Steps)
Message ==
  LET Steps(src) ==
        Repeat(NMsgs, LAMBDA i: send_and_wait(src, <<"msg", src, i>>)
                                  \o <<Quiesce>>)
  IN BothWays(Steps)
Chat ==
  LET Texts(n) == Repeat(NMsgs, LAMBDA i: <<<<"chat", n, i>>>>)
      Sends == Repeat(NMsgs, LAMBDA i: <<Cmd("A", "text", Texts("A")[i]),
                                         Cmd("B", "text", Texts("B")[i])>>)
      Arrives(n) == [i \in 1 .. NMsgs |-> Await(other(n), "text", Texts(n)[i],
                                                TRUE)]
  IN Sends \o BothWays(Arrives) \o <<Quiesce>>
(* Each pattern is looked for among what arrived since it was submitted.   *)
(* Mutant: among everything. *)
BulkSinceEver ==
  LET Steps(src) ==
        Repeat(NBulk, LAMBDA i: <<Cmd(src, "text", <<"pattern">>),
                                  Await(other(src), "text", <<"pattern">>, TRUE),
                                  Quiesce>>)
  IN BothWays(Steps)
Bulk ==
  LET Steps(src) ==
        Repeat(NBulk, LAMBDA i: <<Mark(other(src)), Cmd(src, "text", <<"pattern">>),
                                  Await(other(src), "since", <<"pattern">>, TRUE),
                                  Quiesce>>)
  IN BothWays(Steps)

sendfile_and_wait(src, file) ==
  <<Mark(other(src)), Cmd(src, "file", file),
    Ended(other(src), "file", file, TRUE)>>
File ==
  LET Steps(src) == sendfile_and_wait(src, <<"f", src>>) \o <<Quiesce>>
  IN BothWays(Steps)
FileBidir ==
  <<Mark("A"), Mark("B"), Cmd("A", "file", <<"x", "A">>),
    Cmd("B", "file", <<"x", "B">>), Ended("A", "file", <<"x", "B">>, TRUE),
    Ended("B", "file", <<"x", "A">>, TRUE), Quiesce>>
FileChat ==
  LET Steps(src) ==
        <<Mark(other(src)), Cmd(src, "file", <<"c", src>>),
          Cmd(other(src), "text", <<"during", src>>),
          Ended(other(src), "file", <<"c", src>>, TRUE),
          Await(src, "text", <<"during", src>>, TRUE), Quiesce>>
  IN BothWays(Steps)

bcast_and_wait(src, what, exact) ==
  <<Mark(other(src)), Cmd(src, "bcast", what),
    Ended(other(src), "bcast", what, exact)>>
Bcast ==
  LET Steps(src) == bcast_and_wait(src, <<"b", src>>, TRUE) \o <<Quiesce>>
  IN BothWays(Steps)
BcastFile ==
  LET Steps(src) == bcast_and_wait(src, <<"bc", src>>, FALSE) \o <<Quiesce>>
  IN BothWays(Steps)
BcastMsg ==
  LET Steps(src) ==
        <<Mark(other(src)), Cmd(src, "bcast", <<"bm", src>>),
          Cmd(other(src), "text", <<"reply", src>>),
          Ended(other(src), "bcast", <<"bm", src>>, FALSE),
          Await(src, "text", <<"reply", src>>, TRUE), Quiesce>>
  IN BothWays(Steps)
Speech == <<Op("detach"), Op("up"), Talk("A"), Talk("B"), Op("release")>>
SpeechFile == sendfile_and_wait("A", <<"sf", "A">>) \o <<Quiesce>>
Stale == send_and_wait("A", <<"after-idle", "A">>) \o <<Quiesce>>

SCENARIOS ==
  [attach |-> Attach, warmup |-> Warmup, message |-> Message, chat |-> Chat,
   bulk |-> Bulk, file |-> File, file_bidir |-> FileBidir,
   file_chat |-> FileChat, bcast |-> Bcast, bcastfile |-> BcastFile,
   bcast_msg |-> BcastMsg, speech |-> Speech, speech_file |-> SpeechFile,
   stale |-> Stale]

-----------------------------------------------------------------------------
(* With an external server speech comes last, and nothing needs the boards *)
(* after it.                                                               *)
IsSpeech(n) == n \in {"speech", "speech_file"}
Ordered(plan, external) ==
  IF external
  THEN SelectSeq(plan, LAMBDA n: ~IsSpeech(n))
         \o SelectSeq(plan, LAMBDA n: n = "speech")
  ELSE plan

Init ==
  /\ \E plan \in Plans, external \in BOOLEAN:
       /\ names = Ordered(plan, external)
       /\ server = IF external THEN "external" ELSE "none"
  /\ at = 0 /\ phase = "attach" /\ script = <<>> /\ failing = FALSE
  /\ attached = {} /\ jobs = [n \in Boards |-> <<>>] /\ calling = FALSE
  /\ fault = {} /\ got = [n \in Boards |-> <<>>]
  /\ mark = [n \in Boards |-> 0] /\ pending = {} /\ transit = {}
  /\ holds = FALSE /\ final_detach = FALSE /\ results = <<>> /\ trouble = 0
  /\ own = {} /\ credited = <<>> /\ last_id = 0 /\ contended = FALSE

Troubled == trouble < MaxTrouble /\ trouble' = trouble + 1

(* What is on the air: a message of the station arrives at the console of  *)
(* the other board, if there is one, or is lost; a broadcast may come in   *)
(* parts.                                                                  *)
Arrives ==
  \E x \in transit:
    LET dst == other(x.src)
    IN /\ transit' = transit \ {x}
       /\ \/ /\ got' = IF dst \in attached \ fault
                       THEN [got EXCEPT ![dst] = Append(@, x)] ELSE got
             /\ UNCHANGED trouble
          \/ /\ x.kind = "bcast" /\ Troubled
             /\ got' = IF dst \in attached \ fault
                       THEN [got EXCEPT ![dst] =
                               Append(@, [x EXCEPT !.what = <<"part">>])] ELSE got
          \/ Troubled /\ UNCHANGED got
       /\ pending' = IF x.kind = "file" THEN pending \ {x.src} ELSE pending
       /\ UNCHANGED <<bench, attached, jobs, calling, fault, voice, history>>

(* Pump: a command of the script is run on the thread of its board; a      *)
(* second file is refused while one is under way.                          *)
RunsJob(n) ==
  /\ n \in attached \ fault /\ jobs[n] # <<>>
  /\ LET j == Head(jobs[n])
     IN /\ jobs' = [jobs EXCEPT ![n] = Tail(@)]
        /\ IF j.kind = "file" /\ n \in pending
           THEN UNCHANGED <<transit, pending>>
           ELSE /\ transit' = transit \cup {j}
                /\ pending' = IF j.kind = "file" THEN pending \cup {n}
                              ELSE pending
  /\ UNCHANGED <<bench, attached, calling, fault, got, voice, trouble, history>>
PumpDies(n) ==
  /\ n \in attached \ fault
  /\ Troubled
  /\ fault' = fault \cup {n}
  /\ UNCHANGED <<bench, attached, jobs, calling, got, pending, transit, voice,
                 history>>

-----------------------------------------------------------------------------
(* Stand.attach: board after board, so that the first may be open when the *)
(* second has not answered in the tries there are.  A console begins with  *)
(* nothing recorded.                                                       *)
Opens(set, taken) ==
  /\ attached' = set
  /\ jobs' = [n \in Boards |-> <<>>]
  /\ fault' = {}
  /\ got' = [n \in Boards |-> <<>>]
  /\ pending' = {}
  /\ contended' = (contended \/ taken)
AttachOk == ~holds /\ Opens(Boards, FALSE) /\ UNCHANGED trouble
AttachFails ==
  /\ \E set \in {{}, {"A"}}: Opens(set, holds) /\ (holds => set = {})
  /\ IF holds THEN UNCHANGED trouble ELSE Troubled

(* The first attach is outside the loop: it ends the run.                  *)
FirstAttach ==
  /\ phase = "attach"
  /\ \/ AttachOk /\ phase' = "pick"
     \/ AttachFails /\ phase' = "aborted"
  /\ UNCHANGED <<names, at, script, failing, mark, results, calling, transit,
                 voice, own, credited, last_id>>

(* The loop over the scenarios; those that would need boards an external   *)
(* server keeps are skipped.                                               *)
Verdict(ok) == results' = Append(results, [name |-> names[at], ok |-> ok])
Picks ==
  /\ phase = "pick"
  /\ IF at = Len(names)
     THEN phase' = "done" /\ UNCHANGED <<at, results>>
     ELSE /\ at' = at + 1
          /\ IF final_detach
             THEN /\ results' = Append(results, [name |-> names[at + 1],
                                                 ok |-> FALSE])
                  /\ UNCHANGED phase
             ELSE phase' = "begin" /\ UNCHANGED results
  /\ own' = {} /\ credited' = <<>>
  /\ UNCHANGED <<names, script, failing, mark, consoles, transit, voice,
                 trouble, last_id, contended>>

Begins ==
  /\ phase = "begin"
  /\ script' = SCENARIOS[names[at]]
  /\ mark' = [n \in Boards |-> 0]
  /\ \/ /\ attached = {} /\ AttachFails
        /\ phase' = "pick" /\ Verdict(FALSE)
     \/ /\ IF attached = {} THEN AttachOk
           ELSE UNCHANGED <<attached, jobs, fault, got, pending, contended,
                            trouble>>
        /\ phase' = "run" /\ UNCHANGED results
  /\ UNCHANGED <<names, at, failing, calling, transit, voice, own, credited,
                 last_id>>

(* A scenario that raises is recorded as failed, after what it has to do   *)
(* in any case; one whose script is at its end is recorded as it stands.   *)
Raises ==
  LET i == SelectInSeq(script, LAMBDA s: s.op = "release")
  IN /\ calling' = FALSE
     /\ IF i > 1
        THEN /\ script' = SubSeq(script, i, Len(script))
             /\ failing' = TRUE
             /\ UNCHANGED <<phase, results>>
        ELSE /\ Verdict(FALSE)
             /\ phase' = "pick" /\ script' = <<>> /\ failing' = FALSE
Goes == script' = Tail(script) /\ UNCHANGED <<phase, results, failing>>
Ends ==
  /\ phase = "run" /\ script = <<>>
  /\ Verdict(~failing)
  /\ phase' = "pick" /\ failing' = FALSE
  /\ UNCHANGED <<names, at, script, mark, consoles, transit, voice, trouble,
                 history>>

Now(op) == phase = "run" /\ script # <<>> /\ Head(script).op = op
Same == UNCHANGED <<names, at>>

(* Pump.call: the command is queued for the pump, and waited for; after    *)
(* ten seconds the script goes on, and the command stays queued.           *)
Calls ==
  /\ Now("cmd") /\ ~calling
  /\ LET c == Head(script)
     IN IF c.src \notin attached
        THEN Raises /\ UNCHANGED <<jobs, own, last_id>>
        ELSE /\ jobs' = [jobs EXCEPT ![c.src] =
                           Append(@, [src |-> c.src, kind |-> c.kind,
                                      what |-> c.what, id |-> last_id + 1])]
             /\ own' = own \cup {last_id + 1}
             /\ last_id' = last_id + 1
             /\ calling' = TRUE
             /\ UNCHANGED <<script, phase, results, failing>>
  /\ Same
  /\ UNCHANGED <<mark, attached, fault, got, pending, transit, voice, trouble,
                 credited, contended>>
Called ==
  /\ Now("cmd") /\ calling
  /\ \/ jobs[Head(script).src] = <<>> /\ UNCHANGED trouble
     \/ Head(script).src \in fault /\ UNCHANGED trouble
     \/ jobs[Head(script).src] # <<>> /\ Troubled
  /\ Goes /\ calling' = FALSE
  /\ Same
  /\ UNCHANGED <<mark, attached, jobs, fault, got, pending, transit, voice,
                 history>>

Marks ==
  /\ Now("mark")
  /\ IF Head(script).dst \in attached
     THEN Goes /\ mark' = [mark EXCEPT ![Head(script).dst] =
                              Len(got[Head(script).dst])]
               /\ UNCHANGED calling
     ELSE Raises /\ UNCHANGED mark
  /\ Same
  /\ UNCHANGED <<attached, jobs, fault, got, pending, transit, voice, trouble,
                 history>>

Clears ==
  /\ Now("clear")
  /\ LET dst == Head(script).dst
     IN IF dst \in attached
        THEN /\ Goes /\ UNCHANGED calling
             /\ got' = [got EXCEPT ![dst] = SelectSeq(@, LAMBDA x: x.kind # "text")]
        ELSE Raises /\ UNCHANGED got
  /\ Same
  /\ UNCHANGED <<mark, attached, jobs, fault, pending, transit, voice, trouble,
                 history>>

(* quiesce: nobody looks at what it returns.                               *)
Quiesces ==
  /\ Now("quiesce")
  /\ Goes
  /\ Same /\ UNCHANGED <<mark, consoles, transit, voice, trouble, history>>

(* Stand.wait on the records of a console; what satisfies it is credited.  *)
Heard(w) ==
  LET all == got[w.dst]
      new == SubSeq(all, mark[w.dst] + 1, Len(all))
      Is(x) == x.what = w.what
  IN CASE w.op = "await" /\ w.kind = "text" -> SelectSeq(all, Is)
       [] w.op = "await" /\ w.kind = "since" -> SelectSeq(new, Is)
       [] OTHER -> SelectSeq(new, LAMBDA x: x.kind = w.kind)
Waits ==
  /\ Now("await") \/ Now("ended")
  /\ LET w == Head(script)
     IN IF w.dst \notin attached THEN Raises /\ UNCHANGED credited
        ELSE /\ Heard(w) # <<>>
             /\ LET x == IF w.op = "await" THEN Head(Heard(w)) ELSE Last(Heard(w))
                IN IF w.op = "ended" /\ w.exact /\ x.what # w.what
                   THEN Raises /\ UNCHANGED credited
                   ELSE /\ Goes /\ UNCHANGED calling
                        /\ credited' = IF w.op = "ended" /\ ~w.exact
                                       THEN credited ELSE Append(credited, x.id)
  /\ Same
  /\ UNCHANGED <<mark, attached, jobs, fault, got, pending, transit, voice,
                 trouble, own, last_id, contended>>
(* It does not come in time, or a pump has died.  Mutant: only that.       *)
GivesUpOnFault == fault # {}
GivesUp == TRUE
TimesOut ==
  /\ Now("await") \/ Now("ended")
  /\ Head(script).dst \in attached /\ Heard(Head(script)) = <<>>
  /\ GivesUp
  /\ IF Head(script).op = "ended" \/ Head(script).must \/ fault # {}
     THEN Raises ELSE Goes /\ UNCHANGED calling
  /\ Same
  /\ UNCHANGED <<mark, attached, jobs, fault, got, pending, transit, voice,
                 trouble, history>>

-----------------------------------------------------------------------------
(* Speech: the boards are let go, the server is there or is started, each  *)
(* end talks; a server of ours is stopped and the boards are opened again, *)
(* an external one keeps them.                                             *)
Detaches ==
  /\ attached' = {} /\ jobs' = [n \in Boards |-> <<>>] /\ fault' = {}
  /\ got' = [n \in Boards |-> <<>>] /\ pending' = {}
Detach ==
  /\ Now("detach")
  /\ Detaches /\ Goes
  /\ Same /\ UNCHANGED <<mark, calling, transit, voice, trouble, history>>
ServerUp ==
  /\ Now("up")
  /\ \/ /\ server' = (IF server = "none" THEN "ours" ELSE server)
        /\ Goes /\ UNCHANGED <<calling, trouble>>
     \/ Troubled /\ Raises /\ UNCHANGED server
  /\ Same
  /\ UNCHANGED <<mark, attached, jobs, fault, got, pending, transit, holds,
                 final_detach, history>>
(* A talk that fails is noted, one that raises ends the scenario; once a   *)
(* pair is selected the server has the boards.                             *)
Talks ==
  /\ Now("talk")
  /\ holds' = TRUE
  /\ \/ Goes /\ UNCHANGED <<calling, trouble>>
     \/ Troubled /\ script' = Tail(script) /\ failing' = TRUE
          /\ UNCHANGED <<phase, results, calling>>
     \/ Troubled /\ Raises
  /\ Same
  /\ UNCHANGED <<mark, attached, jobs, fault, got, pending, transit, server,
                 final_detach, history>>
Release ==
  /\ Now("release")
  /\ script' = Tail(script)
  /\ IF server = "ours"
     THEN /\ server' = "none" /\ holds' = FALSE
          /\ UNCHANGED final_detach
          /\ \/ Opens(Boards, FALSE) /\ UNCHANGED trouble
             \/ Troubled /\ \E set \in {{}, {"A"}}: Opens(set, FALSE)
     ELSE /\ final_detach' = TRUE
          /\ UNCHANGED <<server, holds, attached, jobs, fault, got, pending,
                         trouble, contended>>
  /\ Same
  /\ UNCHANGED <<phase, failing, mark, results, calling, transit, own, credited,
                 last_id>>

(* At the end of the run the boards are let go and our server is stopped.  *)
Leaves ==
  /\ phase = "done" /\ (attached # {} \/ server = "ours")
  /\ Detaches
  /\ server' = IF server = "ours" THEN "none" ELSE server
  /\ holds' = (holds /\ server = "external")
  /\ UNCHANGED <<bench, calling, transit, final_detach, trouble, history>>

Script == \/ FirstAttach \/ Picks \/ Begins \/ Ends \/ Calls \/ Called \/ Marks
          \/ Clears \/ Quiesces \/ Waits \/ TimesOut \/ Detach \/ ServerUp \/ Talks
          \/ Release \/ Leaves
Next == \/ Script \/ Arrives
        \/ \E n \in Boards: RunsJob(n) \/ PumpDies(n)
Spec == Init /\ [][Next]_vars
(* The bench goes on, its waits are bounded, and live pumps run commands.  *)
FairSpec == /\ Spec /\ WF_vars(Script)
            /\ \A n \in Boards: WF_vars(RunsJob(n))
-----------------------------------------------------------------------------
(* What satisfies a wait is what the scenario submitted for it, never      *)
(* something late of an earlier one nor an earlier repetition, where it    *)
(* compares what arrived (sc_bulk, sendfile_and_wait, send_and_wait); and  *)
(* the bench never opens a board that the voice server has taken on        *)
(* its behalf (sc_speech, main).                                           *)
OkIsOwn ==
  ToSet(credited) \subseteq own /\ IsInjective(credited) /\ ~contended

(* Whatever fails, every scenario of the plan gets its verdict, unless     *)
(* there was no attaching in the first place, and the boards are let go:   *)
(* "a failure does not stop the run".                                      *)
RunEnds ==
  <>[]( \/ phase = "aborted"
        \/ /\ phase = "done" /\ attached = {} /\ server # "ours"
           /\ Len(results) = Len(names)
           /\ \A i \in DOMAIN names: results[i].name = names[i] )

(* After speech "main re-attaches before the next scenario and reports if  *)
(* that fails too": no scenario is run on one board.                       *)
BothBoards == phase = "run" => attached \in {{}, Boards}
=============================================================================
