---------------------------- MODULE RunLifeProofs ----------------------------
(***************************************************************************)
(* Theorems about RunLife, for any runs and threads, any sizes of the      *)
(* pools and any number of pieces of text.                                 *)
(***************************************************************************)
EXTENDS RunLife, SequenceTheorems, FiniteSetTheorems, TLAPS

USE RunAssumption

Places == {"new"} \cup InTurn \cup Over
Texts == [prose : Nat, marker : BOOLEAN]
Kinds == {"init", "prose", "marker", "result"}
GenStates == {"none", "open", "closing", "releasing", "closed"}
CliStates == {"none", "connecting", "talking", "told", "ended", "failed"}

\* The parts of the types that a step changes.
LEMMA Typed ==
  ASSUME TypeOK
  PROVE  /\ pc \in [Run -> Places] /\ thread \in [Run -> Thread]
         /\ gen \in [Run -> GenStates] /\ cli \in [Run -> CliStates]
         /\ events \in [Run -> Seq(Kinds)]
         /\ size[1] \in Nat /\ size[2] \in Nat
         /\ free \in Seq(1..size[1]) /\ freeMcp \in Seq(1..size[2])
         /\ port \in [Run -> 0..size[1]] /\ mcpPort \in [Run -> 0..size[2]]
         /\ turns \in [Thread -> Nat]
         /\ text \in [Run -> Texts] /\ dirty \in [Run -> BOOLEAN]
         /\ posted \in [Run -> BOOLEAN] /\ shown \in [Run -> Nat]
         /\ refused \in [Run -> 0..2]
  BY DEF TypeOK, Places, Texts, Kinds, GenStates, CliStates

-----------------------------------------------------------------------------
(* The inductive invariant, part by part.                                 *)

Held(r) == pc[r] = "spawning" \/ gen[r] \in {"open", "closing", "releasing"}

\* The generator is there from the start of ssh on, and as long as ssh is.
GenFits(r) ==
  /\ pc[r] \in {"new", "checking", "starting", "virsh start", "virsh resume", "sleeping",
                "registering", "reading", "spawning", "given up", "crashed", "killed"}
       => gen[r] = "none"
  /\ pc[r] = "marking" => gen[r] = "open"
  /\ SshAlive(r) => gen[r] \in {"open", "closing"}

\* A run has its ports from taking them to giving them back.
PortFits(r) ==
  /\ port[r] # 0 <=> Held(r)
  /\ r \in UsesMcp => (mcpPort[r] # 0 <=> Held(r))

\* No port is in two places.
Apart ==
  /\ \A i, j \in 1..Len(free) : free[i] = free[j] => i = j
  /\ FreePorts \cap lost = {}
  /\ \A r \in Run : port[r] # 0 =>
       port[r] \notin FreePorts \cup lost /\ \A s \in Run \ {r} : port[s] # port[r]

\* The token is there from register_run to the finally, and stays when a read raises.
TokenFits(r) ==
  /\ r \in tokens => pc[r] \in {"reading", "spawning", "running", "marking", "raised",
                                "failing", "finishing", "crashed"}
  /\ pc[r] \in {"reading", "spawning", "running", "marking", "raised", "failing",
                "finishing"} => r \in tokens

\* A verb that was chosen fits the domain until another turn brings it up.
VerbFits(r) ==
  r \notin beaten =>
    /\ pc[r] = "virsh start" => vm = "off"
    /\ pc[r] = "virsh resume" => vm = "paused"

\* What is not dirty is shown; once the stream has ended, what is dirty was refused.
ShownFits(r) ==
  /\ pc[r] = "new" => text[r] = Nothing
  /\ ~ dirty[r] /\ Silent(text[r]) => ~ posted[r] \/ refused[r] > 0
  /\ ~ dirty[r] /\ text[r].prose > 0 => posted[r] /\ shown[r] = text[r].prose
  /\ pc[r] = "finishing" \/ (pc[r] = "running" /\ gen[r] # "open")
       => ~ dirty[r] \/ refused[r] > 0 \/ text[r].prose = 0
  /\ pc[r] = "done" /\ text[r].prose > 0
       => (posted[r] /\ shown[r] = text[r].prose) \/ refused[r] = 2
  /\ pc[r] = "done" /\ Silent(text[r]) => ~ posted[r] \/ refused[r] > 0

RunInv(r) == GenFits(r) /\ PortFits(r) /\ TokenFits(r) /\ VerbFits(r) /\ ShownFits(r)

LifeInv == TypeOK /\ Apart /\ SessionIsKnown /\ \A r \in Run : RunInv(r)

-----------------------------------------------------------------------------
(* Types.                                                                  *)

\* A pool is a sequence of ports, each once.
LEMMA PoolType ==
  ASSUME NEW n \in Nat
  PROVE  /\ Pool(n) \in Seq(1..n) /\ Len(Pool(n)) = n
         /\ \A i \in 1..n : Pool(n)[i] = i
  BY DEF Pool

\* It holds at the start.
LEMMA LifeInit == Init => LifeInv
  <1> SUFFICES ASSUME Init PROVE LifeInv
    OBVIOUS
  <1> USE DEF Init
  <1>1. size[1] \in Nat /\ size[2] \in Nat /\ thread \in [Run -> Thread] OBVIOUS
  <1>2. TypeOK
    <2>1. free \in Seq(1..size[1]) /\ freeMcp \in Seq(1..size[2]) BY <1>1, PoolType
    <2>2. port \in [Run -> 0..size[1]] /\ mcpPort \in [Run -> 0..size[2]] BY <1>1
    <2>3. /\ events \in [Run -> Seq(Kinds)]
          /\ text \in [Run -> Texts]
          /\ turns \in [Thread -> Nat] /\ shown \in [Run -> Nat] /\ refused \in [Run -> 0..2]
      BY DEF Nothing, Texts
    <2>4. QED BY <1>1, <2>1, <2>2, <2>3 DEF TypeOK, Kinds, Texts
  <1>3. Apart BY ZenonT(40), <1>1, PoolType DEF Apart
  <1>4. SessionIsKnown BY DEF SessionIsKnown
  <1>5. ASSUME NEW r \in Run PROVE RunInv(r)
    <2>1. GenFits(r) BY DEF GenFits, SshAlive
    <2>2. PortFits(r) BY DEF PortFits, Held
    <2>3. TokenFits(r) /\ VerbFits(r) BY DEF TokenFits, VerbFits
    <2>4. ShownFits(r) BY DEF ShownFits, Nothing, Silent
    <2>5. QED BY <2>1, <2>2, <2>3, <2>4 DEF RunInv
  <1>6. QED BY <1>2, <1>3, <1>4, <1>5 DEF LifeInv

\* What the renderer does keeps its variables in their types.
RendererOK ==
  /\ text \in [Run -> Texts] /\ dirty \in [Run -> BOOLEAN] /\ posted \in [Run -> BOOLEAN]
  /\ shown \in [Run -> Nat] /\ refused \in [Run -> 0..2]

\* A forced flush keeps the types of the renderer.
LEMMA FlushType ==
  ASSUME RendererOK, NEW r \in Run, NEW t \in Texts, ForcedFlush(r, t)
  PROVE  RendererOK'
  <1>0. \A n \in 0..2 : Another(n) \in 0..2 BY DEF Another
  <1>1. text' = [text EXCEPT ![r] = t] BY DEF ForcedFlush, Retract, Unsent, Update, RefusedUpdate
  <1>2. dirty' \in [Run -> BOOLEAN]
    BY DEF RendererOK, ForcedFlush, Retract, Unsent, Update, RefusedUpdate
  <1>3. posted' \in [Run -> BOOLEAN]
    BY DEF RendererOK, ForcedFlush, Retract, Unsent, Update, RefusedUpdate
  <1>4. shown' \in [Run -> Nat]
    <2>1. t.prose \in Nat BY DEF Texts
    <2>2. QED BY <2>1 DEF RendererOK, ForcedFlush, Retract, Unsent, Update, RefusedUpdate
  <1>5. refused' \in [Run -> 0..2]
    BY <1>0 DEF RendererOK, ForcedFlush, Retract, Unsent, Update, RefusedUpdate
  <1>6. QED BY <1>1, <1>2, <1>3, <1>4, <1>5 DEF RendererOK

\* So does every use of it.
LEMMA RendererType ==
  ASSUME RendererOK, NEW r \in Run
  PROVE  /\ Prose(r) \in Texts
         /\ Fail(r) => RendererOK'
         /\ LastFlush(r) => RendererOK'
         /\ \A t \in Texts : Flush(r, t) => RendererOK'
  <1>1. text[r] \in Texts /\ Prose(r) \in Texts BY DEF RendererOK, Prose, Texts
  <1>2. Fail(r) => RendererOK' BY <1>1, FlushType DEF Fail
  <1>3. UNCHANGED renderer => RendererOK' BY DEF RendererOK, renderer
  <1>4. LastFlush(r) => RendererOK' BY <1>1, <1>3, FlushType DEF LastFlush
  <1>5. ASSUME NEW t \in Texts, Flush(r, t) PROVE RendererOK'
    <2>1. CASE ForcedFlush(r, t) BY <2>1, FlushType
    <2>2. CASE Unsent(r, t) /\ UNCHANGED refused BY <2>2 DEF Unsent, RendererOK
    <2>3. QED BY <1>5, <2>1, <2>2 DEF Flush
  <1>6. QED BY <1>1, <1>2, <1>4, <1>5

\* The steps by what they touch.
Plain(r) ==
  \/ VmRuns(r) \/ StartVm(r) \/ Virsh(r) \/ Slept(r) \/ Register(r) \/ ReadRaises(r)
  \/ NoPort(r) \/ LoopEnds(r)

Speaks(r) ==
  \/ VmIsDown(r) \/ VirshFails(r) \/ MarkCreated(r) \/ ReadText(r) \/ ReadResult(r)
  \/ StreamEnds(r) \/ ReportFailure(r) \/ Finish(r)

Ports(r) == TakePorts(r) \/ NoMcpPort(r) \/ ReleasePorts(r)

Process(r) ==
  \/ Spawn(r) \/ SpawnFails(r) \/ StreamRaises(r) \/ Abandoned(r) \/ KillSsh(r)
  \/ ReadInit(r) \/ MarkRaises(r)

\* The actions, in groups that change the same variables.
LEMMA Steps ==
  ASSUME Next
  PROVE  \/ VmMoves \/ Restart
         \/ \E r \in Run : Enter(r) \/ Plain(r) \/ Speaks(r) \/ Ports(r) \/ Process(r) \/ Cli(r)
  BY DEF Next, Turn, Generator, Plain, Speaks, Ports, Process

\* Steps of the domain and of the turn that touch no more than their place keep the types.
LEMMA PlainType ==
  ASSUME TypeOK, VmMoves \/ \E r \in Run : Plain(r)
  PROVE  TypeOK'
  <1> USE DEF ports, process, session, renderer, Go
  <1>1. CASE VmMoves BY <1>1 DEF VmMoves, TypeOK
  <1>2. ASSUME NEW r \in Run, Plain(r) PROVE TypeOK'
    <2>1. pc' \in [Run -> Places]
      <3>1. Verb \in Places BY DEF Verb, Places, InTurn
      <3>2. CASE StartVm(r) BY <3>1, <3>2, Typed DEF StartVm
      <3>3. CASE VmRuns(r) \/ Slept(r) \/ Register(r) \/ ReadRaises(r) \/ NoPort(r)
        <4>1. \E q \in {"registering", "reading", "crashed", "failing"} :
                pc' = [pc EXCEPT ![r] = q]
          BY <3>3 DEF VmRuns, Slept, Register, ReadRaises, NoPort
        <4>2. QED BY <4>1, Typed DEF Places, InTurn, Over
      <3>4. CASE Virsh(r) \/ LoopEnds(r)
        <4>1. \E q \in {"sleeping", "finishing", "failing"} : pc' = [pc EXCEPT ![r] = q]
          BY <3>4 DEF Virsh, LoopEnds
        <4>2. QED BY <4>1, Typed DEF Places, InTurn
      <3>5. QED BY <1>2, <3>2, <3>3, <3>4 DEF Plain
    <2>2. vm' \in {"off", "paused", "booting", "up"} /\ beaten' \subseteq Run
          /\ tokens' \subseteq Run
      BY <1>2
      DEF Plain, VmRuns, StartVm, Virsh, Slept, Register, ReadRaises, NoPort, LoopEnds,
          TypeOK, Choosing
    <2>3. UNCHANGED <<ports, process, session, renderer>>
      BY <1>2
      DEF Plain, VmRuns, StartVm, Virsh, Slept, Register, ReadRaises, NoPort, LoopEnds
    <2>4. QED BY <2>1, <2>2, <2>3 DEF TypeOK, Places
  <1>3. QED BY <1>1, <1>2

\* So do steps that write to Slack,
LEMMA SpeaksType ==
  ASSUME TypeOK, NEW r \in Run, Speaks(r)
  PROVE  TypeOK'
  <1> USE DEF ports, process, session, Go, Gen
  <1>0. RendererOK BY Typed DEF RendererOK
  <1>1. RendererOK'
    <2>1. \/ Fail(r) \/ LastFlush(r) \/ UNCHANGED renderer \/ ForcedFlush(r, text[r])
          \/ \E t \in {Prose(r), [text[r] EXCEPT !.marker = TRUE]} : Flush(r, t)
      BY DEF Speaks, VmIsDown, VirshFails, MarkCreated, ReadText, ReadResult, StreamEnds,
             ReportFailure, Finish
    <2>2. text[r] \in Texts /\ [text[r] EXCEPT !.marker = TRUE] \in Texts
      BY ZenonT(40), <1>0 DEF RendererOK, Texts
    <2>3. UNCHANGED renderer => RendererOK' BY <1>0 DEF RendererOK, renderer
    <2>4. QED BY <1>0, <2>1, <2>2, <2>3, RendererType, FlushType
  <1>a. pc' \in [Run -> Places]
    <2>1. \/ pc' = pc
          \/ \E q \in {"starting", "given up", "running", "finishing", "done"} :
               pc' = [pc EXCEPT ![r] = q]
      BY DEF Speaks, VmIsDown, VirshFails, MarkCreated, ReadText, ReadResult, StreamEnds,
             ReportFailure, Finish
    <2>2. QED BY <2>1, Typed DEF Places, InTurn, Over
  <1>b. gen' \in [Run -> GenStates]
    <2>1. gen' = gen \/ gen' = [gen EXCEPT ![r] = "closing"]
      BY DEF Speaks, VmIsDown, VirshFails, MarkCreated, ReadText, ReadResult, StreamEnds,
             ReportFailure, Finish
    <2>2. QED BY <2>1, Typed DEF GenStates
  <1>2. pc' \in [Run -> Places] /\ gen' \in [Run -> GenStates] BY <1>a, <1>b
  <1>3. events' \in [Run -> Seq(Kinds)]
    <2>1. ASSUME NEW e, Reads(r, e) PROVE events' \in [Run -> Seq(Kinds)]
      <3>1. Tail(events[r]) \in Seq(Kinds) BY <2>1, Typed, HeadTailProperties DEF Reads
      <3>2. QED BY <2>1, <3>1, Typed DEF Reads
    <2>2. (\E e : Reads(r, e)) \/ events' = events
      BY DEF Speaks, VmIsDown, VirshFails, MarkCreated, ReadText, ReadResult, StreamEnds,
             ReportFailure, Finish
    <2>3. QED BY <2>1, <2>2, Typed
  <1>4. turns' \in [Thread -> Nat]
    <2>1. turns' = turns \/ turns' = [turns EXCEPT ![thread[r]] = @ + 1]
      BY DEF Speaks, VmIsDown, VirshFails, MarkCreated, ReadText, ReadResult, StreamEnds,
             ReportFailure, Finish
    <2>2. turns[thread[r]] + 1 \in Nat BY Typed
    <2>3. QED BY <2>1, <2>2, Typed
  <1>5. beaten' \subseteq Run /\ tokens' \subseteq Run
    BY DEF Speaks, VmIsDown, VirshFails, MarkCreated, ReadText, ReadResult, StreamEnds,
           ReportFailure, Finish, TypeOK
  <1>6. UNCHANGED <<vm, ports, cli, thread, resume, disk, torn>>
    BY DEF Speaks, VmIsDown, VirshFails, MarkCreated, ReadText, ReadResult, StreamEnds,
           ReportFailure, Finish
  <1>7. QED
    BY <1>1, <1>2, <1>3, <1>4, <1>5, <1>6
    DEF TypeOK, RendererOK, Places, GenStates, Kinds, Texts

\* The first port of a pool leaves it; a port that comes back is its last.
LEMMA PoolMoves ==
  ASSUME NEW n \in Nat, NEW s \in Seq(1..n)
  PROVE  /\ s # <<>> => /\ Head(s) \in 1..n /\ Tail(s) \in Seq(1..n)
                        /\ Len(s) \in Nat \ {0} /\ Len(Tail(s)) = Len(s) - 1
                        /\ Head(s) = s[1]
                        /\ \A i \in 1..Len(Tail(s)) : Tail(s)[i] = s[i + 1]
         /\ \A p \in 1..n : /\ Append(s, p) \in Seq(1..n) /\ Len(Append(s, p)) = Len(s) + 1
                            /\ Append(s, p)[Len(s) + 1] = p
                            /\ \A i \in 1..Len(s) : Append(s, p)[i] = s[i]
  <1>1. s # <<>> => /\ Head(s) \in 1..n /\ Tail(s) \in Seq(1..n)
                    /\ Len(s) \in Nat \ {0} /\ Len(Tail(s)) = Len(s) - 1
                    /\ Head(s) = s[1]
                    /\ \A i \in 1..Len(Tail(s)) : Tail(s)[i] = s[i + 1]
    BY HeadTailProperties, EmptySeq
  <1>2. \A p \in 1..n : /\ Append(s, p) \in Seq(1..n) /\ Len(Append(s, p)) = Len(s) + 1
                        /\ Append(s, p)[Len(s) + 1] = p
                        /\ \A i \in 1..Len(s) : Append(s, p)[i] = s[i]
    OBVIOUS
  <1>3. QED BY <1>1, <1>2

\* steps that move ports,
LEMMA PortsType ==
  ASSUME TypeOK, NEW r \in Run, PortFits(r), Ports(r)
  PROVE  TypeOK'
  <1> USE DEF process, session, renderer, Go, Gen
  <1>a. pc' = pc \/ \E q \in {"spawning", "failing"} : pc' = [pc EXCEPT ![r] = q]
    BY DEF Ports, TakePorts, NoMcpPort, ReleasePorts
  <1>b. gen' = gen \/ gen' = [gen EXCEPT ![r] = "closed"]
    BY DEF Ports, TakePorts, NoMcpPort, ReleasePorts
  <1>c. pc' \in [Run -> Places] BY <1>a, Typed DEF Places, InTurn
  <1>d. gen' \in [Run -> GenStates] BY <1>b, Typed DEF GenStates
  <1>1. pc' \in [Run -> Places] /\ gen' \in [Run -> GenStates] BY <1>c, <1>d
  <1>2. /\ free' \in Seq(1..size[1]) /\ freeMcp' \in Seq(1..size[2])
        /\ port' \in [Run -> 0..size[1]] /\ mcpPort' \in [Run -> 0..size[2]]
        /\ lost' \subseteq 1..size[1]
    <2>1. CASE TakePorts(r)
      <3>a. /\ free' = Tail(free) /\ free # <<>> /\ lost' = lost
            /\ port' = [port EXCEPT ![r] = Head(free)]
        BY <2>1 DEF TakePorts
      <3>b. Tail(free) \in Seq(1..size[1]) /\ Head(free) \in 1..size[1]
        BY <3>a, Typed, PoolMoves
      <3>1. /\ free' \in Seq(1..size[1]) /\ Head(free) \in 1..size[1]
            /\ port' = [port EXCEPT ![r] = Head(free)] /\ lost' = lost
        BY <3>a, <3>b
      <3>2. \/ /\ freeMcp' \in Seq(1..size[2]) /\ Head(freeMcp) \in 1..size[2]
               /\ mcpPort' = [mcpPort EXCEPT ![r] = Head(freeMcp)]
            \/ freeMcp' = freeMcp /\ mcpPort' = mcpPort
        <4>1. freeMcp # <<>> =>
                Tail(freeMcp) \in Seq(1..size[2]) /\ Head(freeMcp) \in 1..size[2]
          BY Typed, PoolMoves
        <4>2. QED BY <2>1, <4>1 DEF TakePorts
      <3>3. port' \in [Run -> 0..size[1]] BY <3>1, Typed
      <3>4. mcpPort' \in [Run -> 0..size[2]] /\ freeMcp' \in Seq(1..size[2])
        <4>1. CASE freeMcp' = freeMcp /\ mcpPort' = mcpPort BY <4>1, Typed
        <4>2. CASE /\ freeMcp' \in Seq(1..size[2]) /\ Head(freeMcp) \in 1..size[2]
                   /\ mcpPort' = [mcpPort EXCEPT ![r] = Head(freeMcp)]
          BY <4>2, Typed
        <4>3. QED BY <3>2, <4>1, <4>2
      <3>5. QED BY <3>1, <3>3, <3>4 DEF TypeOK
    <2>2. CASE NoMcpPort(r)
      <3>1. /\ free' \in Seq(1..size[1]) /\ Head(free) \in 1..size[1]
            /\ lost' = lost \cup {Head(free)}
        BY <2>2, Typed, PoolMoves DEF NoMcpPort
      <3>2. freeMcp' = freeMcp /\ port' = port /\ mcpPort' = mcpPort
        BY <2>2 DEF NoMcpPort
      <3>3. QED BY <3>1, <3>2 DEF TypeOK
    <2>3. CASE ReleasePorts(r)
      <3>1. port[r] \in 1..size[1] /\ (r \in UsesMcp => mcpPort[r] \in 1..size[2])
        BY <2>3, Typed DEF ReleasePorts, PortFits, Held
      <3>2. free' \in Seq(1..size[1]) BY <2>3, <3>1, Typed, PoolMoves DEF ReleasePorts
      <3>3. freeMcp' \in Seq(1..size[2]) BY <2>3, <3>1, Typed, PoolMoves DEF ReleasePorts
      <3>4. port' \in [Run -> 0..size[1]] /\ mcpPort' \in [Run -> 0..size[2]]
        BY <2>3, Typed DEF ReleasePorts
      <3>5. QED BY <2>3, <3>2, <3>3, <3>4 DEF ReleasePorts, TypeOK
    <2>4. QED BY <2>1, <2>2, <2>3 DEF Ports
  <1>3. UNCHANGED <<vm, beaten, tokens, size, cli, events, session, renderer>>
    BY DEF Ports, TakePorts, NoMcpPort, ReleasePorts
  <1>4. QED BY <1>1, <1>2, <1>3 DEF TypeOK, Places, GenStates

\* steps of the ssh process and its generator,
LEMMA ProcessType ==
  ASSUME TypeOK, NEW r \in Run, Process(r)
  PROVE  TypeOK'
  <1> USE DEF ports, process, session, renderer, Go, Gen
  <1>a. pc' = pc \/ \E q \in {"running", "raised", "marking", "failing"} :
                      pc' = [pc EXCEPT ![r] = q]
    BY DEF Process, Spawn, SpawnFails, StreamRaises, Abandoned, KillSsh, ReadInit, MarkRaises
  <1>b. gen' = gen \/ \E q \in {"open", "closing", "releasing"} : gen' = [gen EXCEPT ![r] = q]
    BY DEF Process, Spawn, SpawnFails, StreamRaises, Abandoned, KillSsh, ReadInit, MarkRaises
  <1>c. \/ cli' = cli \/ cli' = [cli EXCEPT ![r] = "connecting"]
        \/ cli' = [cli EXCEPT ![r] = IF @ \in {"none", "ended"} THEN @ ELSE "failed"]
    BY DEF Process, Spawn, SpawnFails, StreamRaises, Abandoned, KillSsh, ReadInit, MarkRaises
  <1>d. pc' \in [Run -> Places] BY <1>a, Typed DEF Places, InTurn
  <1>e. gen' \in [Run -> GenStates] BY <1>b, Typed DEF GenStates
  <1>f. cli' \in [Run -> CliStates] BY <1>c, Typed DEF CliStates
  <1>1. pc' \in [Run -> Places] /\ gen' \in [Run -> GenStates] /\ cli' \in [Run -> CliStates]
    BY <1>d, <1>e, <1>f
  <1>2. events' \in [Run -> Seq(Kinds)]
    <2>1. CASE ReadInit(r)
      <3>1. Tail(events[r]) \in Seq(Kinds)
        BY <2>1, Typed, HeadTailProperties DEF ReadInit, Reads
      <3>2. QED BY <2>1, <3>1, Typed DEF ReadInit, Reads
    <2>2. CASE KillSsh(r)
      <3>1. <<>> \in Seq(Kinds) OBVIOUS
      <3>2. QED BY <2>2, <3>1, Typed DEF KillSsh
    <2>3. CASE ~ ReadInit(r) /\ ~ KillSsh(r)
      <3>1. events' = events
        BY <2>3 DEF Process, Spawn, SpawnFails, StreamRaises, Abandoned, MarkRaises
      <3>2. QED BY <3>1, Typed
    <2>4. QED BY <2>1, <2>2, <2>3
  <1>3. torn' \subseteq Thread
    <2>1. torn' = torn \/ torn' = torn \cup {thread[r]}
      BY DEF Process, Spawn, SpawnFails, StreamRaises, Abandoned, KillSsh, ReadInit, MarkRaises
    <2>2. torn \subseteq Thread BY DEF TypeOK
    <2>3. QED BY <2>1, <2>2, Typed
  <1>4. UNCHANGED <<vm, beaten, tokens, ports, thread, resume, turns, disk, renderer>>
    BY DEF Process, Spawn, SpawnFails, StreamRaises, Abandoned, KillSsh, ReadInit, MarkRaises,
           Reads
  <1>5. QED BY <1>1, <1>2, <1>3, <1>4 DEF TypeOK, Places, GenStates, CliStates, Kinds

\* steps of the CLI,
LEMMA CliType ==
  ASSUME TypeOK, NEW r \in Run, Cli(r)
  PROVE  TypeOK'
  <1> USE DEF ports, renderer
  <1>1. cli' \in [Run -> CliStates]
    BY ZenonT(40), Typed DEF Cli, CliInit, CliSays, CliExits, CliFails, CliStates
  <1>2. events' \in [Run -> Seq(Kinds)]
    <2>1. events[r] \in Seq(Kinds) BY Typed
    <2>2. \A e \in Kinds : Append(events[r], e) \in Seq(Kinds) BY <2>1
    <2>3. <<>> \in Seq(Kinds) /\ <<"init">> \in Seq(Kinds) BY DEF Kinds
    <2>4. CASE CliSays(r)
      <3>1. PICK e \in Kinds : events' = [events EXCEPT ![r] = Append(events[r], e)]
        BY <2>4, Typed DEF CliSays, Kinds
      <3>2. QED BY <2>2, <3>1, Typed
    <2>5. QED BY ZenonT(40), <2>3, <2>4, Typed DEF Cli, CliInit, CliExits, CliFails
  <1>3. disk' \subseteq Thread /\ torn' \subseteq Thread
    <2>1. /\ disk' = disk \/ disk' = disk \cup {thread[r]}
          /\ torn' = torn \/ torn' = torn \cup {thread[r]}
      BY DEF Cli, CliInit, CliSays, CliExits, CliFails
    <2>2. disk \subseteq Thread /\ torn \subseteq Thread BY DEF TypeOK
    <2>3. QED BY <2>1, <2>2, Typed
  <1>4. UNCHANGED <<vm, pc, beaten, tokens, ports, gen, thread, resume, turns, renderer>>
    BY DEF Cli, CliInit, CliSays, CliExits, CliFails, CliUnchanged
  <1>5. QED BY <1>1, <1>2, <1>3, <1>4 DEF TypeOK, CliStates, Kinds

\* a new turn,
LEMMA EnterType ==
  ASSUME TypeOK, NEW r \in Run, Enter(r)
  PROVE  TypeOK'
  <1> USE DEF ports, process, Go
  <1>1. pc' \in [Run -> Places] BY Typed DEF Enter, Places, InTurn
  <1>2. posted' \in [Run -> BOOLEAN]
    <2>1. PICK quiet \in BOOLEAN : posted' = [posted EXCEPT ![r] = ~ quiet] BY DEF Enter
    <2>2. QED BY <2>1, Typed
  <1>3. resume' \in [Run -> BOOLEAN] BY DEF Enter, TypeOK
  <1>4. QED BY <1>1, <1>2, <1>3 DEF Enter, TypeOK, Places

\* and a restart of the daemon.
LEMMA RestartType ==
  ASSUME TypeOK, Restart
  PROVE  TypeOK'
  <1> USE DEF renderer
  <1>1. free' \in Seq(1..size[1]) /\ freeMcp' \in Seq(1..size[2])
    BY Typed, PoolType DEF Restart
  <1>2. port' \in [Run -> 0..size[1]] /\ mcpPort' \in [Run -> 0..size[2]]
    <2>1. 0 \in 0..size[1] /\ 0 \in 0..size[2] BY Typed
    <2>2. port' = [r \in Run |-> 0] /\ mcpPort' = [r \in Run |-> 0] BY DEF Restart
    <2>3. QED BY <2>1, <2>2
  <1>3. pc' \in [Run -> Places] /\ gen' \in [Run -> GenStates] /\ cli' \in [Run -> CliStates]
    BY Typed DEF Restart, Places, Over, GenStates, CliStates
  <1>4. events' \in [Run -> Seq(Kinds)] BY DEF Restart
  <1>5. torn' \subseteq Thread BY Typed DEF Restart, TypeOK
  <1>6. QED
    BY <1>1, <1>2, <1>3, <1>4, <1>5
    DEF Restart, TypeOK, Places, GenStates, CliStates, Kinds

\* Every action keeps the types.
LEMMA TypeNext ==
  ASSUME LifeInv, Next
  PROVE  TypeOK'
  BY Steps, PlainType, SpeaksType, PortsType, ProcessType, CliType, EnterType, RestartType
  DEF LifeInv, RunInv

-----------------------------------------------------------------------------
(* What a step of one run leaves of another.                               *)

Step(r) == Enter(r) \/ Plain(r) \/ Speaks(r) \/ Ports(r) \/ Process(r) \/ Cli(r)

SameText(s) ==
  /\ text'[s] = text[s] /\ dirty'[s] = dirty[s] /\ posted'[s] = posted[s]
  /\ shown'[s] = shown[s] /\ refused'[s] = refused[s]

SamePlace(s) ==
  /\ pc'[s] = pc[s] /\ gen'[s] = gen[s] /\ cli'[s] = cli[s] /\ events'[s] = events[s]
  /\ port'[s] = port[s] /\ mcpPort'[s] = mcpPort[s] /\ (s \in tokens' <=> s \in tokens)

\* Writing the message of one run leaves the message of another.
LEMMA TextAlone ==
  ASSUME TypeOK, NEW r \in Run, NEW s \in Run \ {r}
  PROVE  /\ \A t : ForcedFlush(r, t) => SameText(s)
         /\ \A t : Flush(r, t) => SameText(s)
         /\ Fail(r) => SameText(s)
         /\ LastFlush(r) => SameText(s)
         /\ UNCHANGED renderer => SameText(s)
  <1>1. ASSUME NEW t, ForcedFlush(r, t) PROVE SameText(s)
    BY SMTT(20), <1>1, Typed DEF ForcedFlush, Retract, Unsent, Update, RefusedUpdate, SameText
  <1>2. UNCHANGED renderer => SameText(s) BY DEF renderer, SameText
  <1>3. ASSUME NEW t, Flush(r, t) PROVE SameText(s)
    BY <1>1, <1>3, Typed DEF Flush, Unsent, SameText
  <1>4. Fail(r) => SameText(s) BY <1>1 DEF Fail
  <1>5. LastFlush(r) => SameText(s) BY <1>1, <1>2 DEF LastFlush
  <1>6. QED BY <1>1, <1>2, <1>3, <1>4, <1>5

\* A step of one run leaves the place and the message of another.
LEMMA OthersAlone ==
  ASSUME TypeOK, NEW r \in Run, NEW s \in Run \ {r}, Step(r)
  PROVE  SamePlace(s) /\ SameText(s) /\ thread' = thread
  <1> USE DEF ports, process, session, Go, Gen
  <1>1. CASE Enter(r)
    <2>1. SameText(s) BY <1>1, Typed DEF Enter, SameText
    <2>2. QED BY <1>1, <2>1, Typed DEF Enter, SamePlace
  <1>2. CASE Plain(r)
    <2>1. UNCHANGED renderer /\ UNCHANGED process /\ UNCHANGED ports /\ UNCHANGED thread
      BY <1>2
      DEF Plain, VmRuns, StartVm, Virsh, Slept, Register, ReadRaises, NoPort, LoopEnds
    <2>2. pc'[s] = pc[s] /\ (s \in tokens' <=> s \in tokens)
      <3>1. \E q : pc' = [pc EXCEPT ![r] = q]
        BY <1>2
        DEF Plain, VmRuns, StartVm, Virsh, Slept, Register, ReadRaises, NoPort, LoopEnds
      <3>2. tokens' = tokens \/ tokens' = tokens \cup {r}
        BY <1>2
        DEF Plain, VmRuns, StartVm, Virsh, Slept, Register, ReadRaises, NoPort, LoopEnds
      <3>3. QED BY <3>1, <3>2, Typed
    <2>3. QED BY <2>1, <2>2, TextAlone DEF SamePlace
  <1>3. CASE Speaks(r)
    <2>1. SameText(s)
      <3>1. \/ Fail(r) \/ LastFlush(r) \/ UNCHANGED renderer \/ ForcedFlush(r, text[r])
            \/ \E t \in {Prose(r), [text[r] EXCEPT !.marker = TRUE]} : Flush(r, t)
        BY <1>3
        DEF Speaks, VmIsDown, VirshFails, MarkCreated, ReadText, ReadResult, StreamEnds,
            ReportFailure, Finish
      <3>2. QED BY <3>1, TextAlone
    <2>2. /\ pc' = pc \/ \E q : pc' = [pc EXCEPT ![r] = q]
          /\ gen' = gen \/ \E q : gen' = [gen EXCEPT ![r] = q]
          /\ events' = events \/ \E q : events' = [events EXCEPT ![r] = q]
          /\ tokens' = tokens \/ tokens' = tokens \ {r}
      BY <1>3
      DEF Speaks, VmIsDown, VirshFails, MarkCreated, ReadText, ReadResult, StreamEnds,
          ReportFailure, Finish, Reads
    <2>3. UNCHANGED <<ports, cli, thread>>
      BY <1>3
      DEF Speaks, VmIsDown, VirshFails, MarkCreated, ReadText, ReadResult, StreamEnds,
          ReportFailure, Finish
    <2>4. QED BY <2>1, <2>2, <2>3, Typed DEF SamePlace
  <1>4. CASE Ports(r)
    <2>1. /\ pc' = pc \/ \E q : pc' = [pc EXCEPT ![r] = q]
          /\ gen' = gen \/ \E q : gen' = [gen EXCEPT ![r] = q]
          /\ port' = port \/ \E q : port' = [port EXCEPT ![r] = q]
          /\ mcpPort' = mcpPort \/ \E q : mcpPort' = [mcpPort EXCEPT ![r] = q]
      BY <1>4 DEF Ports, TakePorts, NoMcpPort, ReleasePorts
    <2>2. UNCHANGED <<cli, events, tokens, thread>> /\ UNCHANGED renderer
      BY <1>4 DEF Ports, TakePorts, NoMcpPort, ReleasePorts
    <2>3. QED BY <2>1, <2>2, Typed, TextAlone DEF SamePlace
  <1>5. CASE Process(r)
    <2>1. /\ pc' = pc \/ \E q : pc' = [pc EXCEPT ![r] = q]
          /\ gen' = gen \/ \E q : gen' = [gen EXCEPT ![r] = q]
          /\ cli' = cli \/ \E q : cli' = [cli EXCEPT ![r] = q]
          /\ events' = events \/ \E q : events' = [events EXCEPT ![r] = q]
      BY <1>5
      DEF Process, Spawn, SpawnFails, StreamRaises, Abandoned, KillSsh, ReadInit, MarkRaises,
          Reads
    <2>2. UNCHANGED <<ports, tokens, thread>> /\ UNCHANGED renderer
      BY <1>5
      DEF Process, Spawn, SpawnFails, StreamRaises, Abandoned, KillSsh, ReadInit, MarkRaises
    <2>3. QED BY <2>1, <2>2, Typed, TextAlone DEF SamePlace
  <1>6. CASE Cli(r)
    <2>1. /\ cli' = cli \/ \E q : cli' = [cli EXCEPT ![r] = q]
          /\ events' = events \/ \E q : events' = [events EXCEPT ![r] = q]
      BY <1>6 DEF Cli, CliInit, CliSays, CliExits, CliFails
    <2>2. UNCHANGED <<pc, gen, ports, tokens, thread>> /\ UNCHANGED renderer
      BY <1>6 DEF Cli, CliInit, CliSays, CliExits, CliFails, CliUnchanged
    <2>3. QED BY <2>1, <2>2, Typed, TextAlone DEF SamePlace
  <1>7. QED BY <1>1, <1>2, <1>3, <1>4, <1>5, <1>6 DEF Step

-----------------------------------------------------------------------------
(* Each part is kept by the run's own steps.                               *)

\* Where the turn, the generator and the CLI go.
LEMMA Moves ==
  ASSUME TypeOK, NEW r \in Run, Step(r), GenFits(r)
  PROVE  GenFits(r)'
  <1> USE DEF ports, process, session, Go, Gen, GenFits, SshAlive
  <1>1. CASE Enter(r) BY <1>1, Typed DEF Enter
  <1>2. CASE Plain(r)
    <2>1. gen' = gen /\ cli' = cli
      BY <1>2
      DEF Plain, VmRuns, StartVm, Virsh, Slept, Register, ReadRaises, NoPort, LoopEnds
    <2>2. CASE LoopEnds(r) BY <2>1, <2>2, Typed DEF LoopEnds
    <2>3. CASE StartVm(r) BY <2>1, <2>3, Typed DEF StartVm, Verb
    <2>4. CASE VmRuns(r) \/ Virsh(r) \/ Slept(r) \/ Register(r) \/ ReadRaises(r) \/ NoPort(r)
      BY <2>1, <2>4, Typed DEF VmRuns, Virsh, Slept, Register, ReadRaises, NoPort
    <2>5. QED BY <1>2, <2>2, <2>3, <2>4 DEF Plain
  <1>3. CASE Speaks(r)
    <2>1. CASE VmIsDown(r) \/ VirshFails(r)
      BY <2>1, Typed DEF VmIsDown, VirshFails
    <2>2. CASE MarkCreated(r) BY <2>2, Typed DEF MarkCreated
    <2>3. CASE ReadText(r) \/ ReadResult(r) BY <2>3, Typed DEF ReadText, ReadResult
    <2>4. CASE StreamEnds(r) BY <2>4, Typed DEF StreamEnds
    <2>5. CASE ReportFailure(r) \/ Finish(r) BY <2>5, Typed DEF ReportFailure, Finish
    <2>6. QED BY <1>3, <2>1, <2>2, <2>3, <2>4, <2>5 DEF Speaks
  <1>4. CASE Ports(r)
    <2>1. cli' = cli BY <1>4 DEF Ports, TakePorts, NoMcpPort, ReleasePorts
    <2>2. CASE TakePorts(r) \/ NoMcpPort(r) BY <2>1, <2>2, Typed DEF TakePorts, NoMcpPort
    <2>3. CASE ReleasePorts(r) BY <2>1, <2>3, Typed DEF ReleasePorts
    <2>4. QED BY <1>4, <2>2, <2>3 DEF Ports
  <1>5. CASE Process(r)
    <2>1. CASE Spawn(r) \/ SpawnFails(r) BY ZenonT(40), <2>1, Typed DEF Spawn, SpawnFails
    <2>2. CASE StreamRaises(r) BY <2>2, Typed DEF StreamRaises
    <2>3. CASE Abandoned(r) BY <2>3, Typed DEF Abandoned
    <2>4. CASE KillSsh(r)
      <3>1. gen[r] = "closing" /\ gen'[r] = "releasing" /\ pc' = pc
        BY <2>4, Typed DEF KillSsh
      <3>2. cli'[r] \in {"none", "ended", "failed"} BY <2>4, Typed DEF KillSsh
      <3>3. QED BY <3>1, <3>2
    <2>5. CASE ReadInit(r) \/ MarkRaises(r) BY <2>5, Typed DEF ReadInit, MarkRaises, Reads
    <2>6. QED BY <1>5, <2>1, <2>2, <2>3, <2>4, <2>5 DEF Process
  <1>6. CASE Cli(r)
    BY <1>6, Typed DEF Cli, CliInit, CliSays, CliExits, CliFails, CliUnchanged
  <1>7. QED BY <1>1, <1>2, <1>3, <1>4, <1>5, <1>6 DEF Step

\* Every step keeps the token of its run in step with its place.
LEMMA TokensFit ==
  ASSUME TypeOK, NEW r \in Run, Step(r), TokenFits(r)
  PROVE  TokenFits(r)'
  <1> USE DEF ports, process, session, Go, Gen, TokenFits
  <1>1. CASE Enter(r) BY <1>1, Typed DEF Enter
  <1>2. CASE Plain(r)
    <2>1. CASE LoopEnds(r) BY <2>1, Typed DEF LoopEnds
    <2>2. CASE StartVm(r) BY <2>2, Typed DEF StartVm, Verb
    <2>3. CASE VmRuns(r) \/ Virsh(r) \/ Slept(r) BY <2>3, Typed DEF VmRuns, Virsh, Slept
    <2>4. CASE Register(r) \/ ReadRaises(r) \/ NoPort(r)
      BY <2>4, Typed DEF Register, ReadRaises, NoPort
    <2>5. QED BY <1>2, <2>1, <2>2, <2>3, <2>4 DEF Plain
  <1>3. CASE Speaks(r)
    <2>1. CASE VmIsDown(r) \/ VirshFails(r) BY <2>1, Typed DEF VmIsDown, VirshFails
    <2>2. CASE MarkCreated(r) BY <2>2, Typed DEF MarkCreated
    <2>3. CASE ReadText(r) \/ ReadResult(r) BY <2>3, Typed DEF ReadText, ReadResult
    <2>4. CASE StreamEnds(r) BY <2>4, Typed DEF StreamEnds
    <2>5. CASE ReportFailure(r) \/ Finish(r) BY <2>5, Typed DEF ReportFailure, Finish
    <2>6. QED BY <1>3, <2>1, <2>2, <2>3, <2>4, <2>5 DEF Speaks
  <1>4. CASE Ports(r) BY <1>4, Typed DEF Ports, TakePorts, NoMcpPort, ReleasePorts
  <1>5. CASE Process(r)
    <2>1. tokens' = tokens
      BY <1>5
      DEF Process, Spawn, SpawnFails, StreamRaises, Abandoned, KillSsh, ReadInit, MarkRaises
    <2>2. CASE Spawn(r) \/ SpawnFails(r) BY <2>1, <2>2, Typed DEF Spawn, SpawnFails
    <2>3. CASE StreamRaises(r) BY <2>1, <2>3, Typed DEF StreamRaises
    <2>4. CASE Abandoned(r) \/ KillSsh(r) BY <2>1, <2>4, Typed DEF Abandoned, KillSsh
    <2>5. CASE ReadInit(r) \/ MarkRaises(r) BY <2>1, <2>5, Typed DEF ReadInit, MarkRaises
    <2>6. QED BY <1>5, <2>2, <2>3, <2>4, <2>5 DEF Process
  <1>6. CASE Cli(r) BY <1>6 DEF Cli, CliInit, CliSays, CliExits, CliFails, CliUnchanged
  <1>7. QED BY <1>1, <1>2, <1>3, <1>4, <1>5, <1>6 DEF Step

\* Every step keeps the verbs of all runs in step with the domain.
LEMMA VerbsFit ==
  ASSUME TypeOK, NEW r \in Run, NEW s \in Run, Step(r), VerbFits(s)
  PROVE  VerbFits(s)'
  <1> USE DEF ports, process, session, Go, Gen
  <1>1. CASE Virsh(r)
    <2>1. pc'[r] = "sleeping" /\ beaten' = (beaten \cup Choosing) \ {r}
      BY <1>1, Typed DEF Virsh
    <2>2. s # r => pc'[s] = pc[s] BY <1>1, Typed DEF Virsh
    <2>3. QED BY <2>1, <2>2 DEF VerbFits, Choosing
  <1>2. CASE ~ Virsh(r)
    <2>1. vm' = vm
      BY <1>2
      DEF Step, Enter, Plain, VmRuns, StartVm, Slept, Register, ReadRaises, NoPort, LoopEnds,
          Speaks, VmIsDown, VirshFails, MarkCreated, ReadText, ReadResult, StreamEnds,
          ReportFailure, Finish, Ports, TakePorts, NoMcpPort, ReleasePorts, Process, Spawn,
          SpawnFails, StreamRaises, Abandoned, KillSsh, ReadInit, MarkRaises, Cli, CliInit,
          CliSays, CliExits, CliFails, CliUnchanged
    <2>2. beaten' = beaten \/ (VirshFails(r) /\ beaten' = beaten \ {r} /\ pc'[r] = "given up")
      <3>1. CASE VirshFails(r) BY <3>1, Typed DEF VirshFails
      <3>2. CASE ~ VirshFails(r)
        BY <1>2, <3>2
        DEF Step, Enter, Plain, VmRuns, StartVm, Slept, Register, ReadRaises, NoPort, LoopEnds,
            Speaks, VmIsDown, MarkCreated, ReadText, ReadResult, StreamEnds,
            ReportFailure, Finish, Ports, TakePorts, NoMcpPort, ReleasePorts, Process, Spawn,
            SpawnFails, StreamRaises, Abandoned, KillSsh, ReadInit, MarkRaises, Cli, CliInit,
            CliSays, CliExits, CliFails, CliUnchanged
      <3>3. QED BY <3>1, <3>2
    <2>3. CASE s # r
      <3>1. pc'[s] = pc[s] BY <2>3, OthersAlone DEF SamePlace
      <3>2. QED BY <2>1, <2>2, <2>3, <3>1 DEF VerbFits
    <2>4. CASE s = r
      <3>1. CASE StartVm(r)
        BY <2>1, <2>2, <2>4, <3>1, Typed DEF StartVm, Verb, Domstate, VerbFits, TypeOK
      <3>2. CASE ~ StartVm(r)
        <4>1. pc'[r] \in {"virsh start", "virsh resume"} => pc' = pc
          BY <1>2, <3>2, Typed
          DEF Step, Enter, Plain, VmRuns, Slept, Register, ReadRaises, NoPort, LoopEnds,
              Speaks, VmIsDown, VirshFails, MarkCreated, ReadText, ReadResult, StreamEnds,
              ReportFailure, Finish, Ports, TakePorts, NoMcpPort, ReleasePorts, Process, Spawn,
              SpawnFails, StreamRaises, Abandoned, KillSsh, ReadInit, MarkRaises, Cli, CliInit,
              CliSays, CliExits, CliFails, CliUnchanged
        <4>2. QED BY <2>1, <2>2, <2>4, <4>1 DEF VerbFits
      <3>3. QED BY <3>1, <3>2
    <2>5. QED BY <2>3, <2>4
  <1>3. QED BY <1>1, <1>2

\* Every step but three leaves the ports alone.
LEMMA PortsAlone ==
  ASSUME NEW r \in Run, Step(r), ~ Ports(r)
  PROVE  UNCHANGED ports
  BY DEF Step, Enter, Plain, VmRuns, StartVm, Virsh, Slept, Register, ReadRaises, NoPort,
         LoopEnds, Speaks, VmIsDown, VirshFails, MarkCreated, ReadText, ReadResult, StreamEnds,
         ReportFailure, Finish, Process, Spawn, SpawnFails, StreamRaises, Abandoned, KillSsh,
         ReadInit, MarkRaises, Cli, CliInit, CliSays, CliExits, CliFails, CliUnchanged

\* Every step keeps the ports of its run in step with its generator.
LEMMA PortsFit ==
  ASSUME TypeOK, NEW r \in Run, Step(r), GenFits(r), PortFits(r)
  PROVE  PortFits(r)'
  <1> USE DEF Go, Gen
  <1>1. CASE TakePorts(r)
    <2>1. port'[r] = Head(free) /\ Head(free) \in 1..size[1] /\ pc'[r] = "spawning"
      BY <1>1, Typed, PoolMoves DEF TakePorts
    <2>2. r \in UsesMcp => mcpPort'[r] = Head(freeMcp) /\ Head(freeMcp) \in 1..size[2]
      BY ZenonT(40), <1>1, Typed, PoolMoves DEF TakePorts
    <2>3. QED BY <2>1, <2>2, Typed DEF PortFits, Held
  <1>2. CASE ReleasePorts(r)
    <2>1. port'[r] = 0 /\ mcpPort'[r] = 0 /\ gen'[r] = "closed" /\ pc' = pc
      BY <1>2, Typed DEF ReleasePorts
    <2>2. pc[r] # "spawning" BY <1>2 DEF ReleasePorts, GenFits
    <2>3. QED BY <2>1, <2>2 DEF PortFits, Held
  <1>3. CASE NoMcpPort(r)
    <2>1. pc[r] = "reading" /\ pc'[r] = "failing" /\ gen' = gen /\ port' = port
          /\ mcpPort' = mcpPort
      BY <1>3, Typed DEF NoMcpPort, process
    <2>2. QED BY <2>1 DEF PortFits, Held
  <1>4. CASE ~ Ports(r)
    <2>1. port' = port /\ mcpPort' = mcpPort BY <1>4, PortsAlone DEF ports
    <2>2. Held(r)' <=> Held(r)
      <3> USE DEF ports, process, session, Held
      <3>1. CASE Enter(r) BY <3>1, Typed DEF Enter
      <3>2. CASE Plain(r)
        <4>1. CASE LoopEnds(r) BY <4>1, Typed DEF LoopEnds
        <4>2. CASE StartVm(r) BY <4>2, Typed DEF StartVm, Verb
        <4>3. CASE VmRuns(r) \/ Virsh(r) \/ Slept(r) BY <4>3, Typed DEF VmRuns, Virsh, Slept
        <4>4. CASE Register(r) \/ ReadRaises(r) \/ NoPort(r)
          BY <4>4, Typed DEF Register, ReadRaises, NoPort
        <4>5. QED BY <3>2, <4>1, <4>2, <4>3, <4>4 DEF Plain
      <3>3. CASE Speaks(r)
        <4>1. CASE VmIsDown(r) \/ VirshFails(r) BY <4>1, Typed DEF VmIsDown, VirshFails
        <4>2. CASE MarkCreated(r) BY <4>2, Typed DEF MarkCreated
        <4>3. CASE ReadText(r) \/ ReadResult(r) BY <4>3, Typed DEF ReadText, ReadResult
        <4>4. CASE StreamEnds(r) BY <4>4, Typed DEF StreamEnds
        <4>5. CASE ReportFailure(r) \/ Finish(r) BY <4>5, Typed DEF ReportFailure, Finish
        <4>6. QED BY <3>3, <4>1, <4>2, <4>3, <4>4, <4>5 DEF Speaks
      <3>4. CASE Process(r)
        <4>1. CASE Spawn(r) \/ SpawnFails(r) BY <4>1, Typed DEF Spawn, SpawnFails
        <4>2. CASE StreamRaises(r) BY <4>2, Typed DEF StreamRaises
        <4>3. CASE Abandoned(r) \/ KillSsh(r) BY <4>3, Typed DEF Abandoned, KillSsh
        <4>4. CASE ReadInit(r) \/ MarkRaises(r) BY <4>4, Typed DEF ReadInit, MarkRaises
        <4>5. QED BY <3>4, <4>1, <4>2, <4>3, <4>4 DEF Process
      <3>5. CASE Cli(r)
        BY <3>5 DEF Cli, CliInit, CliSays, CliExits, CliFails, CliUnchanged
      <3>6. QED BY <1>4, <3>1, <3>2, <3>3, <3>4, <3>5 DEF Step
    <2>3. QED BY <2>1, <2>2 DEF PortFits
  <1>5. QED BY <1>1, <1>2, <1>3, <1>4 DEF Ports

\* Taking a port: the first of the pool, which then lacks it (PortPool.acquire).
LEMMA TakenApart ==
  ASSUME TypeOK, Apart, free # <<>>, free' = Tail(free)
  PROVE  /\ Head(free) \in FreePorts /\ Head(free) \in 1..size[1]
         /\ FreePorts' = FreePorts \ {Head(free)}
         /\ \A i, j \in 1..Len(free') : free'[i] = free'[j] => i = j
  <1>1. /\ Head(free) \in 1..size[1] /\ Len(free) \in Nat \ {0}
        /\ Len(free') = Len(free) - 1 /\ Head(free) = free[1]
        /\ \A i \in 1..Len(free') : free'[i] = free[i + 1]
    BY Typed, PoolMoves
  <1>2. Head(free) \in FreePorts BY <1>1 DEF FreePorts
  <1>3. ASSUME NEW i \in 1..Len(free'), NEW j \in 1..Len(free'), free'[i] = free'[j]
        PROVE  i = j
    <2>1. i + 1 \in 1..Len(free) /\ j + 1 \in 1..Len(free) BY <1>1
    <2>2. i + 1 = j + 1 BY <1>1, <1>3, <2>1 DEF Apart
    <2>3. QED BY <1>1, <2>2
  <1>4. ASSUME NEW p \in FreePorts' PROVE p \in FreePorts \ {Head(free)}
    <2>1. PICK i \in 1..Len(free') : p = free'[i] BY <1>4 DEF FreePorts
    <2>2. i + 1 \in 1..Len(free) /\ p = free[i + 1] /\ 1 \in 1..Len(free) BY <1>1, <2>1
    <2>3. p = Head(free) => i + 1 = 1 BY <1>1, <2>2 DEF Apart
    <2>4. QED BY <1>1, <2>1, <2>2, <2>3 DEF FreePorts
  <1>5. ASSUME NEW p \in FreePorts \ {Head(free)} PROVE p \in FreePorts'
    <2>1. PICK i \in 1..Len(free) : p = free[i] BY <1>5 DEF FreePorts
    <2>2. i # 1 BY <1>1, <1>5, <2>1
    <2>3. i - 1 \in 1..Len(free') /\ free'[i - 1] = p BY <1>1, <2>1, <2>2
    <2>4. QED BY <2>3 DEF FreePorts
  <1>6. QED BY <1>1, <1>2, <1>3, <1>4, <1>5

\* Giving one back: it joins at the end (PortPool.release).
LEMMA ReturnedApart ==
  ASSUME TypeOK, Apart, NEW p \in 1..size[1], p \notin FreePorts, free' = Append(free, p)
  PROVE  /\ FreePorts' = FreePorts \cup {p}
         /\ \A i, j \in 1..Len(free') : free'[i] = free'[j] => i = j
  <1>1. /\ Len(free) \in Nat /\ Len(free') = Len(free) + 1 /\ free'[Len(free) + 1] = p
        /\ \A i \in 1..Len(free) : free'[i] = free[i]
    BY Typed, PoolMoves
  <1>2. \A i \in 1..Len(free') : i \in 1..Len(free) \/ i = Len(free) + 1 BY <1>1
  <1>3. \A i \in 1..Len(free) : free[i] # p BY DEF FreePorts
  <1>4. ASSUME NEW i \in 1..Len(free'), NEW j \in 1..Len(free'), free'[i] = free'[j]
        PROVE  i = j
    BY <1>1, <1>2, <1>3, <1>4 DEF Apart
  <1>5. ASSUME NEW q \in FreePorts' PROVE q \in FreePorts \cup {p}
    <2>1. PICK i \in 1..Len(free') : q = free'[i] BY <1>5 DEF FreePorts
    <2>2. QED BY <1>1, <1>2, <2>1 DEF FreePorts
  <1>6. ASSUME NEW q \in FreePorts \cup {p} PROVE q \in FreePorts'
    <2>1. CASE q = p
      <3>1. Len(free) + 1 \in 1..Len(free') BY <1>1
      <3>2. QED BY <1>1, <2>1, <3>1 DEF FreePorts
    <2>2. CASE q \in FreePorts
      <3>1. PICK i \in 1..Len(free) : q = free[i] BY <2>2 DEF FreePorts
      <3>2. i \in 1..Len(free') /\ q = free'[i] BY <1>1, <3>1
      <3>3. QED BY <3>2 DEF FreePorts
    <2>3. QED BY <1>6, <2>1, <2>2
  <1>7. QED BY <1>4, <1>5, <1>6

\* No step puts a port in two places.
LEMMA PortsApart ==
  ASSUME TypeOK, Apart, NEW r \in Run, Step(r), GenFits(r), PortFits(r)
  PROVE  Apart'
  <1>1. CASE TakePorts(r)
    <2>1. /\ free # <<>> /\ free' = Tail(free) /\ lost' = lost
          /\ port' = [port EXCEPT ![r] = Head(free)]
      BY <1>1 DEF TakePorts
    <2>2. /\ Head(free) \in FreePorts /\ FreePorts' = FreePorts \ {Head(free)}
          /\ \A i, j \in 1..Len(free') : free'[i] = free'[j] => i = j
      BY <2>1, TakenApart
    <2>3. port'[r] = Head(free) /\ \A s \in Run \ {r} : port'[s] = port[s] BY <2>1, Typed
    <2>4. ASSUME NEW s \in Run, port'[s] # 0
          PROVE  port'[s] \notin FreePorts' \cup lost' /\ \A q \in Run \ {s} : port'[q] # port'[s]
      <3>1. CASE s = r BY <2>1, <2>2, <2>3, <2>4, <3>1 DEF Apart
      <3>2. CASE s # r BY <2>1, <2>2, <2>3, <2>4, <3>2 DEF Apart
      <3>3. QED BY <3>1, <3>2
    <2>5. FreePorts' \cap lost' = {} BY <2>1, <2>2 DEF Apart
    <2>6. QED BY <2>2, <2>4, <2>5 DEF Apart
  <1>2. CASE NoMcpPort(r)
    <2>1. free # <<>> /\ free' = Tail(free) /\ lost' = lost \cup {Head(free)} /\ port' = port
      BY <1>2 DEF NoMcpPort
    <2>2. /\ Head(free) \in FreePorts /\ FreePorts' = FreePorts \ {Head(free)}
          /\ \A i, j \in 1..Len(free') : free'[i] = free'[j] => i = j
      BY <2>1, TakenApart
    <2>3. QED BY <2>1, <2>2 DEF Apart
  <1>3. CASE ReleasePorts(r)
    <2>1. port[r] \in 1..size[1] BY <1>3, Typed DEF ReleasePorts, Gen, PortFits, Held
    <2>2. free' = Append(free, port[r]) /\ lost' = lost /\ port' = [port EXCEPT ![r] = 0]
      BY <1>3 DEF ReleasePorts
    <2>3. port[r] \notin FreePorts BY <2>1 DEF Apart
    <2>4. /\ FreePorts' = FreePorts \cup {port[r]}
          /\ \A i, j \in 1..Len(free') : free'[i] = free'[j] => i = j
      BY <2>1, <2>2, <2>3, ReturnedApart
    <2>5. port'[r] = 0 /\ \A s \in Run \ {r} : port'[s] = port[s] BY <2>2, Typed
    <2>6. ASSUME NEW s \in Run, port'[s] # 0
          PROVE  port'[s] \notin FreePorts' \cup lost' /\ \A q \in Run \ {s} : port'[q] # port'[s]
      BY <2>1, <2>2, <2>4, <2>5, <2>6 DEF Apart
    <2>7. FreePorts' \cap lost' = {} BY <2>1, <2>2, <2>4 DEF Apart
    <2>8. QED BY <2>4, <2>6, <2>7 DEF Apart
  <1>4. CASE ~ Ports(r)
    <2>1. free' = free /\ port' = port /\ lost' = lost BY <1>4, PortsAlone DEF ports
    <2>2. QED BY <2>1 DEF Apart, FreePorts
  <1>5. QED BY <1>1, <1>2, <1>3, <1>4 DEF Ports

\* An init event is read, and then written down, or lost.
LEMMA InitStays ==
  ASSUME TypeOK, NEW r \in Run, Step(r), InitUnread(r) \/ pc[r] = "marking"
  PROVE  \/ InitUnread(r)' \/ pc'[r] = "marking"
         \/ thread[r] \in torn' \/ turns'[thread[r]] > 0
  <1> USE DEF ports, process, session, Go, Gen
  <1>1. CASE MarkCreated(r)
    <2>1. turns'[thread[r]] = turns[thread[r]] + 1 /\ turns[thread[r]] \in Nat
      BY <1>1, Typed DEF MarkCreated
    <2>2. QED BY <2>1
  <1>2. CASE MarkRaises(r) BY <1>2 DEF MarkRaises
  <1>3. CASE ReadInit(r) BY <1>3, Typed DEF ReadInit
  <1>4. CASE ~ MarkCreated(r) /\ ~ MarkRaises(r) /\ ~ ReadInit(r)
    <2>1. ASSUME pc[r] = "marking" PROVE pc' = pc
      <3>1. CASE Enter(r) \/ Ports(r) \/ Cli(r)
        BY <2>1, <3>1
        DEF Enter, Ports, TakePorts, NoMcpPort, ReleasePorts, Cli, CliInit, CliSays, CliExits,
            CliFails, CliUnchanged
      <3>2. CASE Plain(r)
        BY <2>1, <3>2
        DEF Plain, VmRuns, StartVm, Virsh, Slept, Register, ReadRaises, NoPort, LoopEnds
      <3>3. CASE Speaks(r)
        BY <1>4, <2>1, <3>3
        DEF Speaks, VmIsDown, VirshFails, ReadText, ReadResult, StreamEnds, ReportFailure,
            Finish
      <3>4. CASE Process(r)
        BY <1>4, <2>1, <3>4
        DEF Process, Spawn, SpawnFails, StreamRaises, Abandoned, KillSsh
      <3>5. QED BY <3>1, <3>2, <3>3, <3>4 DEF Step
    <2>2. ASSUME InitUnread(r) PROVE InitUnread(r)' \/ thread[r] \in torn'
      <3>1. CASE CliInit(r)
        <4>1. events'[r] = <<"init">> BY <3>1, Typed DEF CliInit
        <4>2. QED BY <4>1 DEF InitUnread
      <3>2. CASE CliSays(r)
        <4>1. PICK e \in Kinds : events'[r] = Append(events[r], e)
          BY <3>2, Typed DEF CliSays, Kinds
        <4>2. events[r] \in Seq(Kinds) /\ events[r] # <<>> BY <2>2, Typed DEF InitUnread
        <4>3. events'[r] # <<>> /\ Head(events'[r]) = Head(events[r]) BY <4>1, <4>2
        <4>4. QED BY <2>2, <4>3 DEF InitUnread
      <3>3. CASE CliFails(r) BY <2>2, <3>3 DEF CliFails
      <3>4. CASE KillSsh(r) BY <2>2, <3>4 DEF KillSsh
      <3>5. CASE ReadText(r) \/ ReadResult(r)
        BY <2>2, <3>5 DEF ReadText, ReadResult, Reads, InitUnread
      <3>6. CASE /\ ~ CliInit(r) /\ ~ CliSays(r) /\ ~ CliFails(r) /\ ~ KillSsh(r)
                 /\ ~ ReadText(r) /\ ~ ReadResult(r)
        <4>1. events' = events
          <5>1. CASE Enter(r) \/ Ports(r) \/ Cli(r)
            BY <3>6, <5>1
            DEF Enter, Ports, TakePorts, NoMcpPort, ReleasePorts, Cli, CliExits
          <5>2. CASE Plain(r)
            BY <5>2
            DEF Plain, VmRuns, StartVm, Virsh, Slept, Register, ReadRaises, NoPort, LoopEnds
          <5>3. CASE Speaks(r)
            BY <1>4, <3>6, <5>3
            DEF Speaks, VmIsDown, VirshFails, StreamEnds, ReportFailure, Finish
          <5>4. CASE Process(r)
            BY <1>4, <3>6, <5>4 DEF Process, Spawn, SpawnFails, StreamRaises, Abandoned
          <5>5. QED BY <5>1, <5>2, <5>3, <5>4 DEF Step
        <4>2. QED BY <2>2, <4>1 DEF InitUnread
      <3>7. QED BY <3>1, <3>2, <3>3, <3>4, <3>5, <3>6
    <2>3. QED BY <2>1, <2>2
  <1>5. QED BY <1>1, <1>2, <1>3, <1>4

\* No step leaves a session on disk that the store does not know.
LEMMA SessionStays ==
  ASSUME TypeOK, SessionIsKnown, NEW r \in Run, Step(r)
  PROVE  SessionIsKnown'
  <1> USE DEF ports, process, session, Go, Gen
  <1>1. /\ torn \subseteq torn'
        /\ disk' = disk \/ (CliInit(r) /\ disk' = disk \cup {thread[r]})
    <2>1. CASE Enter(r) \/ Ports(r) \/ Cli(r)
      BY <2>1
      DEF Enter, Ports, TakePorts, NoMcpPort, ReleasePorts, Cli, CliInit, CliSays, CliExits,
          CliFails
    <2>2. CASE Plain(r)
      BY <2>2
      DEF Plain, VmRuns, StartVm, Virsh, Slept, Register, ReadRaises, NoPort, LoopEnds
    <2>3. CASE Speaks(r)
      BY <2>3
      DEF Speaks, VmIsDown, VirshFails, MarkCreated, ReadText, ReadResult, StreamEnds,
          ReportFailure, Finish
    <2>4. CASE Process(r)
      BY <2>4
      DEF Process, Spawn, SpawnFails, StreamRaises, Abandoned, KillSsh, ReadInit, MarkRaises
    <2>5. QED BY <2>1, <2>2, <2>3, <2>4 DEF Step
  <1>2. ASSUME NEW t \in Thread, turns[t] > 0 PROVE turns'[t] > 0
    <2>1. CASE MarkCreated(r)
      <3>1. turns' = [turns EXCEPT ![thread[r]] = @ + 1] /\ turns[t] \in Nat
        BY <2>1, Typed DEF MarkCreated
      <3>2. turns'[t] = turns[t] \/ turns'[t] = turns[t] + 1 BY <3>1, Typed
      <3>3. QED BY <1>2, <3>1, <3>2
    <2>2. CASE ~ MarkCreated(r)
      <3>1. CASE Enter(r) \/ Ports(r) \/ Cli(r)
        BY <1>2, <3>1
        DEF Enter, Ports, TakePorts, NoMcpPort, ReleasePorts, Cli, CliInit, CliSays, CliExits,
            CliFails, CliUnchanged
      <3>2. CASE Plain(r)
        BY <1>2, <3>2
        DEF Plain, VmRuns, StartVm, Virsh, Slept, Register, ReadRaises, NoPort, LoopEnds
      <3>3. CASE Speaks(r)
        BY <1>2, <2>2, <3>3
        DEF Speaks, VmIsDown, VirshFails, ReadText, ReadResult, StreamEnds, ReportFailure,
            Finish
      <3>4. CASE Process(r)
        BY <1>2, <3>4
        DEF Process, Spawn, SpawnFails, StreamRaises, Abandoned, KillSsh, ReadInit, MarkRaises
      <3>5. QED BY <3>1, <3>2, <3>3, <3>4 DEF Step
    <2>3. QED BY <2>1, <2>2
  <1>3. thread' = thread /\ \A s \in Run \ {r} : InitUnread(s) \/ pc[s] = "marking"
                               => InitUnread(s)' \/ pc'[s] = "marking"
    <2>1. thread' = thread
      BY DEF Step, Enter, Plain, VmRuns, StartVm, Virsh, Slept, Register, ReadRaises, NoPort,
             LoopEnds, Speaks, VmIsDown, VirshFails, MarkCreated, ReadText, ReadResult,
             StreamEnds, ReportFailure, Finish, Ports, TakePorts, NoMcpPort, ReleasePorts,
             Process, Spawn, SpawnFails, StreamRaises, Abandoned, KillSsh, ReadInit,
             MarkRaises, Cli, CliInit, CliSays, CliExits, CliFails, CliUnchanged
    <2>2. QED BY <2>1, OthersAlone DEF SamePlace, InitUnread
  <1>4. ASSUME CliInit(r) PROVE InitUnread(r)'
    <2>1. events'[r] = <<"init">> BY <1>4, Typed DEF CliInit
    <2>2. QED BY <2>1 DEF InitUnread
  <1>5. SUFFICES ASSUME NEW t \in disk', t \notin torn', ~ (turns'[t] > 0)
                 PROVE  \E s \in Run : thread[s] = t /\ (InitUnread(s)' \/ pc'[s] = "marking")
    BY <1>3 DEF SessionIsKnown
  <1>6. CASE t \notin disk BY <1>1, <1>4, <1>5, <1>6
  <1>7. CASE t \in disk
    <2>1. t \in Thread /\ t \notin torn BY <1>1, <1>5, <1>7 DEF TypeOK
    <2>2. PICK s \in Run : thread[s] = t /\ (InitUnread(s) \/ pc[s] = "marking")
      BY <1>2, <1>5, <1>7, <2>1 DEF SessionIsKnown
    <2>3. CASE s = r BY <1>5, <2>2, <2>3, InitStays
    <2>4. CASE s # r BY <1>3, <2>2, <2>4
    <2>5. QED BY <2>3, <2>4
  <1>8. QED BY <1>6, <1>7

-----------------------------------------------------------------------------
(* What is shown.                                                          *)

\* A forced flush leaves nothing to show, or was refused, or found nothing to post yet.
LEMMA FlushEffect ==
  ASSUME RendererOK, NEW r \in Run, NEW t \in Texts, ForcedFlush(r, t)
  PROVE  /\ text'[r] = t
         /\ ~ dirty'[r] /\ Silent(t) => ~ posted'[r] \/ refused'[r] > 0
         /\ ~ dirty'[r] /\ t.prose > 0 => posted'[r] /\ shown'[r] = t.prose
         /\ dirty'[r] => ~ Silent(t)
         /\ dirty'[r] /\ t.prose > 0 =>
              refused'[r] > 0 /\ (refused[r] > 0 => refused'[r] = 2)
  <1>0. t.prose \in Nat /\ refused[r] \in 0..2 BY DEF Texts, RendererOK
  <1>1. CASE Retract(r, t) /\ Silent(t)
    <2>1. text'[r] = t /\ dirty'[r] = FALSE BY <1>1 DEF Retract, RendererOK
    <2>2. ~ posted'[r] \/ refused'[r] > 0
      BY <1>0, <1>1 DEF Retract, RendererOK, Another
    <2>3. t.prose = 0 BY <1>1 DEF Silent
    <2>4. QED BY <2>1, <2>2, <2>3
  <1>2. CASE Unsent(r, t) /\ ~ Silent(t) /\ t.prose = 0
    <2>1. text'[r] = t /\ dirty'[r] = TRUE BY <1>2 DEF Unsent, RendererOK
    <2>2. QED BY <1>2, <2>1
  <1>3. CASE Update(r, t) /\ ~ Silent(t)
    <2>1. CASE dirty' = [dirty EXCEPT ![r] = FALSE] /\ posted' = [posted EXCEPT ![r] = TRUE]
               /\ shown' = [shown EXCEPT ![r] = t.prose] /\ text' = [text EXCEPT ![r] = t]
      <3>1. text'[r] = t /\ dirty'[r] = FALSE /\ posted'[r] = TRUE /\ shown'[r] = t.prose
        BY <2>1 DEF RendererOK
      <3>2. QED BY <1>3, <3>1
    <2>2. CASE Unsent(r, t) /\ refused' = [refused EXCEPT ![r] = Another(@)]
      <3>1. text'[r] = t /\ dirty'[r] = TRUE BY <2>2 DEF Unsent, RendererOK
      <3>2. refused'[r] = Another(refused[r]) BY <2>2 DEF RendererOK
      <3>3. QED BY <1>0, <1>3, <3>1, <3>2 DEF Another
    <2>3. QED BY <1>3, <2>1, <2>2 DEF Update, RefusedUpdate
  <1>4. QED BY <1>1, <1>2, <1>3 DEF ForcedFlush

\* What holds of the message wherever the turn is.
Settled(r) ==
  /\ ~ dirty[r] /\ Silent(text[r]) => ~ posted[r] \/ refused[r] > 0
  /\ ~ dirty[r] /\ text[r].prose > 0 => posted[r] /\ shown[r] = text[r].prose

\* What flushing, failing and the last flush make of the message.
LEMMA SettledStays ==
  ASSUME RendererOK, NEW r \in Run, Settled(r)
  PROVE  /\ Fail(r) => Settled(r)' /\ (dirty'[r] => refused'[r] > 0) /\ text'[r].prose > 0
         /\ LastFlush(r) => Settled(r)' /\ text'[r] = text[r]
         /\ LastFlush(r) /\ dirty'[r] =>
              \/ text[r].prose = 0 /\ ~ Silent(text[r])
              \/ refused'[r] > 0 /\ (refused[r] > 0 => refused'[r] = 2)
         /\ \A t \in Texts : Flush(r, t) => Settled(r)'
         /\ UNCHANGED renderer => Settled(r)'
  <1>0. /\ Prose(r) \in Texts /\ Prose(r).prose > 0 /\ text[r] \in Texts
        /\ text[r].prose \in Nat
    BY DEF Prose, RendererOK, Texts
  <1>1. ASSUME Fail(r)
        PROVE  Settled(r)' /\ (dirty'[r] => refused'[r] > 0) /\ text'[r].prose > 0
    BY <1>0, <1>1, FlushEffect DEF Fail, Settled
  <1>2. UNCHANGED renderer => Settled(r)' BY DEF Settled, renderer
  <1>3. ASSUME LastFlush(r)
        PROVE  /\ Settled(r)' /\ text'[r] = text[r]
               /\ dirty'[r] => \/ text[r].prose = 0 /\ ~ Silent(text[r])
                               \/ refused'[r] > 0 /\ (refused[r] > 0 => refused'[r] = 2)
    <2>1. CASE dirty[r]
      <3>1. ForcedFlush(r, text[r]) BY <1>3, <2>1 DEF LastFlush
      <3>2. Settled(r)' /\ text'[r] = text[r] BY <1>0, <3>1, FlushEffect DEF Settled
      <3>3. dirty'[r] => /\ ~ Silent(text[r])
                         /\ text[r].prose > 0 =>
                              refused'[r] > 0 /\ (refused[r] > 0 => refused'[r] = 2)
        BY <1>0, <3>1, FlushEffect
      <3>4. QED BY <1>0, <3>2, <3>3
    <2>2. CASE ~ dirty[r]
      BY <1>2, <1>3, <2>2 DEF LastFlush, renderer
    <2>3. QED BY <2>1, <2>2
  <1>4. ASSUME NEW t \in Texts, Flush(r, t) PROVE Settled(r)'
    <2>1. CASE ForcedFlush(r, t) BY <2>1, FlushEffect DEF Settled
    <2>2. CASE Unsent(r, t)
      <3>1. dirty'[r] = TRUE BY <2>2 DEF Unsent, RendererOK
      <3>2. QED BY <3>1 DEF Settled
    <2>3. QED BY <1>4, <2>1, <2>2 DEF Flush
  <1>5. QED BY <1>1, <1>2, <1>3, <1>4

\* Every step keeps what is shown in step with what was said.
LEMMA ShownStays ==
  ASSUME TypeOK, NEW r \in Run, Step(r), GenFits(r), ShownFits(r)
  PROVE  ShownFits(r)'
  <1> USE DEF ports, process, session, Go, Gen
  <1>0. RendererOK /\ text[r].prose \in Nat BY Typed DEF RendererOK, Texts
  <1>a. Settled(r) BY DEF ShownFits, Settled
  <1>b. Nothing.prose = 0 /\ ~ Silent(Nothing) BY DEF Nothing, Silent
  <1>1. CASE Enter(r)
    <2>1. text' = text /\ dirty' = dirty /\ text[r] = Nothing /\ pc'[r] = "checking"
      BY <1>1, Typed DEF Enter, ShownFits
    <2>2. QED BY <1>b, <2>1 DEF ShownFits
  <1>2. CASE Plain(r)
    <2>1. UNCHANGED renderer /\ gen' = gen
      BY <1>2
      DEF Plain, VmRuns, StartVm, Virsh, Slept, Register, ReadRaises, NoPort, LoopEnds
    <2>2. Settled(r)' BY <1>0, <1>a, <2>1, SettledStays
    <2>3. CASE LoopEnds(r)
      BY <2>1, <2>2, <2>3, Typed DEF LoopEnds, renderer, ShownFits, Settled
    <2>4. CASE ~ LoopEnds(r)
      <3>1. pc'[r] \notin {"new", "running", "finishing", "done"}
        <4>1. CASE StartVm(r) BY <4>1, Typed DEF StartVm, Verb
        <4>2. QED
          BY <1>2, <2>4, <4>1, Typed
          DEF Plain, VmRuns, Virsh, Slept, Register, ReadRaises, NoPort
      <3>2. QED BY <2>2, <3>1 DEF ShownFits, Settled
    <2>5. QED BY <2>3, <2>4
  <1>3. CASE Speaks(r)
    <2>1. CASE VmIsDown(r) \/ VirshFails(r)
      <3>1. Settled(r)' BY <1>0, <1>a, <2>1, SettledStays DEF VmIsDown, VirshFails
      <3>2. pc'[r] \in {"starting", "given up"} BY <2>1, Typed DEF VmIsDown, VirshFails
      <3>3. QED BY <3>1, <3>2 DEF ShownFits, Settled
    <2>2. CASE MarkCreated(r)
      <3>1. Settled(r)' BY <1>0, <1>a, <2>2, SettledStays DEF MarkCreated
      <3>2. pc'[r] = "running" /\ gen'[r] = "open" BY <2>2, Typed DEF MarkCreated, GenFits
      <3>3. QED BY <3>1, <3>2 DEF ShownFits, Settled
    <2>3. CASE ReadText(r)
      <3>1. \E t \in {Prose(r), [text[r] EXCEPT !.marker = TRUE]} : Flush(r, t)
        BY <2>3 DEF ReadText
      <3>2. Prose(r) \in Texts /\ [text[r] EXCEPT !.marker = TRUE] \in Texts
        <4>1. Prose(r) \in Texts BY <1>0, RendererType
        <4>2. [text[r] EXCEPT !.marker = TRUE] \in Texts
          <5>1. text[r] \in Texts BY <1>0 DEF RendererOK
          <5>2. QED BY <5>1 DEF Texts
        <4>3. QED BY <4>1, <4>2
      <3>3. Settled(r)' BY <1>0, <1>a, <3>1, <3>2, SettledStays
      <3>4. pc'[r] = "running" /\ gen'[r] = "open" BY <2>3 DEF ReadText, Reads
      <3>5. QED BY <3>3, <3>4 DEF ShownFits, Settled
    <2>4. CASE ReadResult(r)
      <3>1. Fail(r) \/ ForcedFlush(r, text[r]) BY <2>4 DEF ReadResult
      <3>2. text[r] \in Texts BY <1>0 DEF RendererOK
      <3>3. Settled(r)' BY <1>0, <1>a, <3>1, <3>2, SettledStays DEF Flush
      <3>4. pc'[r] = "running" /\ gen'[r] = "open" BY <2>4 DEF ReadResult, Reads
      <3>5. QED BY <3>3, <3>4 DEF ShownFits, Settled
    <2>5. CASE StreamEnds(r)
      <3>1. Fail(r) \/ LastFlush(r) BY <2>5 DEF StreamEnds
      <3>2. Settled(r)' /\ (dirty'[r] => refused'[r] > 0 \/ text'[r].prose = 0)
        BY <1>0, <1>a, <3>1, SettledStays
      <3>3. pc'[r] = "running" BY <2>5 DEF StreamEnds
      <3>4. QED BY <3>2, <3>3 DEF ShownFits, Settled
    <2>6. CASE ReportFailure(r)
      <3>1. Settled(r)' /\ (dirty'[r] => refused'[r] > 0)
        BY <1>0, <1>a, <2>6, SettledStays DEF ReportFailure
      <3>2. pc'[r] = "finishing" BY <2>6, Typed DEF ReportFailure
      <3>3. QED BY <3>1, <3>2 DEF ShownFits, Settled
    <2>7. CASE Finish(r)
      <3>1. pc[r] = "finishing" /\ pc'[r] = "done" /\ LastFlush(r)
        BY <2>7, Typed DEF Finish
      <3>2. /\ Settled(r)' /\ text'[r] = text[r]
            /\ dirty'[r] => \/ text[r].prose = 0 /\ ~ Silent(text[r])
                            \/ refused'[r] > 0 /\ (refused[r] > 0 => refused'[r] = 2)
        BY <1>0, <1>a, <3>1, SettledStays
      <3>3. CASE ~ dirty'[r] BY <3>1, <3>2, <3>3 DEF ShownFits, Settled
      <3>4. CASE dirty'[r] /\ text[r].prose = 0 /\ ~ Silent(text[r])
        BY <3>1, <3>2, <3>4 DEF ShownFits, Settled
      <3>5. CASE dirty'[r] /\ refused'[r] > 0 /\ (refused[r] > 0 => refused'[r] = 2)
        <4>1. dirty[r] BY <3>1, <3>5 DEF LastFlush, renderer
        <4>2. refused[r] > 0 \/ text[r].prose = 0 BY <3>1, <4>1 DEF ShownFits
        <4>3. text'[r].prose > 0 => refused'[r] = 2 BY <3>2, <3>5, <4>2
        <4>4. QED BY <3>1, <3>2, <3>5, <4>3 DEF ShownFits, Settled
      <3>6. QED BY <3>2, <3>3, <3>4, <3>5
    <2>8. QED BY <1>3, <2>1, <2>2, <2>3, <2>4, <2>5, <2>6, <2>7 DEF Speaks
  <1>4. CASE Ports(r)
    <2>1. UNCHANGED renderer BY <1>4 DEF Ports, TakePorts, NoMcpPort, ReleasePorts
    <2>2. \/ pc'[r] \in {"spawning", "failing"}
          \/ pc' = pc /\ gen[r] # "open" /\ gen'[r] # "open"
      BY <1>4, Typed DEF Ports, TakePorts, NoMcpPort, ReleasePorts
    <2>3. Settled(r)' BY <1>0, <1>a, <2>1, SettledStays
    <2>4. QED BY <2>1, <2>2, <2>3 DEF ShownFits, Settled, renderer
  <1>5. CASE Process(r)
    <2>1. UNCHANGED renderer
      BY <1>5
      DEF Process, Spawn, SpawnFails, StreamRaises, Abandoned, KillSsh, ReadInit, MarkRaises
    <2>2. \/ pc'[r] \in {"raised", "marking", "failing"}
          \/ pc'[r] = "running" /\ gen'[r] = "open"
          \/ pc' = pc /\ (gen[r] # "open" \/ pc[r] # "running")
      <3>1. CASE Spawn(r) \/ SpawnFails(r) \/ StreamRaises(r)
        BY <3>1, Typed DEF Spawn, SpawnFails, StreamRaises
      <3>2. CASE Abandoned(r) \/ KillSsh(r) BY <3>2, Typed DEF Abandoned, KillSsh
      <3>3. CASE ReadInit(r) \/ MarkRaises(r) BY <3>3, Typed DEF ReadInit, MarkRaises
      <3>4. QED BY <1>5, <3>1, <3>2, <3>3 DEF Process
    <2>3. Settled(r)' BY <1>0, <1>a, <2>1, SettledStays
    <2>4. QED BY <2>1, <2>2, <2>3 DEF ShownFits, Settled, renderer
  <1>6. CASE Cli(r)
    BY <1>6
    DEF Cli, CliInit, CliSays, CliExits, CliFails, CliUnchanged, ShownFits, renderer
  <1>7. QED BY <1>1, <1>2, <1>3, <1>4, <1>5, <1>6 DEF Step

-----------------------------------------------------------------------------
(* The invariant holds for good.                                           *)

\* A step of one run keeps the invariant of another,
LEMMA OthersStay ==
  ASSUME TypeOK, NEW r \in Run, NEW s \in Run \ {r}, Step(r), RunInv(s)
  PROVE  RunInv(s)'
  <1>1. SamePlace(s) /\ SameText(s) BY OthersAlone
  <1>2. GenFits(s)' BY <1>1 DEF RunInv, GenFits, SamePlace, SshAlive
  <1>3. PortFits(s)' BY <1>1 DEF RunInv, PortFits, SamePlace, Held
  <1>4. TokenFits(s)' BY <1>1 DEF RunInv, TokenFits, SamePlace
  <1>5. VerbFits(s)' BY VerbsFit DEF RunInv
  <1>6. ShownFits(s)' BY <1>1 DEF RunInv, ShownFits, SamePlace, SameText
  <1>7. QED BY <1>2, <1>3, <1>4, <1>5, <1>6 DEF RunInv

\* and hence of all.
LEMMA StepStays ==
  ASSUME LifeInv, NEW r \in Run, Step(r)
  PROVE  Apart' /\ SessionIsKnown' /\ \A s \in Run : RunInv(s)'
  <1>1. TypeOK /\ Apart /\ SessionIsKnown /\ \A s \in Run : RunInv(s) BY DEF LifeInv
  <1>2. RunInv(r)'
    BY <1>1, Moves, PortsFit, TokensFit, VerbsFit, ShownStays DEF RunInv
  <1>3. Apart' BY <1>1, PortsApart DEF RunInv
  <1>4. SessionIsKnown' BY <1>1, SessionStays
  <1>5. QED BY <1>1, <1>2, <1>3, <1>4, OthersStay

\* The domain moves on its own.
LEMMA VmStays ==
  ASSUME LifeInv, VmMoves
  PROVE  Apart' /\ SessionIsKnown' /\ \A s \in Run : RunInv(s)'
  <1> USE DEF LifeInv, ports, process, session, renderer
  <1>1. Apart' BY DEF VmMoves, Apart, FreePorts
  <1>2. SessionIsKnown' BY DEF VmMoves, SessionIsKnown, InitUnread
  <1>3. ASSUME NEW s \in Run PROVE RunInv(s)'
    <2>1. GenFits(s)' BY DEF VmMoves, RunInv, GenFits, SshAlive
    <2>2. PortFits(s)' BY DEF VmMoves, RunInv, PortFits, Held
    <2>3. TokenFits(s)' BY DEF VmMoves, RunInv, TokenFits
    <2>4. VerbFits(s)' BY DEF VmMoves, RunInv, VerbFits
    <2>5. ShownFits(s)' BY DEF VmMoves, RunInv, ShownFits
    <2>6. QED BY <2>1, <2>2, <2>3, <2>4, <2>5 DEF RunInv
  <1>4. QED BY <1>1, <1>2, <1>3

\* A restart starts the pools and the tokens afresh.
LEMMA RestartStays ==
  ASSUME LifeInv, Restart
  PROVE  Apart' /\ SessionIsKnown' /\ \A s \in Run : RunInv(s)'
  <1>0. TypeOK BY DEF LifeInv
  <1>1. Apart'
    <2>1. size[1] \in Nat BY <1>0, Typed
    <2>2. free' = Pool(size[1]) /\ lost' = {} /\ \A r \in Run : port'[r] = 0
      BY DEF Restart
    <2>3. \A i, j \in 1..Len(free') : free'[i] = free'[j] => i = j
      BY ZenonT(40), <2>1, <2>2, PoolType
    <2>4. QED BY <2>2, <2>3 DEF Apart
  <1>2. SessionIsKnown'
    <2>1. /\ disk' = disk /\ turns' = turns
          /\ torn' = torn \cup {thread[r] : r \in {s \in Run : InitUnread(s) \/ pc[s] = "marking"}}
      BY DEF Restart
    <2>2. QED BY <2>1 DEF LifeInv, SessionIsKnown
  <1>3. ASSUME NEW s \in Run PROVE RunInv(s)'
    <2>1. /\ pc'[s] = IF pc[s] \in InTurn THEN "killed" ELSE pc[s]
          /\ gen'[s] = "none" /\ port'[s] = 0 /\ mcpPort'[s] = 0 /\ tokens' = {}
          /\ cli'[s] \in {"none", "failed"} /\ UNCHANGED renderer
      BY <1>0, Typed DEF Restart
    <2>2. pc'[s] \in {"new", "killed", "done", "given up", "crashed"}
      BY <1>0, <2>1, Typed DEF Places, Over
    <2>3. GenFits(s)' BY <2>1, <2>2 DEF GenFits, SshAlive
    <2>4. PortFits(s)' BY <2>1, <2>2 DEF PortFits, Held
    <2>5. TokenFits(s)' BY <2>1, <2>2 DEF TokenFits
    <2>6. VerbFits(s)' BY <2>2 DEF VerbFits
    <2>7. ShownFits(s)'
      <3>1. ShownFits(s) BY DEF LifeInv, RunInv
      <3>2. pc'[s] \in {"new", "done"} => pc[s] = pc'[s] BY <2>1
      <3>3. QED BY <2>1, <2>2, <3>1, <3>2 DEF ShownFits, renderer
    <2>8. QED BY <2>3, <2>4, <2>5, <2>6, <2>7 DEF RunInv
  <1>4. QED BY <1>1, <1>2, <1>3

\* Every step keeps the invariant.
LEMMA LifeStep ==
  ASSUME LifeInv, [Next]_vars
  PROVE  LifeInv'
  <1>1. CASE Next
    <2>1. TypeOK' BY <1>1, TypeNext
    <2>2. VmMoves \/ Restart \/ \E r \in Run : Step(r) BY <1>1, Steps DEF Step
    <2>3. QED BY <2>1, <2>2, StepStays, VmStays, RestartStays DEF LifeInv
  <1>2. CASE UNCHANGED vars
    <2> USE DEF LifeInv, vars, ports, process, session, renderer
    <2>1. TypeOK' BY <1>2 DEF TypeOK
    <2>2. Apart' BY <1>2 DEF Apart, FreePorts
    <2>3. SessionIsKnown' BY <1>2 DEF SessionIsKnown, InitUnread
    <2>4. ASSUME NEW s \in Run PROVE RunInv(s)'
      BY <1>2
      DEF RunInv, GenFits, SshAlive, PortFits, Held, TokenFits, VerbFits, ShownFits
    <2>5. QED BY <2>1, <2>2, <2>3, <2>4
  <1>3. QED BY <1>1, <1>2

\* The inductive invariant of the runs holds in every reachable state.
THEOREM Inductive == Spec => []LifeInv
  <1>1. Init => LifeInv BY LifeInit
  <1>2. LifeInv /\ [Next]_vars => LifeInv' BY LifeStep
  <1>3. QED BY <1>1, <1>2, PTL DEF Spec

\* Every variable keeps its type.
THEOREM TypeCorrect == Spec => []TypeOK
  <1>1. LifeInv => TypeOK BY DEF LifeInv
  <1>2. QED BY <1>1, Inductive, PTL

\* The port of a live ssh is in no other hands: it is given back after the process is gone,
\* and a pool hands out what nobody holds (PortPool, bridge.run).
THEOREM TunnelOwned == Spec => []TunnelIsItsOwn
  <1>1. LifeInv => TunnelIsItsOwn
    BY DEF LifeInv, RunInv, GenFits, PortFits, Held, Apart, TunnelIsItsOwn
  <1>2. QED BY <1>1, Inductive, PTL

\* register_run comes before ssh, the finally after it (_run_turn_inner).
THEOREM TokenMatches == Spec => []TokenFollowsRun
  <1>1. LifeInv => TokenFollowsRun
    BY DEF LifeInv, RunInv, TokenFits, TokenFollowsRun, InTurn
  <1>2. QED BY <1>1, Inductive, PTL

\* A session on disk is known to the store, or its init was lost (mark_session_created).
THEOREM SessionKnown == Spec => []SessionIsKnown
  <1>1. LifeInv => SessionIsKnown BY DEF LifeInv
  <1>2. QED BY <1>1, Inductive, PTL

\* What a run said is shown at its end, unless Slack refused twice (SlackRenderer.flush).
THEOREM AnswerShown == Spec => []AnswerIsShown
  <1>1. LifeInv => AnswerIsShown BY DEF LifeInv, RunInv, ShownFits, AnswerIsShown
  <1>2. QED BY <1>1, Inductive, PTL

\* Silence leaves no message, unless Slack refused to delete it (SlackRenderer._retract).
THEOREM SilenceKept == Spec => []SilenceIsKept
  <1>1. LifeInv => SilenceIsKept BY DEF LifeInv, RunInv, ShownFits, SilenceIsKept
  <1>2. QED BY <1>1, Inductive, PTL

\* A turn gives up on a domain that is down, or that another turn brought up in between
\* (VmControl.start).
THEOREM GivesUpWhenDown == Spec => GivenUpMeansDown
  <1>1. ASSUME LifeInv, [Next]_vars, NEW r \in Run, pc[r] # "given up", pc'[r] = "given up"
        PROVE  Domstate # "up" \/ r \in beaten
    <2> USE DEF Go, ports, process, session, renderer
    <2>1. TypeOK /\ VerbFits(r) BY <1>1 DEF LifeInv, RunInv
    <2>2. CASE VmMoves \/ UNCHANGED vars BY <1>1, <2>2 DEF VmMoves, vars
    <2>3. CASE Restart BY <1>1, <2>1, <2>3, Typed DEF Restart
    <2>4. CASE \E q \in Run : Step(q)
      <3>1. PICK q \in Run : Step(q) BY <2>4
      <3>2. q = r BY <1>1, <2>1, <3>1, OthersAlone DEF SamePlace
      <3>3. CASE VirshFails(r)
        <4>1. pc[r] \in {"virsh start", "virsh resume"} BY <3>3 DEF VirshFails
        <4>2. QED BY <2>1, <4>1 DEF VerbFits, Domstate
      <3>4. CASE ~ VirshFails(r)
        <4>1. CASE StartVm(r) BY <1>1, <2>1, <4>1, Typed DEF StartVm, Verb
        <4>2. CASE ~ StartVm(r)
          BY <1>1, <2>1, <3>1, <3>2, <3>4, <4>2, Typed
          DEF Step, Enter, Plain, VmRuns, Virsh, Slept, Register, ReadRaises, NoPort, LoopEnds,
              Speaks, VmIsDown, MarkCreated, ReadText, ReadResult, StreamEnds,
              ReportFailure, Finish, Ports, TakePorts, NoMcpPort, ReleasePorts, Process, Spawn,
              SpawnFails, StreamRaises, Abandoned, KillSsh, ReadInit, MarkRaises, Cli, CliInit,
              CliSays, CliExits, CliFails, CliUnchanged
        <4>3. QED BY <4>1, <4>2
      <3>5. QED BY <3>3, <3>4
    <2>5. QED BY <1>1, <2>2, <2>3, <2>4, Steps DEF Step
  <1>2. LifeInv /\ [Next]_vars =>
          \A r \in Run : pc[r] # "given up" /\ pc'[r] = "given up"
            => Domstate # "up" \/ r \in beaten
    BY <1>1
  <1>3. QED BY <1>2, Inductive, PTL DEF Spec, GivenUpMeansDown

-----------------------------------------------------------------------------
(* The pool of approval ports is never short of one.                       *)

Holders == {r \in Run : port[r] # 0}
HeldPorts == {port[r] : r \in Run} \ {0}

Whole ==
  /\ IsFiniteSet(lost)
  /\ Len(free) + Cardinality(Holders) + Cardinality(lost) = size[1]
  /\ FreePorts \cup lost \cup HeldPorts = 1..size[1]

\* It is stronger than what PortsAreWhole asks.
LEMMA WholeIsWhole == Whole => PortsAreWhole
  <1>1. UNION {Holds(r) : r \in Run} = HeldPorts BY DEF Holds, HeldPorts
  <1>2. QED BY <1>1 DEF Whole, PortsAreWhole, Holders

\* One port goes from the pool to a run, or is lost; one comes back.
LEMMA WholeStep ==
  ASSUME LifeInv, Whole, NEW r \in Run, Step(r)
  PROVE  Whole'
  <1>0. /\ TypeOK /\ Apart /\ GenFits(r) /\ PortFits(r)
        /\ size[1] \in Nat /\ Len(free) \in Nat
    BY Typed DEF LifeInv, RunInv
  <1>1. /\ IsFiniteSet(Holders) /\ Cardinality(Holders) \in Nat
        /\ IsFiniteSet(lost) /\ Cardinality(lost) \in Nat
        /\ Len(free) + Cardinality(Holders) + Cardinality(lost) = size[1]
        /\ FreePorts \cup lost \cup HeldPorts = 1..size[1]
    <2>1. IsFiniteSet(Holders) BY FS_Subset DEF Holders
    <2>2. QED BY <2>1, FS_CardinalityType DEF Whole
  <1>2. CASE TakePorts(r)
    <2>1. /\ free # <<>> /\ free' = Tail(free) /\ lost' = lost /\ size' = size
          /\ port' = [port EXCEPT ![r] = Head(free)] /\ pc[r] = "reading"
      BY <1>2 DEF TakePorts, Go
    <2>2. /\ Head(free) \in 1..size[1] /\ FreePorts' = FreePorts \ {Head(free)}
          /\ Head(free) \in FreePorts /\ Len(free') = Len(free) - 1
      BY <1>0, <2>1, Typed, TakenApart, PoolMoves
    <2>3. port[r] = 0 BY <1>0, <2>1 DEF PortFits, Held, GenFits
    <2>4. port'[r] = Head(free) /\ \A s \in Run \ {r} : port'[s] = port[s]
      BY <1>0, <2>1, Typed
    <2>5. Holders' = Holders \cup {r} /\ r \notin Holders
      BY <2>2, <2>3, <2>4 DEF Holders
    <2>6. Cardinality(Holders') = Cardinality(Holders) + 1
      BY <1>1, <2>5, FS_AddElement
    <2>7. HeldPorts' = HeldPorts \cup {Head(free)}
      BY <2>2, <2>3, <2>4 DEF HeldPorts
    <2>8. FreePorts' \cup lost' \cup HeldPorts' = 1..size'[1]
      BY <1>1, <2>1, <2>2, <2>7
    <2>9. Len(free') + Cardinality(Holders') + Cardinality(lost') = size'[1]
      BY <1>0, <1>1, <2>1, <2>2, <2>6
    <2>10. QED BY <1>1, <2>1, <2>8, <2>9 DEF Whole
  <1>3. CASE NoMcpPort(r)
    <2>1. /\ free # <<>> /\ free' = Tail(free) /\ size' = size
          /\ lost' = lost \cup {Head(free)} /\ port' = port
      BY <1>3 DEF NoMcpPort
    <2>2. /\ Head(free) \in 1..size[1] /\ FreePorts' = FreePorts \ {Head(free)}
          /\ Head(free) \in FreePorts /\ Len(free') = Len(free) - 1
      BY <1>0, <2>1, Typed, TakenApart, PoolMoves
    <2>3. Head(free) \notin lost BY <1>0, <2>2 DEF Apart
    <2>4. IsFiniteSet(lost') /\ Cardinality(lost') = Cardinality(lost) + 1
      BY <1>1, <2>1, <2>3, FS_AddElement
    <2>5. Holders' = Holders /\ HeldPorts' = HeldPorts BY <2>1 DEF Holders, HeldPorts
    <2>6. FreePorts' \cup lost' \cup HeldPorts' = 1..size'[1]
      BY <1>1, <2>1, <2>2, <2>5
    <2>7. Len(free') + Cardinality(Holders') + Cardinality(lost') = size'[1]
      BY <1>0, <1>1, <2>1, <2>2, <2>4, <2>5
    <2>8. QED BY <2>4, <2>6, <2>7 DEF Whole
  <1>4. CASE ReleasePorts(r)
    <2>1. port[r] \in 1..size[1] BY <1>0, <1>4, Typed DEF ReleasePorts, Gen, PortFits, Held
    <2>2. /\ free' = Append(free, port[r]) /\ lost' = lost /\ size' = size
          /\ port' = [port EXCEPT ![r] = 0]
      BY <1>4 DEF ReleasePorts
    <2>3. port[r] \notin FreePorts BY <1>0, <2>1 DEF Apart
    <2>a. FreePorts' = FreePorts \cup {port[r]}
      BY <1>0, <2>1, <2>2, <2>3, ReturnedApart
    <2>b. Len(free') = Len(free) + 1 BY <1>0, <2>1, <2>2, Typed, PoolMoves
    <2>4. FreePorts' = FreePorts \cup {port[r]} /\ Len(free') = Len(free) + 1
      BY <2>a, <2>b
    <2>5. port'[r] = 0 /\ \A s \in Run \ {r} : port'[s] = port[s] BY <1>0, <2>2, Typed
    <2>6. Holders' = Holders \ {r} /\ r \in Holders BY <2>1, <2>5 DEF Holders
    <2>7. Cardinality(Holders') = Cardinality(Holders) - 1
      BY <1>1, <2>6, FS_RemoveElement
    <2>8. HeldPorts = HeldPorts' \cup {port[r]} BY <2>1, <2>5 DEF HeldPorts
    <2>9. FreePorts' \cup lost' \cup HeldPorts' = 1..size'[1]
      BY <1>1, <2>2, <2>4, <2>8
    <2>10. Len(free') + Cardinality(Holders') + Cardinality(lost') = size'[1]
      BY <1>0, <1>1, <2>2, <2>4, <2>7
    <2>11. QED BY <1>1, <2>2, <2>9, <2>10 DEF Whole
  <1>5. CASE ~ Ports(r)
    <2>1. UNCHANGED ports BY <1>5, PortsAlone
    <2>2. QED BY <2>1 DEF ports, Whole, FreePorts, Holders, HeldPorts
  <1>6. QED BY <1>2, <1>3, <1>4, <1>5 DEF Ports

\* A pool that is full is whole.
LEMMA WholePool ==
  ASSUME size[1] \in Nat, free = Pool(size[1]), port = [r \in Run |-> 0], lost = {}
  PROVE  Whole
  <1>1. Len(free) = size[1] /\ \A i \in 1..size[1] : free[i] = i BY PoolType
  <1>2. Holders = {} /\ HeldPorts = {} BY DEF Holders, HeldPorts
  <1>3. FreePorts = 1..size[1] BY <1>1 DEF FreePorts
  <1>4. IsFiniteSet({}) /\ Cardinality({}) = 0 BY FS_EmptySet
  <1>5. QED BY <1>1, <1>2, <1>3, <1>4 DEF Whole

\* A pool that starts afresh is whole.
LEMMA WholePoolNext ==
  ASSUME size'[1] \in Nat, free' = Pool(size'[1]), port' = [r \in Run |-> 0], lost' = {}
  PROVE  Whole'
  <1>1. Len(free') = size'[1] /\ \A i \in 1..size'[1] : free'[i] = i BY PoolType
  <1>2. Holders' = {} /\ HeldPorts' = {} BY DEF Holders, HeldPorts
  <1>3. FreePorts' = 1..size'[1] BY <1>1 DEF FreePorts
  <1>4. IsFiniteSet({}) /\ Cardinality({}) = 0 BY FS_EmptySet
  <1>5. QED BY <1>1, <1>2, <1>3, <1>4 DEF Whole

\* Every approval port is free, held by one run, or lost to an empty MCP pool (PortPool,
\* bridge.run).
THEOREM PortsWhole == Spec => []PortsAreWhole
  <1>1. Init => Whole
    <2> SUFFICES ASSUME Init PROVE Whole
      OBVIOUS
    <2>1. /\ size[1] \in Nat /\ free = Pool(size[1]) /\ port = [r \in Run |-> 0]
          /\ lost = {}
      BY DEF Init
    <2>2. QED BY <2>1, WholePool
  <1>2. ASSUME LifeInv, Whole, [Next]_vars PROVE Whole'
    <2>1. CASE VmMoves \/ UNCHANGED vars
      BY <1>2, <2>1 DEF VmMoves, vars, ports, Whole, FreePorts, Holders, HeldPorts
    <2>2. CASE Restart
      <3>1. /\ size'[1] \in Nat /\ free' = Pool(size'[1]) /\ port' = [r \in Run |-> 0]
            /\ lost' = {}
        BY <1>2, <2>2, Typed DEF Restart, LifeInv
      <3>2. QED BY <3>1, WholePoolNext
    <2>3. CASE \E r \in Run : Step(r) BY <1>2, <2>3, WholeStep
    <2>4. QED BY <1>2, <2>1, <2>2, <2>3, Steps DEF Step
  <1>3. QED BY <1>1, <1>2, WholeIsWhole, Inductive, PTL DEF Spec
=============================================================================
