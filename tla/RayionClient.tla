----------------------------- MODULE RayionClient -----------------------------
(***************************************************************************)
(* The client program: the main thread, the RTSP control thread and the RTP *)
(* thread, what they share (two parameter objects on main's stack, one TCP  *)
(* socket, the Winsock library), and the RTSP exchange with the server.     *)
(*                                                                          *)
(* The receive loop of the RTP thread has a module of its own, RTPHandler;  *)
(* here it is one place of that thread.  RTSPmsg.cpp is not part of the     *)
(* repository: play is modelled from RTSPmsg.h, from the message numbers of *)
(* stdafx.h and from its one use.                                           *)
(***************************************************************************)
EXTENDS Integers

CONSTANTS
  TimerLimit,   (* passes of the control loop between two heartbeats       *)
  RTPAddress,   (* the media port the RTP thread is given                  *)
  NULL          (* a field or a variable that has not been assigned        *)

ASSUME ClientAssumption ==
  /\ TimerLimit \in Nat
  /\ NULL \notin {"invalid", "open", "connected", "closed", "parsed"}

(* The requests of RTSPmessage that play sends, in the order it sends them. *)
OPTION   == 1
DESCRIBE == 2
SETUP    == 3
PLAY     == 4
GET_PARAMETER == 5   (* what a heartbeat would send                         *)

VARIABLES
  mainPc,    (* where the main thread is                                   *)
  wsa,       (* successful WSAStartup calls not yet undone by WSACleanup   *)
  sk,        (* the TCP socket: NULL, invalid, open, connected or closed   *)
  uriInfo,   (* what ParseURI filled in: NULL or parsed                    *)
  rtspPara,  (* main's parameter object for the RTSP control thread        *)
  rtpPara,   (* main's parameter object for the RTP thread                 *)
  rtspPc,    (* where the RTSP control thread is                           *)
  rtspMsg,   (* the control thread's RTSPmsg: the socket it was given      *)
  request,   (* the last request sent to the server, 0 before the first    *)
  timer,     (* the control loop's heartbeat timer                         *)
  rtpPc,     (* where the RTP thread is                                    *)
  rtpPort    (* the port base the RTP session was created with             *)

vars == <<mainPc, wsa, sk, uriInfo, rtspPara, rtpPara, rtspPc, rtspMsg,
          request, timer, rtpPc, rtpPort>>
mainVars == <<mainPc, wsa, sk, uriInfo, rtspPara, rtpPara>>
rtspVars == <<rtspPc, rtspMsg, request, timer>>
rtpVars  == <<rtpPc, rtpPort>>

MainPcs == {"startup", "socket", "parse", "connect", "rtspPara", "rtspThread",
            "rtpPara", "rtpThread", "spin", "return", "exit", "returned"}

TypeOK ==
  /\ mainPc \in MainPcs
  /\ wsa \in 0 .. 1
  /\ sk \in {NULL, "invalid", "open", "connected", "closed"}
  /\ uriInfo \in {NULL, "parsed"}
  /\ rtspPara \in {NULL, "invalid", "open", "connected"}
  /\ rtpPara \in {NULL, "parsed"}
  /\ rtspPc \in {"none", "entry", "play", "answer", "beat", "ended"}
  /\ rtspMsg \in {NULL, "invalid", "open", "connected"}
  /\ request \in 0 .. GET_PARAMETER
  /\ timer \in 0 .. TimerLimit
  /\ rtpPc \in {"none", "entry", "receive"}
  /\ rtpPort \in {NULL, RTPAddress}

(* A thread runs while the process exists: until main returns.              *)
ProcessAlive == mainPc # "returned"

-----------------------------------------------------------------------------
(* The main thread.                                                         *)

(* The result of WSAStartup is not looked at.                               *)
Startup ==
  /\ mainPc = "startup"
  /\ wsa' \in 0 .. 1
  /\ mainPc' = "socket"
  /\ UNCHANGED <<sk, uriInfo, rtspPara, rtpPara, rtspVars, rtpVars>>

(* The constructor of Socket, which does not look at the result either;     *)
(* without Winsock there is no socket.                                      *)
OpenSocket ==
  /\ mainPc = "socket"
  /\ \/ wsa = 1 /\ sk' = "open"
     \/ sk' = "invalid"
  /\ mainPc' = "parse"
  /\ UNCHANGED <<wsa, uriInfo, rtspPara, rtpPara, rtspVars, rtpVars>>

(* initURIInfo and initWinsock.  argv[1] has just been overwritten with a   *)
(* well-formed URI, so parsing fills everything in; its result is ignored.  *)
InitURIInfo ==
  /\ mainPc = "parse"
  /\ uriInfo' = "parsed"
  /\ mainPc' = "connect"
  /\ UNCHANGED <<wsa, sk, rtspPara, rtpPara, rtspVars, rtpVars>>

ConnectServer ==
  /\ mainPc = "connect"
  /\ \/ /\ sk = "open"
        /\ sk' = "connected"
        /\ mainPc' = "rtspPara"
     \/ /\ mainPc' = "return"
        /\ UNCHANGED sk
  /\ UNCHANGED <<wsa, uriInfo, rtspPara, rtpPara, rtspVars, rtpVars>>

(* Mutant: the control thread is created before its parameters are filled.  *)
FillRtspParaLate ==
  /\ mainPc = "rtspPara"
  /\ mainPc' = "rtspThread"
  /\ UNCHANGED <<wsa, sk, uriInfo, rtspPara, rtpPara, rtspVars, rtpVars>>

(* The whole object is assigned before the thread that reads it exists.     *)
FillRtspPara ==
  /\ mainPc = "rtspPara"
  /\ rtspPara' = sk
  /\ mainPc' = "rtspThread"
  /\ UNCHANGED <<wsa, sk, uriInfo, rtpPara, rtspVars, rtpVars>>

(* CreateThread may fail: its result is not looked at.                      *)
CreateRtspThread ==
  /\ mainPc = "rtspThread"
  /\ rtspPc' \in {"none", "entry"}
  /\ mainPc' = "rtpPara"
  /\ UNCHANGED <<wsa, sk, uriInfo, rtspPara, rtpPara, rtspMsg, request, timer,
                 rtpVars>>

FillRtpPara ==
  /\ mainPc = "rtpPara"
  /\ rtpPara' = uriInfo
  /\ mainPc' = "rtpThread"
  /\ UNCHANGED <<wsa, sk, uriInfo, rtspPara, rtspVars, rtpVars>>

(* Mutant: main does not stay alive for its threads, as without while (1).  *)
CreateRtpThreadAndReturn ==
  /\ mainPc = "rtpThread"
  /\ rtpPc' \in {"none", "entry"}
  /\ mainPc' = "return"
  /\ UNCHANGED <<wsa, sk, uriInfo, rtspPara, rtpPara, rtspVars, rtpPort>>

(* After this main is in while (1) for good, and with it its stack frame    *)
(* and the destructor of sk.                                                *)
CreateRtpThread ==
  /\ mainPc = "rtpThread"
  /\ rtpPc' \in {"none", "entry"}
  /\ mainPc' = "spin"
  /\ UNCHANGED <<wsa, sk, uriInfo, rtspPara, rtpPara, rtspVars, rtpPort>>

(* Mutant: the destructor closes the socket and forgets the library.        *)
DestroyWithoutCleanup ==
  /\ mainPc = "return"
  /\ sk' = "closed"
  /\ rtspPara' = NULL
  /\ rtpPara' = NULL
  /\ mainPc' = "exit"
  /\ UNCHANGED <<wsa, uriInfo, rtspVars, rtpVars>>

(* return 0: main's frame goes away; ~Socket shuts the socket down, closes  *)
(* it and undoes WSAStartup.  Threads would run on until the process ends.  *)
DestroyFrame ==
  /\ mainPc = "return"
  /\ sk' = "closed"
  /\ wsa' = 0
  /\ rtspPara' = NULL
  /\ rtpPara' = NULL
  /\ mainPc' = "exit"
  /\ UNCHANGED <<uriInfo, rtspVars, rtpVars>>

ProcessExit ==
  /\ mainPc = "exit"
  /\ mainPc' = "returned"
  /\ UNCHANGED <<wsa, sk, uriInfo, rtspPara, rtpPara, rtspVars, rtpVars>>

-----------------------------------------------------------------------------
(* The RTSP control thread.                                                 *)

(* initRTSPmsg copies what it needs out of main's stack frame.              *)
InitRTSPmsg ==
  /\ ProcessAlive
  /\ rtspPc = "entry"
  /\ rtspMsg' = rtspPara
  /\ rtspPc' = "play"
  /\ UNCHANGED <<mainVars, request, timer, rtpVars>>

(* play sends the next request and waits for the answer in recv.            *)
SendRequest ==
  /\ ProcessAlive
  /\ rtspPc = "play"
  /\ rtspMsg = "connected"
  /\ request' = request + 1
  /\ rtspPc' = "answer"
  /\ UNCHANGED <<mainVars, rtspMsg, timer, rtpVars>>

(* The request cannot be sent.  play returns at once, the control thread    *)
(* reports the error and ends; the others go on.                            *)
SendFails ==
  /\ ProcessAlive
  /\ rtspPc = "play"
  /\ rtspPc' = "ended"
  /\ UNCHANGED <<mainVars, rtspMsg, request, timer, rtpVars>>

(* The server answers with 200.                                             *)
Answered ==
  /\ ProcessAlive
  /\ rtspPc = "answer"
  /\ rtspPc' = IF request = PLAY THEN "beat" ELSE "play"
  /\ UNCHANGED <<mainVars, rtspMsg, request, timer, rtpVars>>

(* It answers with something else, or closes the connection.                *)
AnswerFails ==
  /\ ProcessAlive
  /\ rtspPc = "answer"
  /\ rtspPc' = "ended"
  /\ UNCHANGED <<mainVars, rtspMsg, request, timer, rtpVars>>

(* Mutant: the timer is not reset when it reaches its limit.                *)
HeartBeatTimerStuck ==
  /\ ProcessAlive
  /\ rtspPc = "beat"
  /\ timer' = IF timer + 1 > TimerLimit THEN timer ELSE timer + 1
  /\ UNCHANGED <<mainVars, rtspPc, rtspMsg, request, rtpVars>>

(* Mutant: one pass too many before the timer is reset.                     *)
HeartBeatTimerLate ==
  /\ ProcessAlive
  /\ rtspPc = "beat"
  /\ timer' = IF timer > TimerLimit THEN 0 ELSE timer + 1
  /\ UNCHANGED <<mainVars, rtspPc, rtspMsg, request, rtpVars>>

(* One pass of the control loop.  When the timer is due it is reset, and    *)
(* nothing else: the call of HeartBeat is commented out, so nothing is sent.*)
HeartBeatTimer ==
  /\ ProcessAlive
  /\ rtspPc = "beat"
  /\ timer' = IF timer + 1 > TimerLimit THEN 0 ELSE timer + 1
  /\ UNCHANGED <<mainVars, rtspPc, rtspMsg, request, rtpVars>>

-----------------------------------------------------------------------------
(* The RTP thread: initRTPHandler, then recvPackets, which never returns.   *)
StartRtpHandler ==
  /\ ProcessAlive
  /\ rtpPc = "entry"
  /\ rtpPort' = IF rtpPara = NULL THEN NULL ELSE RTPAddress
  /\ rtpPc' = "receive"
  /\ UNCHANGED <<mainVars, rtspVars>>

-----------------------------------------------------------------------------
Init ==
  /\ mainPc = "startup"
  /\ wsa = 0
  /\ sk = NULL
  /\ uriInfo = NULL
  /\ rtspPara = NULL
  /\ rtpPara = NULL
  /\ rtspPc = "none"
  /\ rtspMsg = NULL
  /\ request = 0
  /\ timer = 0
  /\ rtpPc = "none"
  /\ rtpPort = NULL

MainNext ==
  \/ Startup
  \/ OpenSocket
  \/ InitURIInfo
  \/ ConnectServer
  \/ FillRtspPara
  \/ CreateRtspThread
  \/ FillRtpPara
  \/ CreateRtpThread
  \/ DestroyFrame
  \/ ProcessExit

(* What the control thread does by itself, and what it waits for.           *)
RtspSteps == InitRTSPmsg \/ SendRequest \/ SendFails \/ HeartBeatTimer

ServerSteps == Answered \/ AnswerFails

Next == MainNext \/ RtspSteps \/ ServerSteps \/ StartRtpHandler

(* Every thread that exists is scheduled; connect ends by its own timeout,  *)
(* and a request fits into the buffers of the connection, so that send does *)
(* not wait.  The server owes no answer, and the socket has no timeout for  *)
(* receiving: nothing is assumed of ServerSteps.                            *)
Fairness == WF_vars(MainNext) /\ WF_vars(RtspSteps) /\ WF_vars(StartRtpHandler)

Spec == Init /\ [][Next]_vars

FairSpec == Spec /\ Fairness

-----------------------------------------------------------------------------
(* A thread reads its parameter object through a pointer into main's stack  *)
(* frame at some time after it was created: the frame is still there then,  *)
(* and the object has been filled in.                                       *)
ParamsValid ==
  /\ rtspPc = "entry" => rtspPara # NULL
  /\ rtpPc = "entry" => rtpPara # NULL

(* While the control thread talks to the server, the socket it copied is    *)
(* the one main connected, and main has neither closed it nor left Winsock. *)
SocketUsable ==
  rtspPc \in {"play", "answer"} =>
    rtspMsg = "connected" /\ sk = "connected" /\ wsa = 1

(* When the process ends it has given the socket and the library back, and  *)
(* no thread was ever created that could still use them.                    *)
CleanExit ==
  mainPc = "returned" =>
    sk = "closed" /\ wsa = 0 /\ rtspPc = "none" /\ rtpPc = "none"

(* A thread that was created gets to its work, each without the other: the  *)
(* RTP thread reaches its receive loop also when the exchange of the        *)
(* control thread failed or waits for the server for ever; the control      *)
(* thread is never stuck but in waiting for the server, and once the server *)
(* has answered every request it is in the control loop.                    *)
StartedThreadsRun ==
  /\ rtpPc = "entry" ~> rtpPc = "receive"
  /\ rtspPc \in {"entry", "play"} ~> rtspPc \in {"answer", "ended"}
  /\ []<>(rtspPc # "answer") => (rtspPc = "entry" ~> rtspPc \in {"beat", "ended"})

(* In the control loop the point where a heartbeat is due comes again and   *)
(* again.                                                                   *)
HeartBeatDueRecurs == rtspPc = "beat" /\ timer # 0 ~> timer = 0

(* RayionClient.h calls rtspControl the thread of "message exchange and     *)
(* heartbeat", and RTSPmsg.h says the heartbeat keeps the connection: once  *)
(* the media plays, a heartbeat is sent.                                    *)
HeartBeatSent == rtspPc = "beat" ~> request = GET_PARAMETER
=============================================================================
