--------------------------- MODULE RayionClientProofs ---------------------------
(***************************************************************************)
(* Proofs about RayionClient: what main shares with its threads is there    *)
(* when they use it, for every limit of the heartbeat timer, every media    *)
(* port and every combination of calls that fail.                           *)
(***************************************************************************)
EXTENDS RayionClient, TLAPS

(* A thread exists only from the place of main where it is created.         *)
ThreadInv ==
  /\ mainPc \notin {"rtpPara", "rtpThread", "spin"} => rtspPc = "none"
  /\ mainPc # "spin" => rtpPc = "none"

(* What main has acquired and filled in when it comes to each place: from   *)
(* the connection on, the socket is connected and Winsock in use; after the *)
(* destructor, neither.                                                     *)
FrameInv ==
  /\ mainPc \in {"parse", "connect"} /\ sk = "open" => wsa = 1
  /\ mainPc \notin {"startup", "socket", "parse", "return", "exit", "returned"}
       => uriInfo = "parsed"
  /\ mainPc \in {"rtspPara", "rtspThread", "rtpPara", "rtpThread", "spin"}
       => sk = "connected" /\ wsa = 1
  /\ mainPc \in {"rtspThread", "rtpPara", "rtpThread", "spin"}
       => rtspPara = "connected"
  /\ mainPc \in {"rtpThread", "spin"} => rtpPara = "parsed"
  /\ mainPc \in {"exit", "returned"} => sk = "closed" /\ wsa = 0

(* The exchange: with the connected socket, one request after the other.    *)
ExchangeInv ==
  /\ rtspPc \in {"none", "entry"} => request = 0
  /\ rtspPc = "play" => request < PLAY
  /\ rtspPc = "answer" => request \in OPTION .. PLAY
  /\ rtspPc \in {"play", "answer"} => rtspMsg = "connected"

IInv == TypeOK /\ ThreadInv /\ FrameInv /\ ExchangeInv

USE ClientAssumption DEF OPTION, DESCRIBE, SETUP, PLAY, GET_PARAMETER

LEMMA InitInvariant == Init => IInv
  BY DEF Init, IInv, TypeOK, MainPcs, ThreadInv, FrameInv, ExchangeInv

LEMMA NextTypes == IInv /\ [Next]_vars => TypeOK'
<1> SUFFICES ASSUME IInv, [Next]_vars PROVE TypeOK'
  OBVIOUS
<1> USE DEF IInv, TypeOK, MainPcs, mainVars, rtspVars, rtpVars
<1>1. CASE Startup BY <1>1 DEF Startup
<1>2. CASE OpenSocket BY <1>2 DEF OpenSocket
<1>3. CASE InitURIInfo BY <1>3 DEF InitURIInfo
<1>4. CASE ConnectServer BY <1>4 DEF ConnectServer
<1>5. CASE FillRtspPara
  BY <1>5 DEF FillRtspPara, FrameInv
<1>6. CASE CreateRtspThread BY <1>6 DEF CreateRtspThread
<1>7. CASE FillRtpPara BY <1>7 DEF FillRtpPara
<1>8. CASE CreateRtpThread BY <1>8 DEF CreateRtpThread
<1>9. CASE DestroyFrame BY <1>9 DEF DestroyFrame
<1>10. CASE ProcessExit BY <1>10 DEF ProcessExit
<1>11. CASE InitRTSPmsg BY <1>11 DEF InitRTSPmsg
<1>12. CASE SendRequest BY <1>12 DEF SendRequest, ExchangeInv
<1>13. CASE SendFails BY <1>13 DEF SendFails
<1>14. CASE Answered BY <1>14 DEF Answered
<1>15. CASE AnswerFails BY <1>15 DEF AnswerFails
<1>16. CASE HeartBeatTimer BY <1>16 DEF HeartBeatTimer
<1>17. CASE StartRtpHandler BY <1>17 DEF StartRtpHandler
<1>18. CASE UNCHANGED vars BY <1>18 DEF vars
<1> QED
  BY <1>1, <1>2, <1>3, <1>4, <1>5, <1>6, <1>7, <1>8, <1>9, <1>10, <1>11, <1>12,
     <1>13, <1>14, <1>15, <1>16, <1>17, <1>18
     DEF Next, MainNext, RtspSteps, ServerSteps

(* main creates each thread on its way, and destroys its frame only where   *)
(* there is none.                                                           *)
LEMMA NextThreads == IInv /\ [Next]_vars => ThreadInv'
<1> SUFFICES ASSUME IInv, [Next]_vars PROVE ThreadInv'
  OBVIOUS
<1> USE DEF IInv, ThreadInv, mainVars, rtspVars, rtpVars
<1>1. CASE MainNext
  BY <1>1 DEF MainNext, Startup, OpenSocket, InitURIInfo, ConnectServer,
     FillRtspPara, CreateRtspThread, FillRtpPara, CreateRtpThread, DestroyFrame,
     ProcessExit
<1>2. CASE RtspSteps \/ ServerSteps
  BY <1>2 DEF RtspSteps, ServerSteps, InitRTSPmsg, SendRequest, SendFails,
     Answered, AnswerFails, HeartBeatTimer
<1>3. CASE StartRtpHandler
  BY <1>3 DEF StartRtpHandler
<1>4. CASE UNCHANGED vars
  BY <1>4 DEF vars
<1> QED
  BY <1>1, <1>2, <1>3, <1>4 DEF Next

LEMMA NextFrame == IInv /\ [Next]_vars => FrameInv'
<1> SUFFICES ASSUME IInv, [Next]_vars PROVE FrameInv'
  OBVIOUS
<1> USE DEF IInv, TypeOK, MainPcs, FrameInv, mainVars
<1>1. CASE Startup BY <1>1 DEF Startup
<1>2. CASE OpenSocket BY <1>2 DEF OpenSocket
<1>3. CASE InitURIInfo BY <1>3 DEF InitURIInfo
<1>4. CASE ConnectServer BY <1>4 DEF ConnectServer
<1>5. CASE FillRtspPara BY <1>5 DEF FillRtspPara
<1>6. CASE CreateRtspThread BY <1>6 DEF CreateRtspThread
<1>7. CASE FillRtpPara BY <1>7 DEF FillRtpPara
<1>8. CASE CreateRtpThread BY <1>8 DEF CreateRtpThread
<1>9. CASE DestroyFrame BY <1>9 DEF DestroyFrame
<1>10. CASE ProcessExit BY <1>10 DEF ProcessExit
<1>11. CASE RtspSteps \/ ServerSteps \/ StartRtpHandler
  BY <1>11 DEF RtspSteps, ServerSteps, InitRTSPmsg, SendRequest, SendFails,
     Answered, AnswerFails, HeartBeatTimer, StartRtpHandler
<1>12. CASE UNCHANGED vars BY <1>12 DEF vars
<1> QED
  BY <1>1, <1>2, <1>3, <1>4, <1>5, <1>6, <1>7, <1>8, <1>9, <1>10, <1>11, <1>12
     DEF Next, MainNext

LEMMA NextExchange == IInv /\ [Next]_vars => ExchangeInv'
<1> SUFFICES ASSUME IInv, [Next]_vars PROVE ExchangeInv'
  OBVIOUS
<1> USE DEF IInv, TypeOK, ExchangeInv, rtspVars
<1>1. CASE MainNext
  BY <1>1 DEF MainNext, Startup, OpenSocket, InitURIInfo, ConnectServer,
     FillRtspPara, CreateRtspThread, FillRtpPara, CreateRtpThread, DestroyFrame,
     ProcessExit, ThreadInv
<1>2. CASE InitRTSPmsg
  BY <1>2 DEF InitRTSPmsg, ThreadInv, FrameInv
<1>3. CASE SendRequest BY <1>3 DEF SendRequest
<1>4. CASE SendFails BY <1>4 DEF SendFails
<1>5. CASE Answered BY <1>5 DEF Answered
<1>6. CASE AnswerFails BY <1>6 DEF AnswerFails
<1>7. CASE HeartBeatTimer BY <1>7 DEF HeartBeatTimer
<1>8. CASE StartRtpHandler BY <1>8 DEF StartRtpHandler
<1>9. CASE UNCHANGED vars BY <1>9 DEF vars
<1> QED
  BY <1>1, <1>2, <1>3, <1>4, <1>5, <1>6, <1>7, <1>8, <1>9
     DEF Next, RtspSteps, ServerSteps

(* The inductive invariant holds in every state.                            *)
THEOREM ClientInvariance == Spec => []IInv
<1>1. IInv /\ [Next]_vars => IInv'
  BY NextTypes, NextThreads, NextFrame, NextExchange DEF IInv
<1> QED
  BY <1>1, InitInvariant, PTL DEF Spec

(* The state keeps its types.                                               *)
THEOREM ClientTypes == Spec => []TypeOK
<1>1. IInv => TypeOK
  BY DEF IInv
<1> QED
  BY <1>1, ClientInvariance, PTL

(* Each thread finds its parameter object filled in, in a frame of main     *)
(* that still exists (RayionClient.cpp:62-76).                              *)
THEOREM ThreadsFindTheirParameters == Spec => []ParamsValid
<1>1. IInv => ParamsValid
  BY DEF IInv, TypeOK, ThreadInv, FrameInv, ParamsValid
<1> QED
  BY <1>1, ClientInvariance, PTL

(* The exchange with the server has the connected socket to itself, and     *)
(* main neither closes it nor leaves Winsock (WinSock.cpp:12-17).           *)
THEOREM SocketOutlivesExchange == Spec => []SocketUsable
<1>1. IInv => SocketUsable
  BY DEF IInv, ThreadInv, FrameInv, ExchangeInv, SocketUsable
<1> QED
  BY <1>1, ClientInvariance, PTL

(* A process that ends has given everything back and created no thread      *)
(* (RayionClient.cpp:49-53).                                                *)
THEOREM EndIsClean == Spec => []CleanExit
<1>1. IInv => CleanExit
  BY DEF IInv, ThreadInv, FrameInv, CleanExit
<1> QED
  BY <1>1, ClientInvariance, PTL
=============================================================================
