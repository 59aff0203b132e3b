-------------------------- MODULE Lifecycle_proofs --------------------------
(***************************************************************************)
(* The life of the program, for every command line, every width of an      *)
(* address and every number of frames and failing reads: what the          *)
(* constructor has achieved can be read off the place where it is, and a   *)
(* listener exists only where all of it has been achieved.                 *)
(***************************************************************************)
EXTENDS Lifecycle, TLAPS

\* The places of the main thread at which the constructor holds a socket, has
\* built nothing yet, is done with the device, has set the route, has built
\* every layer, and at which the listener may exist.
WithSocket == {"set_flags", "get_address", "set_address", "route"}

Unbuilt == {"main", "open", "attach", "init_socket", "set_flags", "get_address",
            "set_address", "route_socket", "route", "L2", "failed"}

DeviceReady == {"route_socket", "route", "L2", "set_callback", "L3", "L4", "start",
                "sleep", "delete_thread"}

Routed == {"L2", "set_callback", "L3", "L4", "start", "sleep", "delete_thread"}

Built == {"start", "sleep", "delete_thread"}

Listens == {"sleep", "delete_thread"}

Places == Unbuilt \cup DeviceReady

\* What main's place says of the device ...
DeviceInv ==
    /\ pc \in {"main", "open"} => device = {}
    /\ pc = "attach" => device = {"tap"}
    /\ pc \in {"init_socket", "set_flags"} => device = {"tap", "attached"}
    /\ pc = "get_address" => device = {"tap", "attached", "up"}
    /\ pc = "set_address" => device = {"tap", "attached", "up", "hwaddr"}
    /\ pc \in DeviceReady => device = {"tap", "attached", "up", "hwaddr", "mac"}

\* ... of the layers built and the callback ...
BuiltInv ==
    /\ pc \in Unbuilt => built = {}
    /\ pc = "set_callback" => built = {"L2"}
    /\ pc = "L3" => built = {"L2", "callback"}
    /\ pc = "L4" => built = {"L2", "callback", "L3"}
    /\ pc \in Built => built = {"L2", "callback", "L3", "L4"}

\* ... of the sockets ...
SocketInv ==
    /\ pc \in WithSocket => sockets = 1
    /\ pc \in Places \ WithSocket => sockets = 0

\* ... and of the route: it was taken by the kernel, and is the subnet.
RouteInv ==
    pc \in Routed =>
        /\ routes = {a \in SUBSET Bits : Contains(a)}
        /\ args.network \in routes

\* How a process that has ended did so.
EndInv ==
    /\ process \in {"running", "usage", "terminated", "crashed"}
    /\ process = "usage" => pc = "main"
    /\ process = "terminated" => pc \in {"failed", "delete_thread"}
    /\ process = "crashed" => listener = "handling" /\ (~readOk \/ buffer \in Unchecked)

\* The listener exists only where the constructor has finished; what it has
\* read was handed on, but for the frame in its buffer.
ListenerInv ==
    /\ listener # "none" => pc \in Listens
    /\ taken \in Nat
    /\ \A f \in 1 .. taken : f \in handled \/ (listener = "handling" /\ f = buffer)

LifecycleInv ==
    /\ pc \in Places /\ args \in Arguments
    /\ DeviceInv /\ BuiltInv /\ RouteInv /\ SocketInv
    /\ EndInv /\ ListenerInv

-----------------------------------------------------------------------------
\* The kernel takes a route only if contains() means the same by the subnet:
\* then the addresses routed are those that DNet takes for its subnet's, and
\* the network is one of them.
LEMMA RouteIsSubnet ==
  ASSUME args \in Arguments, KernelTakesRoute
  PROVE  /\ {a \in SUBSET Bits : \A b \in args.mask : b \in a <=> b \in args.network}
              = {a \in SUBSET Bits : Contains(a)}
         /\ args.network \in {a \in SUBSET Bits : Contains(a)}
  <1>1. args.network \subseteq args.mask /\ args.network \subseteq Bits
    BY LifecycleAssumption DEF KernelTakesRoute
  <1>2. ASSUME NEW a \in SUBSET Bits
        PROVE  (\A b \in args.mask : b \in a <=> b \in args.network) <=> Contains(a)
    BY <1>1 DEF Contains
  <1>3. Contains(args.network)
    BY <1>1 DEF Contains
  <1> QED
    BY <1>1, <1>2, <1>3

\* Nothing has been done when main is called.
LEMMA InitEstablishes ==
  ASSUME Init
  PROVE  LifecycleInv
  <1> USE DEF Places, Unbuilt, Listens, Built, Routed, DeviceReady, WithSocket
  <1>1. DeviceInv /\ BuiltInv
    BY DEF Init, DeviceInv, BuiltInv
  <1>2. RouteInv /\ SocketInv
    BY DEF Init, RouteInv, SocketInv
  <1>3. EndInv /\ ListenerInv
    BY DEF Init, EndInv, ListenerInv
  <1> QED
    BY <1>1, <1>2, <1>3 DEF Init, LifecycleInv

\* A step that leaves the arguments and the route alone, and reaches no place
\* behind the route from one before it, keeps what is known of the route.
LEMMA RouteKept ==
  ASSUME RouteInv, UNCHANGED <<args, routes>>, pc' \in Routed => pc \in Routed
  PROVE  RouteInv'
  BY DEF RouteInv, Contains

\* An error path that closes the socket keeps the invariant, wherever the
\* constructor has one open.
LEMMA FailureCloses ==
  ASSUME LifecycleInv, NEW place \in WithSocket, FailsClosing(place)
  PROVE  LifecycleInv'
  <1> USE DEF Places, Unbuilt, Listens, Built, Routed, DeviceReady, WithSocket, Main
  <1>1. pc = place /\ pc' = "failed" /\ sockets' = 1 - 1
    BY DEF FailsClosing, LifecycleInv, SocketInv
  <1>2. UNCHANGED <<process, args, device, routes, built, thread>>
    BY DEF FailsClosing
  <1>3. DeviceInv' /\ RouteInv'
    BY <1>1 DEF DeviceInv, RouteInv
  <1>4. BuiltInv' /\ SocketInv'
    <2>1. pc \in Unbuilt
      BY <1>1
    <2>2. built = {}
      BY <2>1 DEF LifecycleInv, BuiltInv
    <2>3. BuiltInv'
      BY <1>1, <1>2, <2>2 DEF BuiltInv
    <2>4. sockets' = 0
      BY <1>1
    <2>5. SocketInv'
      BY <1>1, <2>4 DEF SocketInv
    <2> QED
      BY <2>3, <2>5
  <1>5. EndInv' /\ ListenerInv'
    BY <1>1, <1>2 DEF LifecycleInv, EndInv, ListenerInv, thread
  <1> QED
    BY <1>1, <1>2, <1>3, <1>4, <1>5 DEF LifecycleInv, thread

\* The steps of the constructor up to the route keep the invariant.
LEMMA SetUpPreserves ==
  ASSUME LifecycleInv, ParseArguments \/ InitDev \/ OpenSocket("route_socket", "route")
  PROVE  LifecycleInv'
  <1> USE DEF Places, Unbuilt, Listens, Built, Routed, DeviceReady, WithSocket, Main,
              DeviceInv, BuiltInv, SocketInv, EndInv, ListenerInv,
              setUp, thread
  <1>1. CASE ParseArguments
    BY <1>1, RouteKept DEF ParseArguments, LifecycleInv
  <1>2. CASE Open
    BY <1>2, RouteKept DEF Open, Achieves, LifecycleInv
  <1>3. CASE Attach
    BY <1>3, RouteKept DEF Attach, Achieves, LifecycleInv
  <1>4. CASE OpenSocket("init_socket", "set_flags")
    BY <1>4, RouteKept DEF OpenSocket, LifecycleInv
  <1>5. CASE SetFlags
    BY <1>5, RouteKept, FailureCloses DEF SetFlags, Achieves, LifecycleInv
  <1>6. CASE GetAddress
    BY <1>6, RouteKept, FailureCloses DEF GetAddress, Achieves, LifecycleInv
  <1>7. CASE SetAddress
    BY <1>7, RouteKept, FailureCloses DEF SetAddress, LifecycleInv
  <1>8. CASE OpenSocket("route_socket", "route")
    BY <1>8, RouteKept DEF OpenSocket, LifecycleInv
  <1> QED
    BY <1>1, <1>2, <1>3, <1>4, <1>5, <1>6, <1>7, <1>8 DEF InitDev

\* Setting the route keeps the invariant: the constructor goes on only with a
\* route that is the subnet.
LEMMA AddRoutePreserves ==
  ASSUME LifecycleInv, AddRoute
  PROVE  LifecycleInv'
  <1>1. CASE FailsClosing("route")
    BY <1>1, FailureCloses DEF WithSocket
  <1>2. CASE ~FailsClosing("route")
    <2> USE DEF Places, Unbuilt, Listens, Built, Routed, DeviceReady, WithSocket, Main
    <2>1. /\ KernelTakesRoute /\ pc = "route" /\ pc' = "L2" /\ sockets' = sockets - 1
          /\ UNCHANGED <<process, args, device, built, thread>>
          /\ routes' = {a \in SUBSET Bits : \A b \in args.mask : b \in a <=> b \in args.network}
      BY <1>2 DEF AddRoute
    <2>2. routes' = {a \in SUBSET Bits : Contains(a)} /\ args.network \in routes'
      BY <2>1, RouteIsSubnet DEF LifecycleInv
    <2>3. RouteInv'
      BY <2>1, <2>2 DEF RouteInv, Contains
    <2>4. DeviceInv' /\ BuiltInv' /\ SocketInv'
      BY <2>1 DEF LifecycleInv, DeviceInv, BuiltInv, SocketInv
    <2>5. EndInv' /\ ListenerInv'
      BY <2>1 DEF LifecycleInv, EndInv, ListenerInv, thread
    <2> QED
      BY <2>1, <2>3, <2>4, <2>5 DEF LifecycleInv, thread
  <1> QED
    BY <1>1, <1>2

\* The rest of the constructor, and stop_listen, keep the invariant.
LEMMA BuildingPreserves ==
  ASSUME LifecycleInv,
         Throw \/ BuildStack \/ StartListen \/ StopListen \/ DeleteThread
  PROVE  LifecycleInv'
  <1> USE DEF Places, Unbuilt, Listens, Built, Routed, DeviceReady, WithSocket, Main,
              DeviceInv, BuiltInv, SocketInv, EndInv, ListenerInv,
              setUp, thread
  <1>1. CASE Throw
    BY <1>1, RouteKept DEF Throw, LifecycleInv
  <1>2. CASE BuildStack
    BY <1>2, RouteKept DEF BuildStack, Builds, LifecycleInv
  <1>3. CASE StartListen
    BY <1>3, RouteKept DEF StartListen, LifecycleInv
  <1>4. CASE StopListen
    BY <1>4, RouteKept DEF StopListen, LifecycleInv
  <1>5. CASE DeleteThread
    BY <1>5, RouteKept DEF DeleteThread, LifecycleInv
  <1> QED
    BY <1>1, <1>2, <1>3, <1>4, <1>5

\* While the main thread stays where it is, only the end of the process and
\* the listener can change.
LEMMA MainStays ==
  ASSUME LifecycleInv, UNCHANGED <<pc, setUp>>, EndInv', ListenerInv'
  PROVE  LifecycleInv'
  <1>1. pc' = pc /\ args' = args /\ device' = device /\ sockets' = sockets
        /\ routes' = routes /\ built' = built
    BY DEF setUp
  <1>2. DeviceInv' /\ BuiltInv' /\ SocketInv'
    BY <1>1 DEF LifecycleInv, DeviceInv, BuiltInv, SocketInv
  <1>3. RouteInv'
    BY <1>1, RouteKept DEF LifecycleInv
  <1> QED
    BY <1>1, <1>2, <1>3 DEF LifecycleInv

\* The listener's steps, and frames that arrive, keep the invariant: the next
\* frame is read only when the last one has been handed on, and only a buffer
\* that was not read, or a frame that is not checked, ends the process.
LEMMA ListenerPreserves ==
  ASSUME LifecycleInv, DoListen \/ Arrive \/ UNCHANGED vars
  PROVE  LifecycleInv'
  <1>1. EndInv /\ ListenerInv
    BY DEF LifecycleInv
  <1>2. UNCHANGED <<pc, setUp>>
    BY DEF DoListen, TestFlag, ReadFrame, ReadFails, Handle, HandleUndefined, Arrive, vars
  <1>3. EndInv' /\ ListenerInv'
    <2> USE <1>1 DEF EndInv, ListenerInv, Listener
    <2>1. CASE TestFlag
      BY <2>1 DEF TestFlag
    <2>2. CASE ReadFrame
      BY <2>2 DEF ReadFrame
    <2>3. CASE ReadFails
      BY <2>3 DEF ReadFails
    <2>4. CASE Handle
      BY <2>4 DEF Handle
    <2>5. CASE HandleUndefined
      BY <2>5 DEF HandleUndefined, thread
    <2>6. CASE Arrive
      BY <2>6 DEF Arrive, thread
    <2>7. CASE UNCHANGED vars
      BY <2>7 DEF vars, thread
    <2> QED
      BY <2>1, <2>2, <2>3, <2>4, <2>5, <2>6, <2>7 DEF DoListen
  <1> QED
    BY <1>2, <1>3, MainStays

\* What the place of the main thread says of the device, the layers, the
\* sockets and the route holds throughout the program's life.
THEOREM LifecycleInvariant == Spec => []LifecycleInv
  <1>1. LifecycleInv /\ [Next]_vars => LifecycleInv'
    BY SetUpPreserves, AddRoutePreserves, BuildingPreserves, ListenerPreserves
    DEF Next, Construct
  <1> QED
    BY InitEstablishes, <1>1, PTL DEF Spec

\* No frame meets half a stack: the listener is started last (DNet.cpp:74).
THEOREM WholeStack == Spec => []StackIsWhole
  <1>1. LifecycleInv => StackIsWhole
    BY DEF LifecycleInv, ListenerInv, DeviceInv, BuiltInv, StackIsWhole, Listens, Built,
           Routed, DeviceReady
  <1> QED
    BY LifecycleInvariant, <1>1, PTL

\* A DNet that listens takes for its subnet exactly what the kernel routes to
\* it, whatever the network and the mask on the command line.
THEOREM SubnetRouted == Spec => []SubnetIsRouted
  <1>1. LifecycleInv => SubnetIsRouted
    BY DEF LifecycleInv, ListenerInv, RouteInv, SubnetIsRouted, Listens, Built, Routed
  <1> QED
    BY LifecycleInvariant, <1>1, PTL

\* No sequence of failing calls of init_dev and add_route leaves a socket open.
THEOREM SocketsClosed == Spec => []SocketsAreClosed
  <1>1. LifecycleInv => SocketsAreClosed
    BY DEF LifecycleInv, SocketInv, SocketsAreClosed, Places, Unbuilt, DeviceReady, WithSocket
  <1> QED
    BY LifecycleInvariant, <1>1, PTL

\* A frame costs at most itself: the ones read before it have reached the
\* layers, and a listening program ends only over a buffer that no read filled
\* or a frame that no layer checks, or in stop_listen.
THEOREM FramesCostThemselves == Spec => []FrameCostsItself
  <1>1. LifecycleInv => FrameCostsItself
    BY DEF LifecycleInv, ListenerInv, EndInv, FrameCostsItself, Listens
  <1> QED
    BY LifecycleInvariant, <1>1, PTL
=============================================================================
