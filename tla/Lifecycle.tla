----------------------------- MODULE Lifecycle -----------------------------
(***************************************************************************)
(* The life of the program: main builds a DNet, whose constructor sets the *)
(* TAP device up (driver::init_dev, add_route), builds the layers and      *)
(* starts the thread that reads frames (do_listen), and then sleeps.       *)
(* Every system call may fail.  An exception of the constructor is caught  *)
(* by nobody and ends the process; one of a frame's handler is caught by   *)
(* the listener.                                                           *)
(*                                                                         *)
(* Addresses and masks are sets of bits, so that a & m is their            *)
(* intersection.  A frame is its number in the order of arrival, and what  *)
(* the layers do with it is the subject of the other modules: here they    *)
(* return or they throw.  But no layer compares the size of a frame with   *)
(* that of the headers it takes off (L3.cpp:56, L3.cpp:64, UDP.cpp:49,     *)
(* TCP.cpp:82), and DNS copies what it gets into arrays of 512 octets      *)
(* (DNS.cpp:25, DNS.cpp:60, DNS.cpp:76): with a frame that is too short or *)
(* too long for them the process may end.  Where it does not, the model    *)
(* lets the listener go on as after any other frame.                       *)
(*                                                                         *)
(* The DNet object is a local of main's if block and its life ends there   *)
(* while the listener goes on using it; the build leaves its storage alone *)
(* until main returns, which it never does, so the end of that block is no *)
(* step of the model.                                                      *)
(***************************************************************************)
EXTENDS Integers, FiniteSets

CONSTANTS
    Width,         \* bits of an address, 32 in the program
    Arguments,     \* command lines: [count, wellformed, network, mask]
    Refused,       \* frames whose handler throws
    Unchecked,     \* frames with sizes that no layer checks
    MaxFrames,     \* bound: frames that arrive
    MaxErrors      \* bound: reads that fail

Bits == 0 .. Width - 1

Frames == 1 .. MaxFrames

ASSUME LifecycleAssumption ==
    /\ Width \in Nat \ {0} /\ MaxFrames \in Nat /\ MaxErrors \in Nat
    /\ Refused \subseteq Frames /\ Unchecked \subseteq Frames
    /\ \A a \in Arguments : /\ a.count \in Nat /\ a.wellformed \in BOOLEAN
                            /\ a.network \subseteq Bits /\ a.mask \subseteq Bits

VARIABLES
    pc,            \* where the main thread is
    process,       \* "running", or how it ended
    args,          \* the command line
    device,        \* what init_dev has achieved
    sockets,       \* sockets open for ioctl calls
    routes,        \* addresses the kernel routes to the TAP device
    built,         \* layers built, and the callback set
    flag,          \* do_listen_flag
    listener,      \* where the listener thread is
    buffer,        \* the frame in do_listen's buffer, or Junk
    readOk,        \* whether the last read succeeded
    arrived,       \* frames the TAP device has had for DNet
    taken,         \* frames read from it
    handled,       \* frames the layers have seen
    errors         \* reads that failed

setUp == <<args, device, sockets, routes, built>>
thread == <<flag, listener, buffer, readOk, taken, handled, errors>>

vars == <<pc, process, setUp, thread, arrived>>

Junk == 0

Init ==
    /\ pc = "main" /\ process = "running"
    /\ args \in Arguments
    /\ device = {} /\ sockets = 0 /\ routes = {} /\ built = {}
    /\ flag = FALSE /\ listener = "none"
    /\ buffer = Junk /\ readOk = FALSE
    /\ arrived = 0 /\ taken = 0 /\ handled = {} /\ errors = 0

Main(place) == process = "running" /\ pc = place

-----------------------------------------------------------------------------
\* main, and the constructor up to the driver: a wrong number of arguments
\* prints the usage; a malformed one throws, in stoul or in parse_string.
ParseArguments ==
    /\ Main("main")
    /\ \/ args.count # 6 /\ process' = "usage" /\ UNCHANGED pc
       \/ args.count = 6 /\ ~args.wellformed /\ pc' = "failed" /\ UNCHANGED process
       \/ args.count = 6 /\ args.wellformed /\ pc' = "open" /\ UNCHANGED process
    /\ UNCHANGED <<setUp, thread, arrived>>

\* A system call of init_dev that achieves something, or fails.
Achieves(place, next, what) ==
    /\ Main(place)
    /\ pc' = next
    /\ device' = device \cup {what}
    /\ UNCHANGED <<process, args, sockets, routes, built, thread, arrived>>

Open ==
    \/ Achieves("open", "attach", "tap")
    \/ /\ Main("open") /\ pc' = "failed"
       /\ UNCHANGED <<process, setUp, thread, arrived>>

\* TUNSETIFF; a failure closes the TAP device.
Attach ==
    \/ Achieves("attach", "init_socket", "attached")
    \/ /\ Main("attach") /\ pc' = "failed"
       /\ device' = device \ {"tap"}
       /\ UNCHANGED <<process, args, sockets, routes, built, thread, arrived>>

OpenSocket(place, next) ==
    /\ Main(place)
    /\ \/ pc' = next /\ sockets' = sockets + 1
       \/ pc' = "failed" /\ UNCHANGED sockets
    /\ UNCHANGED <<process, args, device, routes, built, thread, arrived>>

\* Fault: an error path forgets to close the socket.
FailsOpen(place) ==
    /\ Main(place) /\ pc' = "failed"
    /\ UNCHANGED <<process, setUp, thread, arrived>>

\* The socket is closed on every error path.
FailsClosing(place) ==
    /\ Main(place) /\ pc' = "failed"
    /\ sockets' = sockets - 1
    /\ UNCHANGED <<process, args, device, routes, built, thread, arrived>>

SetFlags == Achieves("set_flags", "get_address", "up") \/ FailsClosing("set_flags")

GetAddress ==
    Achieves("get_address", "set_address", "hwaddr") \/ FailsClosing("get_address")

\* The address is set back to itself, and init_dev returns.
SetAddress ==
    \/ /\ Main("set_address") /\ pc' = "route_socket"
       /\ device' = device \cup {"mac"}
       /\ sockets' = sockets - 1
       /\ UNCHANGED <<process, args, routes, built, thread, arrived>>
    \/ FailsClosing("set_address")

\* Ipv4Subnet::contains.
Contains(address) == (address \cap args.mask) = args.network

\* The kernel takes a route whose mask is a prefix and whose address has no
\* bit outside the mask.
KernelTakesRoute ==
    /\ args.network \subseteq args.mask
    /\ \A b \in args.mask : b .. Width - 1 \subseteq args.mask

\* Fault: the constructor does not look at what add_route returns.
AddRouteUnchecked ==
    /\ Main("route") /\ pc' = "L2"
    /\ sockets' = sockets - 1
    /\ routes' \in {{a \in SUBSET Bits : KernelTakesRoute /\ Contains(a)}, {}}
    /\ UNCHANGED <<process, args, device, built, thread, arrived>>

\* SIOCADDRT: an address belongs to the route when it agrees with the
\* network on the bits of the mask.  The two addresses go through text and
\* back (to_string, inet_addr), which keeps their four octets.
AddRoute ==
    \/ /\ Main("route") /\ KernelTakesRoute
       /\ pc' = "L2"
       /\ sockets' = sockets - 1
       /\ routes' = {a \in SUBSET Bits : \A b \in args.mask : b \in a <=> b \in args.network}
       /\ UNCHANGED <<process, args, device, built, thread, arrived>>
    \/ FailsClosing("route")

\* init_dev and add_route: false makes the constructor throw, and main
\* catches nothing.
Throw ==
    /\ Main("failed")
    /\ process' = "terminated"
    /\ UNCHANGED <<pc, setUp, thread, arrived>>

-----------------------------------------------------------------------------
\* The rest of the constructor: each layer builds the ones that it owns.
Builds(place, next, what) ==
    /\ Main(place)
    /\ pc' = next
    /\ built' = built \cup {what}
    /\ UNCHANGED <<process, args, device, sockets, routes, thread, arrived>>

\* Fault: the listener is started before the transport layer is built.
BuildStackStarting ==
    \/ Builds("L2", "set_callback", "L2")
    \/ Builds("set_callback", "L3", "callback")
    \/ Builds("L3", "start", "L3")
    \/ Builds("sleep", "sleep", "L4")

BuildStack ==
    \/ Builds("L2", "set_callback", "L2")
    \/ Builds("set_callback", "L3", "callback")
    \/ Builds("L3", "L4", "L3")
    \/ Builds("L4", "start", "L4")

\* Without a callback start_listen would throw; the constructor has set it.
StartListen ==
    /\ Main("start") /\ "callback" \in built
    /\ flag' = TRUE /\ listener' = "testing"
    /\ pc' = "sleep"
    /\ UNCHANGED <<process, setUp, buffer, readOk, taken, handled, errors, arrived>>

\* stop_listen, which no code of the repository calls.  The flag is atomic and
\* the listener may see it at once ...
StopListen ==
    /\ Main("sleep")
    /\ flag' = FALSE
    /\ pc' = "delete_thread"
    /\ UNCHANGED <<process, setUp, listener, buffer, readOk, taken, handled, errors, arrived>>

\* ... but nobody has joined the thread, and deleting a joinable std::thread
\* ends the process.
DeleteThread ==
    /\ Main("delete_thread")
    /\ process' = "terminated"
    /\ UNCHANGED <<pc, setUp, thread, arrived>>

-----------------------------------------------------------------------------
Listener(place) == process = "running" /\ listener = place

TestFlag ==
    /\ Listener("testing")
    /\ listener' = IF flag THEN "reading" ELSE "exited"
    /\ UNCHANGED <<pc, process, setUp, flag, buffer, readOk, taken, handled, errors, arrived>>

\* The read blocks until there is a frame.
ReadFrame ==
    /\ Listener("reading") /\ taken < arrived
    /\ taken' = taken + 1
    /\ buffer' = taken + 1
    /\ readOk' = TRUE
    /\ listener' = "handling"
    /\ UNCHANGED <<pc, process, setUp, flag, handled, errors, arrived>>

\* read returns -1 and do_listen goes on: the callback gets the buffer, a new
\* array at the place of the previous one, and a size of SIZE_MAX.
ReadFails ==
    /\ Listener("reading") /\ errors < MaxErrors
    /\ errors' = errors + 1
    /\ buffer' \in {buffer, Junk}
    /\ readOk' = FALSE
    /\ listener' = "handling"
    /\ UNCHANGED <<pc, process, setUp, flag, taken, handled, arrived>>

\* Fault: an exception leaves the thread's function.
HandleUncaught ==
    /\ Listener("handling")
    /\ handled' = handled \cup {buffer}
    /\ \/ buffer \notin Refused /\ listener' = "testing" /\ UNCHANGED process
       \/ buffer \in Refused /\ process' = "terminated" /\ UNCHANGED listener
    /\ UNCHANGED <<pc, setUp, flag, buffer, readOk, taken, errors, arrived>>

\* Fault: the exception is caught behind the loop.
HandleLeavingLoop ==
    /\ Listener("handling")
    /\ handled' = handled \cup {buffer}
    /\ listener' = IF buffer \in Refused THEN "exited" ELSE "testing"
    /\ UNCHANGED <<pc, process, setUp, flag, buffer, readOk, taken, errors, arrived>>

\* The callback returns, or throws and is caught.
Handle ==
    /\ Listener("handling")
    /\ handled' = handled \cup {buffer}
    /\ listener' = "testing"
    /\ UNCHANGED <<pc, process, setUp, flag, buffer, readOk, taken, errors, arrived>>

\* What the layers do with SIZE_MAX octets is undefined: UDP refuses them,
\* ARP answers the old frame again, the checksum of ICMP and the copy of TCP
\* leave the buffer behind.  So is what they do with a frame that was read but
\* is shorter than its headers, where the size that is left wraps below zero
\* and a copy of that size leaves the buffer, or too long for DNS.
HandleUndefined ==
    /\ Listener("handling")
    /\ ~readOk \/ buffer \in Unchecked
    /\ process' = "crashed"
    /\ UNCHANGED <<pc, setUp, thread, arrived>>

\* The kernel queues frames from the moment the device is up.
Arrive ==
    /\ process = "running"
    /\ "up" \in device /\ arrived < MaxFrames
    /\ arrived' = arrived + 1
    /\ UNCHANGED <<pc, process, setUp, thread>>

-----------------------------------------------------------------------------
InitDev ==
    \/ Open \/ Attach \/ OpenSocket("init_socket", "set_flags")
    \/ SetFlags \/ GetAddress \/ SetAddress

Construct ==
    \/ ParseArguments \/ InitDev
    \/ OpenSocket("route_socket", "route") \/ AddRoute
    \/ Throw \/ BuildStack \/ StartListen

DoListen == TestFlag \/ ReadFrame \/ ReadFails \/ Handle \/ HandleUndefined

Next == Construct \/ StopListen \/ DeleteThread \/ DoListen \/ Arrive

Spec == Init /\ [][Next]_vars

\* Both threads run; nobody has to call stop_listen, and reads do not fail for
\* ever (MaxErrors).
Fairness == WF_vars(Construct) /\ WF_vars(DoListen)

FairSpec == Spec /\ Fairness

-----------------------------------------------------------------------------
\* A frame meets the whole stack: from the moment the listener exists, the
\* device is set up, every layer is built and the callback is set, although
\* frames may have been waiting since the device came up (DNet.cpp:74).
StackIsWhole ==
    listener # "none" =>
        /\ built = {"L2", "L3", "L4", "callback"}
        /\ device = {"tap", "attached", "up", "hwaddr", "mac"}

\* A DNet that listens treats as its subnet (L3::send, ARP::on_recv) exactly
\* the addresses that the kernel sends to its device, and there are some: a
\* network with bits outside its mask, which contains() never matches, or a
\* mask with holes does not get that far.
SubnetIsRouted ==
    listener # "none" =>
        /\ routes = {a \in SUBSET Bits : Contains(a)}
        /\ args.network \in routes

\* However many of the calls of init_dev and add_route fail, none of them
\* leaves its socket open.
SocketsAreClosed ==
    sockets = IF pc \in {"set_flags", "get_address", "set_address", "route"} THEN 1 ELSE 0

\* A frame costs at most itself.  Every frame read before the present one has
\* been handed to the layers, whichever of them threw; and once it listens, the
\* program ends only while the layers handle what no read filled or what they
\* do not check, or in stop_listen, never by a handler's exception
\* (driver.cpp:123-127).
FrameCostsItself ==
    /\ \A f \in 1 .. taken : f \in handled \/ (listener = "handling" /\ f = buffer)
    /\ (listener # "none" /\ process # "running") =>
          \/ pc = "delete_thread"
          \/ listener = "handling" /\ (~readOk \/ buffer \in Unchecked)

\* A frame that waits at the device is handed to the layers in the end, unless
\* the constructor fails, an undefined size ends the program or stop_listen is
\* called: refused frames and failing reads do not stop the listener, and no
\* program goes on without it.
EveryFrameIsHandled ==
    \A f \in Frames :
        arrived >= f ~> (f \in handled \/ process = "crashed" \/ pc \in {"failed", "delete_thread"})
=============================================================================
