-------------------------------- MODULE MCVMStat ------------------------------
\* Instances of VMStat for TLC: every mode, counts up to three, a window that
\* holds two lines and one that is too small, and two changes of any file.
EXTENDS VMStat

Nodes == [c \in 0 .. 1 |-> 0]
T(u, d, g) == [x \in Times |-> CASE x = "user" -> u [] x = "idle" -> d [] OTHER -> g]
JunkSamples == {WithSums(T(0, 0, 0))}
Opts(o, a) == [opts |-> o, args |-> a]
CommandLines ==
  {Opts(o, a) : o \in {<<>>, <<"y">>, <<"m">>, <<"p">>}, a \in {<<1, 3>>, <<1>>, <<1, 0>>}}
    \cup {Opts(<<"n", "w", "y">>, <<2, 2>>), Opts(<<"y">>, <<1, -1>>), Opts(<<"d">>, <<1, 2>>),
          Opts(<<"n", "d">>, <<>>), Opts(<<"s">>, <<>>), Opts(<<"D">>, <<>>), Opts(<<"d", "f">>, <<>>),
          Opts(<<"d", "m">>, <<1>>), Opts(<<"h">>, <<>>), Opts(<<"?">>, <<>>),
          Opts(<<"t", "V">>, <<>>), Opts(<<>>, <<0>>), Opts(<<>>, <<7>>), Opts(<<>>, <<1, 1, 1>>)}
Jif(u, d, g) == T(u, d, g)
Dev(n, v) == [name |-> n, val |-> v]
Cache(n) == [name |-> n, objs |-> 1, active |-> 1, size |-> 1]
Mem(free) == ("MemTotal" :> 4) @@ ("MemFree" :> 2) @@ ("SwapTotal" :> 2) @@ ("SwapFree" :> free)
Start ==
  {[vm |-> [status |-> "fine", vals |-> ("pgpgin" :> 6)],
    stat |-> [status |-> "fine", cpu |-> Jif(1, 1, 0), sys |-> NoSys,
              cpus |-> <<[id |-> 0, jif |-> Jif(1, 1, 0)]>>],
    mem |-> [status |-> "fine", vals |-> Mem(2)],
    disk |-> [status |-> "fine", sysBlock |-> {2},
              lines |-> <<Dev(2, 1), Dev(Partition, 1)>>],
    slab |-> [status |-> "fine", lines |-> <<Cache(4), Cache(2), Cache(1)>>]]}
ChangesOf(f) ==
  {[f EXCEPT !.vm.vals["pgpgin"] = (@ + 3) % ULong], [f EXCEPT !.vm.status = "unreadable"]}
    \cup {[f EXCEPT !.stat.cpu = [x \in Times |-> @[x] + d[x]]] :
            d \in {T(2, 0, 1), T(1, 1, 0), T(1, -1, 0), T(0, 0, 1)}}
    \cup {[f EXCEPT !.stat.status = s] : s \in {"short", "unreadable"}}
    \cup {[f EXCEPT !.mem.vals = Mem(1)], [f EXCEPT !.mem.status = "unreadable"]}
    \cup {[f EXCEPT !.disk.lines = l] :
            l \in {<<Dev(2, 2)>>, <<Dev(Partition, 3), Dev(2, 1), Dev(3, 0)>>}}
    \cup {[f EXCEPT !.disk.status = "garbled"], [f EXCEPT !.slab.status = "garbled"],
          [f EXCEPT !.slab.lines = Append(@, Cache(3))]}
Windows == {5, 3}
===============================================================================
