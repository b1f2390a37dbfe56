------------------------------- MODULE MCProcLib ------------------------------
\* Instances of ProcLib for TLC: three cpus on two nodes, three disks, three
\* caches, a handful of memory layouts, and increments small enough that every
\* array and list grows.
EXTENDS ProcLib

AllLibs == {"stat", "disk", "slab", "mem", "vm"}
Nodes == [c \in 0 .. 2 |-> c % 2]
T(u, i, g) == [x \in Times |-> CASE x = "user" -> u [] x = "idle" -> i [] OTHER -> g]
JunkSamples == {WithSums(T(0, 3, 0))}

Cpu(i, t) == [id |-> i, jif |-> t]
Mem(total, free, avail, cached, swap) ==
  ("MemTotal" :> total) @@ ("MemFree" :> free) @@ ("MemAvailable" :> avail)
    @@ ("Cached" :> cached) @@ ("SwapTotal" :> 1) @@ ("SwapFree" :> swap) @@ ("Other" :> 7)
Layouts == {Mem(4, f, 5, c, 2) : f \in {0, 2, 5}, c \in {1, 5}} \cup {Mem(4, 2, 0, 1, 0)}
Cache(n, o, a) == [name |-> n, objs |-> o, active |-> a, size |-> n]

FirstFile(l) ==
  CASE l = "stat" -> [status |-> "fine", cpu |-> T(2, 2, 0), sys |-> NoSys,
                      cpus |-> <<Cpu(0, T(1, 1, 0)), Cpu(2, T(1, 1, 0))>>]
    [] l = "disk" -> [status |-> "fine", sysBlock |-> {1, 3},
                      lines |-> <<[name |-> 2, val |-> 1], [name |-> 1, val |-> 1]>>]
    [] l = "slab" -> [status |-> "fine", lines |-> <<Cache(2, 2, 1), Cache(1, 0, 0)>>]
    [] l = "mem" -> [status |-> "fine", vals |-> Mem(4, 2, 0, 1, 0)]
    [] l = "vm" -> [status |-> "fine", vals |-> ("pgpgin" :> 1) @@ ("nr_other" :> 5)]

Readable(f, others) == {[f EXCEPT !.status = s] : s \in others}
Ran(f, k, d) ==
  [f EXCEPT !.cpus[k].jif = [x \in Times |-> @[x] + d[x]], !.cpu = [x \in Times |-> @[x] + d[x]],
            !.sys["ctxt"] = @ + 1]
NextFiles(l, f) ==
  CASE l = "stat" ->
         {Ran(f, 2, d) : d \in {T(1, 0, 0), T(0, -1, 1)}}
           \cup (IF Len(f.cpus) = 3 THEN {[f EXCEPT !.cpus = RemoveAt(@, 2)]}
                 ELSE {[f EXCEPT !.cpus = InsertAt(@, 2, Cpu(1, T(5, 1, 0)))]})
           \cup Readable(f, {"fine", "short", "unreadable"})
    [] l = "disk" ->
         {[f EXCEPT !.lines[k].val = @ + 1] : k \in DOMAIN f.lines}
           \cup {[f EXCEPT !.lines = RemoveAt(@, k)] : k \in DOMAIN f.lines}
           \cup {[f EXCEPT !.lines = Append(@, [name |-> n, val |-> 0])] :
                   n \in {1, 2, 3} \ {f.lines[k].name : k \in DOMAIN f.lines}}
           \cup Readable(f, {"fine", "garbled", "unreadable"})
    [] l = "slab" ->
         {[f EXCEPT !.lines[k].active = 1, !.lines[k].objs = @ + 1] : k \in DOMAIN f.lines}
           \cup {[f EXCEPT !.lines = Append(@, Cache(3, 1, 1))], [f EXCEPT !.lines = <<>>]}
           \cup Readable(f, {"fine", "garbled", "unreadable"})
    [] l = "mem" -> {[f EXCEPT !.vals = v] : v \in Layouts} \cup Readable(f, {"fine", "unreadable"})
    [] l = "vm" -> {[f EXCEPT !.vals["pgpgin"] = @ + 1]} \cup Readable(f, {"fine", "unreadable"})

Tic(x, d) == [src |-> "tic", of |-> x, delta |-> d]
ItemLists(l) ==
  {<<>>} \cup
  (CASE l = "stat" -> {<<Tic("user", TRUE), [src |-> "cpu", of |-> "id", delta |-> FALSE]>>,
                       <<Tic("xtot", TRUE), [src |-> "sys", of |-> "ctxt", delta |-> TRUE]>>}
     [] l = "disk" -> {<<"NAME", "DELTA_IO">>, <<"IO", "TYPE">>}
     [] l = "slab" -> {<<[src |-> "slab", of |-> "name", delta |-> FALSE]>>,
                       <<[src |-> "slabs", of |-> "total", delta |-> TRUE],
                         [src |-> "slab", of |-> "use", delta |-> FALSE]>>}
     [] l = "mem" -> {<<[of |-> "mem_used", delta |-> FALSE]>>, <<[of |-> "MemFree", delta |-> TRUE]>>}
     [] l = "vm" -> {<<[of |-> "pgpgin", delta |-> FALSE]>>, <<[of |-> "pgpgin", delta |-> TRUE]>>})
===============================================================================
