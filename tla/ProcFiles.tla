------------------------------- MODULE ProcFiles ------------------------------
(***************************************************************************)
(* The libraries together, and what they can find in the kernel's files: a *)
(* file of another shape is one that has a line that the library does not  *)
(* understand, and its status says so.                                     *)
(***************************************************************************)
EXTENDS ProcStat, Diskstats, Slabinfo, Meminfo, ProcVmstat

IsSeq(s) == s \in Seq({s[k] : k \in DOMAIN s})
ULongs(vals) == \A x \in DOMAIN vals : vals[x] \in 0 .. ULong - 1

\* The file of library l: a device has one line.
FileOk(l, f) ==
  CASE l = "stat" -> /\ f.status \in {"fine", "short", "unreadable"}
                     /\ f.cpu \in [Times -> Int] /\ IsSeq(f.cpus)
                     /\ \A k \in DOMAIN f.cpus : f.cpus[k].jif \in [Times -> Int]
    [] l = "disk" -> /\ IsSeq(f.lines) /\ \A i \in DOMAIN f.lines : f.lines[i].val \in Int
                     /\ \A i, j \in DOMAIN f.lines : f.lines[i].name = f.lines[j].name => i = j
    [] l = "slab" -> IsSeq(f.lines)
    [] l \in {"mem", "vm"} -> ULongs(f.vals)
===============================================================================
