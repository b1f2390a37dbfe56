CONSTANT Tasks = {"top", "vmstat", "dmesg", "gc"}
SPECIFICATION FairSpec
INVARIANTS TypeOK QuietWhenRead OutputOfOneCommand FallbackTried
PROPERTIES AllEnd WaitedForVmstat
