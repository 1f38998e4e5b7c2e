------------------------------- MODULE LuaDebug -------------------------------
(* The code checker (ldebug.c), which close_func asserts of every function    *)
(* the compiler makes and luaU_undump asks of precompiled code.               *)
EXTENDS LuaCode

(* luaP_opmodes: what the operands B and C of an ABC instruction are.         *)
OpArgR_B == {"MOVE", "LOADNIL", "GETTABLE", "SELF", "UNM", "NOT", "LEN", "CONCAT",
             "TEST", "TESTSET"}
OpArgK_B == {"SETTABLE", "ADD", "SUB", "MUL", "DIV", "MOD", "POW", "EQ", "LT", "LE"}
OpArgK_C == OpArgK_B \cup {"GETTABLE", "SELF"}
OpArgN_B == {"TFORLOOP", "CLOSE"}
OpArgN_C == {"MOVE", "LOADNIL", "GETUPVAL", "SETUPVAL", "UNM", "NOT", "LEN", "RETURN",
             "CLOSE", "VARARG"}
iABx == {"LOADK", "GETGLOBAL", "SETGLOBAL", "CLOSURE"}
iAsBx == {"JMP", "FORLOOP", "FORPREP"}

luaG_checkopenop(i) == i.o \in {"CALL", "TAILCALL", "RETURN", "SETLIST"} /\ i.b = 0

precheck(pt) ==
    /\ pt.maxstacksize <= MAXSTACK
    /\ pt.numparams + (IF "HASARG" \in pt.is_vararg THEN 1 ELSE 0) <= pt.maxstacksize
    /\ "NEEDSARG" \in pt.is_vararg => "HASARG" \in pt.is_vararg
    /\ pt.code # <<>> /\ Last(pt.code).o = "RETURN"

(* The word after a SETLIST whose C is 0 is its count; symbexec steps over it.*)
IsCount(pt, pc) == pc > 0 /\ pt.code[pc].o = "SETLIST" /\ pt.code[pc].c = 0

(* One instruction passes the full check of symbexec (reg = NO_REG).          *)
CheckInstr(pt, pc) ==
    LET i == pt.code[pc + 1]
        size == Len(pt.code)
        Reg(r) == r < pt.maxstacksize
        K(r) == r < Len(pt.k)
        RKok(r) == IF ISK(r) THEN K(r - BITRK) ELSE Reg(r)
        After(n) == pt.code[pc + 1 + n]
        Open == luaG_checkopenop(After(1))
    IN /\ Reg(i.a)
       /\ i.o \in OpArgR_B => Reg(i.b)
       /\ i.o = "CONCAT" => Reg(i.c) /\ i.b < i.c
       /\ i.o \in OpArgK_B => RKok(i.b)
       /\ i.o \in OpArgK_C => RKok(i.c)
       /\ i.o \in OpArgN_B => i.b = 0
       /\ i.o \in OpArgN_C => i.c = 0
       /\ i.o \in iABx \ {"CLOSURE"} => K(i.b)
       /\ i.o \in iAsBx => /\ pc + 1 + i.b \in 0..(size - 1)
                           /\ ~IsCount(pt, pc + 1 + i.b)
       /\ i.o \in TMode => pc + 2 < size /\ After(1).o = "JMP"
       /\ i.o = "LOADBOOL" /\ i.c = 1 =>
            pc + 2 < size /\ ~(After(1).o = "SETLIST" /\ After(1).c = 0)
       /\ i.o \in {"GETUPVAL", "SETUPVAL"} => i.b < pt.nups
       /\ i.o \in {"GETGLOBAL", "SETGLOBAL"} => TypeOf(pt.k[i.b + 1]) = "string"
       /\ i.o = "SELF" => Reg(i.a + 1)
       /\ i.o = "TFORLOOP" => i.c >= 1 /\ Reg(i.a + 2 + i.c)
       /\ i.o \in {"FORLOOP", "FORPREP"} => Reg(i.a + 3)
       /\ i.o \in {"CALL", "TAILCALL"} =>
            /\ i.b # 0 => Reg(i.a + i.b - 1)
            /\ i.c = 0 => Open
            /\ i.c > 1 => Reg(i.a + i.c - 2)
       /\ i.o = "RETURN" /\ i.b > 1 => Reg(i.a + i.b - 2)
       /\ i.o = "SETLIST" => /\ i.b > 0 => Reg(i.a + i.b)
                             /\ i.c = 0 => pc + 1 < size - 1
       /\ i.o = "CLOSURE" =>
            /\ i.b < Len(pt.p)
            /\ pc + pt.p[i.b + 1].nups < size
            /\ \A j \in 1..pt.p[i.b + 1].nups : After(j).o \in {"GETUPVAL", "MOVE"}
       /\ i.o = "VARARG" =>
            /\ "ISVARARG" \in pt.is_vararg /\ "NEEDSARG" \notin pt.is_vararg
            /\ i.b = 0 => Open
            /\ Reg(i.a + i.b - 2)

luaG_checkcode(pt) ==
    /\ precheck(pt)
    /\ \A pc \in 0..(Len(pt.code) - 1) : IsCount(pt, pc) \/ CheckInstr(pt, pc)
=============================================================================
