------------------------- MODULE MCClosedExecution -------------------------
(***************************************************************************)
(* Module images for the closure and its execution, in families: a few     *)
(* units are fixed and the others vary over what could interact.           *)
(***************************************************************************)
EXTENDS ClosedExecution, TLC

CONSTANTS r, a, b, f, g, h, k, x

NoFault == [kind |-> "none", unwind |-> <<>>, handler |-> Outside, resume |-> Outside]
Handling(unwind, handler, resume) ==
  [kind |-> "handled", unwind |-> unwind, handler |-> handler, resume |-> resume]

Transfer(effect, value, call, target, op, to) ==
  [effect |-> effect, value |-> value, call |-> call, target |-> target,
   op |-> op, to |-> to, fault |-> NoFault, authority |-> {}]

Plain(op, to) == Transfer("none", Other, "none", Outside, op, to)
Ret == Plain("return", <<>>)
Jump(u) == Plain("jump", <<u>>)
Branch(u, v) == Plain("branch", <<u, v>>)
CallTo(u, next) == Transfer("none", Other, "direct", u, "jump", <<next>>)

Image(ts) == [u \in Units |-> IF u \in DOMAIN ts THEN ts[u] ELSE Ret]

\* Indirect calls and jumps through a global cell, in a loop, with recursion.
IndirectPrograms ==
  {[u \in Units |->
     CASE u = r -> [tr EXCEPT !.call = c, !.target = f]
       [] u = a -> Transfer("load", Other, "indirect", Outside, "jump", <<b>>)
       [] u = b -> Branch(a, h)
       [] u = f -> tf
       [] u = g -> tg
       [] u = h -> th
       [] OTHER -> Ret] :
     tr \in {Transfer("store", v, "none", Outside, "jump", <<a>>) : v \in {f, g, External}},
     c \in {"none", "direct"},
     tf \in {Transfer("store", g, "none", Outside, "return", <<>>),
             Transfer("set", g, "none", Outside, "return", <<>>),
             Branch(g, k)},
     tg \in {CallTo(f, k), Ret, Transfer("store", f, "none", Outside, "return", <<>>)},
     th \in {[Transfer("load", Other, "none", Outside, "indirect", <<>>)
                EXCEPT !.authority = au] : au \in {{}, {f, g}, {g}}}}

\* Nonlocal transfers out of one or two calls, to one of two callers, or nowhere.
NonlocalPrograms ==
  {[u \in Units |->
     CASE u = r -> Branch(a, b)
       [] u = a -> CallTo(f, h)
       [] u = b -> CallTo(f, nb)
       [] u = f -> CallTo(cf, k)
       [] u = g -> Transfer(ef, v, "none", Outside, "nonlocal", <<>>)
       [] u = h -> Ret
       [] OTHER -> tk] :
     nb \in {h, k}, cf \in {g, f}, ef \in {"set"}, v \in {h, k, g},
     tk \in {Ret, CallTo(g, h), Jump(g)}}

\* Handled faults with unwind functions, which may not return, and a resumption.
FaultPrograms ==
  {[u \in Units |->
     CASE u = r -> [Transfer("store", v, c, g, "jump", <<a>>) EXCEPT
                      !.fault = Handling(uw, h, rs)]
       [] u = a -> Transfer("load", Other, "none", Outside, "indirect", <<>>)
       [] u = f -> tf
       [] u = g -> Transfer("set", k, "none", Outside, "return", <<>>)
       [] u = h -> th
       [] OTHER -> Ret] :
     v \in {g, k}, c \in {"none", "direct"},
     uw \in {<<>>, <<f>>, <<f, g>>, <<f, f>>}, rs \in {a, b, Outside},
     tf \in {Transfer("store", b, "none", Outside, "return", <<>>), Jump(f), Ret},
     th \in {Transfer("store", k, "none", Outside, "return", <<>>), CallTo(f, k)}}

\* Callbacks given to external functions, known or not, before and after stores.
CallbackPrograms ==
  {[u \in Units |->
     CASE u = r -> Transfer(e, v, "callback", Outside, "jump", <<a>>)
       [] u = a -> Transfer("store", w, "none", Outside, "jump", <<b>>)
       [] u = b -> tb
       [] u = f -> Transfer("load", Other, "indirect", Outside, "jump", <<k>>)
       [] u = k -> tk
       [] OTHER -> Ret] :
     e \in {"set", "load"}, v \in {f, Scalar, External},
     w \in {g, h}, tb \in {Ret, Jump(r), Transfer("set", f, "callback", Outside, "external", <<>>),
                           Transfer("none", Other, "terminates", Outside, "jump", <<h>>)},
     tk \in {Ret, Transfer("set", g, "callback", Outside, "jump", <<h>>)}}

\* Boundary exits, stray edges, conflicting authorities, an unresolved fault.
ExitPrograms ==
  {[u \in Units |->
     CASE u = r -> Transfer(e, v, "direct", f, "branch", <<a, b>>)
       [] u = a -> ta
       [] u = b -> [Transfer("load", Other, "none", Outside, "indirect", <<>>) EXCEPT !.authority = {g, x}]
       [] u = f -> tf
       [] u = g -> Transfer("none", Other, "indirect", Outside, "jump", <<h>>)
       [] u = h -> th
       [] u = x -> Jump(k)
       [] OTHER -> Ret] :
     e \in {"set", "store"}, v \in {g, x, k},
     ta \in {Jump(x), Branch(x, b), Jump(Outside)},
     tf \in {Branch(k, a), Transfer("store", x, "none", Outside, "return", <<>>)},
     th \in {Ret, [Ret EXCEPT !.fault = [NoFault EXCEPT !.kind = "unresolved"]]}}

\* External functions that are tail-called, through a jump and by name.
TailPrograms ==
  {[u \in Units |->
     CASE u = r -> Transfer("store", v, "direct", f, "jump", <<a>>)
       [] u = f -> Transfer("load", Other, "none", Outside, "indirect", <<>>)
       [] u = a -> CallTo(g, b)
       [] u = g -> Transfer("none", Other, t, Outside, "external", <<>>)
       [] OTHER -> Ret] :
     v \in {External, Scalar, h, k}, t \in {"returns", "terminates"}}

\* r stores code that a, a root of its own, loads and jumps to.
SharedCellPrograms ==
  {Image(r :> Transfer("store", f, "none", Outside, "return", <<>>)
         @@ a :> Transfer("load", Other, "none", Outside, "indirect", <<>>))}

\* The called function f faults, is handled and resumed.
ResumptionPrograms ==
  {Image(r :> CallTo(f, a)
         @@ f :> [Plain("jump", <<f>>) EXCEPT !.fault = Handling(<<>>, h, b)])}

\* h calls one of two functions, of which g never returns.
NoReturnPrograms ==
  {Image(r :> Branch(a, b)
         @@ a :> Transfer("store", f, "none", Outside, "jump", <<h>>)
         @@ b :> Transfer("store", g, "none", Outside, "jump", <<h>>)
         @@ h :> Transfer("load", Other, "indirect", Outside, "jump", <<k>>)
         @@ g :> t) :
     t \in {Jump(g), Transfer("none", Other, "terminates", Outside, "external", <<>>)}}

\* f leaves for h at once, or stores f and calls itself through b first; r runs b with
\* the image's cell, or through a, behind whose call h lies, with x in it.
RecursionPrograms ==
  {Image(r :> Branch(a, b)
         @@ a :> Transfer("store", x, "direct", b, "jump", <<h>>)
         @@ b :> CallTo(f, x)
         @@ f :> Branch(k, g)
         @@ g :> Transfer("store", f, "direct", b, "jump", <<x>>)
         @@ k :> Transfer("set", h, "none", Outside, "nonlocal", <<>>)
         @@ h :> Transfer("load", Other, "none", Outside, "indirect", <<>>))}

AllPrograms ==
  IndirectPrograms \cup NonlocalPrograms \cup FaultPrograms \cup CallbackPrograms
  \cup ExitPrograms \cup TailPrograms

AllUnits == {r, a, b, f, g, h, k, x}
OneRoot == {r}
RootsRA == {r, a}
RootsRK == {r, k}
CellG == {g}
CellConflict == Unknown
OneExit == {x}
=============================================================================
