------------------------------- MODULE FutureMC -------------------------------
(* Small instances of Future for TLC.                                          *)
EXTENDS Future, TLC

CONSTANTS r, a, b, e, q, i, l

Call(op, on)    == [op |-> op, on |-> on, next |-> NoFuture]
Chain(on, next) == [op |-> "then", on |-> on, next |-> next]

\* r is run by a goroutine; a, b and e follow it; q is the future of a ThenAsync
\* whose callback returns i.
KindOf == (r :> "own" @@ a :> "then" @@ b :> "then" @@ e :> "mapError"
           @@ q :> "async" @@ i :> "own" @@ l :> "link")
ExecutorOf == [f \in Futures |-> IF f \in {r, b} THEN "goroutine" ELSE "direct"]
InnerOf    == [f \in Futures |-> IF f = q THEN i ELSE NoFuture]
LinkOf     == [f \in Futures |-> IF f = q THEN l ELSE NoFuture]

AllOutcomes == [f \in Futures |-> Results]
Values      == [f \in Futures |-> {"value"}]

\* A chain of three; two successors of one future; two cancellations; panics with callbacks; an error that is
\* mapped; a future that is started and attached by itself; a ThenAsync.
SmallPrograms == {
  {Chain(r, a), Chain(a, b), Call("get", b)},
  {Chain(r, a), Chain(r, b), Call("get", a)},
  {Chain(r, a), Call("cancel", r), Call("cancel", a), Call("get", a)},
  {Chain(r, a), Call("mapPanic", r), Call("get", r), Call("get", a)},
  {Chain(r, a), Call("onPanic", a), Chain(a, e), Call("get", e)},
  {Chain(r, i), Call("get", i)},
  {Chain(r, q), Call("get", q), Call("get", i)}
}

\* The chain of a test: two successors, and a Get.
LateThen == {{Chain(r, a), Chain(a, b), Call("get", b)}}
=============================================================================
