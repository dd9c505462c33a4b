---------------------------- MODULE MCWasmMemory ----------------------------
(***************************************************************************)
(* Pages of four bytes, eight at most; messages up to the whole memory.    *)
(***************************************************************************)
EXTENDS WasmMemory

Lengths ==
  {z \in [request : 1 .. 9, params : {3, 4, 6, 11, 17}, hostCall : 1 .. 2,
          reply : 0 .. 3, detection : 0 .. 1, finished : {1}] :
     z.hostCall < z.request /\ z.reply + z.detection + z.finished + 1 <= z.params}
=============================================================================
