------------------------------ MODULE Filters ------------------------------
(***************************************************************************)
(* The two filters a filter flow can run, as the outcomes of a call: rkrga *)
(* copies, scales and rotates one image into another, rknn runs a network  *)
(* on an image. A fault is the name of the call that fails, or "none".     *)
(* Allocation of the memory that devices share is here too.                *)
(***************************************************************************)
EXTENDS Integers, Sequences

FilterFaults == {"none", "init", "alloc", "run", "get"}
Allocators   == {"drm", "ion"}   \* the library of the build: libdrm or libion
AllocFaults  == {"none", "device", "create", "share", "map"}

(***************************************************************************)
(* What is left of an allocation. Whatever a failed one had is given back, *)
(* except that of ion a failed mmap goes unnoticed: it tests for 0.        *)
(***************************************************************************)
DrmMemory(fault) ==
  CASE fault = "none" -> {"handle", "fd", "ptr"}
    [] fault = "device" -> {}                  \* no card, or one without dumb buffers
    [] fault = "create" -> {}                  \* no handle
    [] fault \in {"share", "map"} -> {}        \* ~DrmBuffer

IonMemory(fault) ==
  CASE fault = "none" -> {"client", "handle", "fd", "ptr"}
    [] fault = "map" -> {"client", "handle", "fd"}   \* and MAP_FAILED for an address
    [] OTHER -> {}

Alloc2(allocator, fault) ==
  IF allocator = "drm" THEN DrmMemory(fault) ELSE IonMemory(fault)

(***************************************************************************)
(* The image a filter flow offers its filters to fill. "fixed": all of its *)
(* size is given; "dynamic": the format only, the filter allocates; "none":*)
(* a buffer without a type.                                                *)
(***************************************************************************)
ParseImageInfoFromMap(p) == p.format /\ p.size
OutBuffer(p) ==
  CASE ~p.format -> "none"
    [] ParseImageInfoFromMap(p) -> "fixed"
    [] OTHER -> "dynamic"

(***************************************************************************)
(* rkrga.                                                                  *)
(***************************************************************************)
\* A text without both rectangles gives none, and no filter.
StringToTwoImageRect(p) == IF p.rects = {"src", "dst"} THEN <<"src", "dst">> ELSE <<>>
CreateRga(p)   == StringToTwoImageRect(p) # <<>>

\* A rectangle of no size stands for the whole image.
rga_blit(fault) == IF fault = "none" THEN "ok" ELSE "fail"

\* The destination must have content, unless its rectangle is left open: then
\* it becomes as large as the source. The asserts are those of a debug build.
ProcessRga(p, fault) ==
  LET dst == OutBuffer(p)
  IN CASE dst = "none" -> "fail"
       [] dst = "dynamic" /\ p.dst_rect -> "abort"
       [] dst = "dynamic" /\ fault = "alloc" -> "abort"
       [] OTHER -> rga_blit(fault)

(***************************************************************************)
(* rknn. The outputs belong to the buffer and keep the context.            *)
(***************************************************************************)
CreateRknn(p, fault) == p.tensor /\ fault # "init"
ProcessRknn(fault)   == IF fault = "none" THEN "ok" ELSE "fail"

Create(p, fault)  == IF p.name = "rkrga" THEN CreateRga(p) ELSE CreateRknn(p, fault)
Process(p, fault) == IF p.name = "rkrga" THEN ProcessRga(p, fault) ELSE ProcessRknn(fault)
=============================================================================
