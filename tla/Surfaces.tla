------------------------------- MODULE Surfaces -------------------------------
(***************************************************************************)
(* Surfaces and fills, byte by byte: src/SDL_surface.c, with the surface   *)
(* of a window as the dummy driver keeps it                                *)
(* (src/video/dummy/sdlop_dummy.c).  There is one surface at a time.       *)
(*                                                                         *)
(* A byte of a pixel holds a channel of a colour, whose value is left      *)
(* abstract: a Uint32 is the sequence of its four bytes, lowest first, as  *)
(* a little-endian machine stores it.  RGB565 packs two bytes from three   *)
(* channels; the two are given names of their own.                         *)
(*                                                                         *)
(* The program adds and multiplies in int in places where the result may   *)
(* not be one, which is undefined: the sum may wrap, or be right when the  *)
(* build computes it wider.                                                *)
(***************************************************************************)
EXTENDS Integers, Sequences, FiniteSets

CONSTANTS
  Formats,        \* pixel formats tried
  Widths, Heights,\* sizes tried
  Pads,           \* bytes of a pitch beyond its row (SDL_CreateSurfaceFrom)
  Corners, Edges, \* x and y, and w and h, of the rectangles filled
  Colors,         \* names of colours
  IntMax, SizeMax \* INT32_MAX, SIZE_MAX

Unpainted == "unpainted"

ASSUME SurfacesAssumption ==
  /\ Unpainted \notin Colors
  /\ IntMax \in Nat /\ SizeMax \in Nat
  /\ Widths \subseteq 1 .. IntMax /\ Heights \subseteq 1 .. IntMax /\ Pads \subseteq Nat
  /\ Corners \subseteq -(IntMax + 1) .. IntMax /\ Edges \subseteq -(IntMax + 1) .. IntMax

\* The channels of colour c, and the byte no channel is in.
R(c) == <<"r", c>>
G(c) == <<"g", c>>
B(c) == <<"b", c>>
A(c) == <<"a", c>>
Low565(c) == <<"low", c>>
High565(c) == <<"high", c>>
Zero == <<"zero">>
Blank == <<"blank">>      \* a byte as the surface was made with

VARIABLES
  kind,    \* "none", "own", "from" (SDL_CreateSurfaceFrom) or "window"
  format, wide, high, pitch,
  pixels,  \* the bytes, from offset 0
  image,   \* history: the colour each pixel was filled with last
  strayed, \* history: a fill wrote a byte that is not in pixels
  overflowed \* history: the arithmetic of a fill or of a resize overflowed

surfaceVars == <<kind, format, wide, high, pitch, pixels, image, strayed, overflowed>>

\* What is kept of v in an int, and what a comparison with v may see.
Wrap(v) == ((v + IntMax + 1) % (2 * (IntMax + 1))) - (IntMax + 1)
Computed(v) == {v, Wrap(v)}
IsInt(v) == v \in -(IntMax + 1) .. IntMax

\* SDLOP_BytesPerPixel
BytesPerPixel(f) ==
  CASE f = "INDEX8" -> 1
    [] f = "RGB565" -> 2
    [] f \in {"RGB24", "BGR24"} -> 3
    [] f \in {"XRGB8888", "RGBX8888", "ARGB8888", "RGBA8888",
              "XBGR8888", "BGRX8888", "ABGR8888", "BGRA8888"} -> 4
    [] OTHER -> 0

SurfaceInit ==
  /\ kind = "none" /\ format = "none" /\ wide = 0 /\ high = 0 /\ pitch = 0
  /\ pixels = <<>> /\ image = <<>> /\ strayed = FALSE /\ overflowed = FALSE

Cells == (0 .. wide - 1) \X (0 .. high - 1)
bpp == BytesPerPixel(format)

\* A surface of size n, m takes the place of none; its bytes are blank.
Made(k, f, n, m, p) ==
  /\ kind' = k /\ format' = f /\ wide' = n /\ high' = m /\ pitch' = p
  /\ pixels' = [i \in 0 .. p * m - 1 |-> Blank]
  /\ image' = [c \in (0 .. n - 1) \X (0 .. m - 1) |-> Unpainted]
  /\ UNCHANGED <<strayed, overflowed>>

Fits(n, m, f) == n * BytesPerPixel(f) <= IntMax /\ n * BytesPerPixel(f) * m <= SizeMax

\* SDL_CreateSurface
CreateSurface(n, m, f) ==
  /\ kind = "none"
  /\ BytesPerPixel(f) # 0 /\ Fits(n, m, f)
  /\ Made("own", f, n, m, n * BytesPerPixel(f))

\* SDL_CreateSurfaceFrom, of memory that holds a pitch for every row
CreateSurfaceFrom(n, m, f, p) ==
  /\ kind = "none"
  /\ BytesPerPixel(f) # 0 /\ p >= n * BytesPerPixel(f) /\ p <= IntMax
  /\ Made("from", f, n, m, p)

\* SDL_GetWindowSurface with dummy_CreateWindowFramebuffer
GetWindowSurface(n, m) ==
  /\ kind = "none" /\ Fits(n, m, "XRGB8888")
  /\ Made("window", "XRGB8888", n, m, n * 4)

\* SDL_DestroySurface; for the surface of a window SDL_DestroyWindowSurface with
\* dummy_DestroyWindowFramebuffer, or SDL_DestroyWindow
DestroySurface ==
  /\ kind # "none"
  /\ kind' = "none" /\ format' = "none" /\ wide' = 0 /\ high' = 0 /\ pitch' = 0
  /\ pixels' = <<>> /\ image' = <<>> /\ strayed' = FALSE /\ overflowed' = FALSE

\* SDL_SetWindowSize with dummy_SetWindowSize: realloc keeps the bytes there were;
\* what they show at the new pitch nobody says.  The pitch is a product of int and
\* the bytes one of size_t, and neither is checked.  Left out is a realloc that
\* fails, which changes nothing here, and one of no bytes.
ResizeWindow(n, m) ==
  LET bytes == (n * 4 * m) % (SizeMax + 1) IN
  /\ kind = "window" /\ bytes > 0
  /\ wide' = n /\ high' = m /\ pitch' = Wrap(n * 4)
  /\ pixels' = [i \in 0 .. bytes - 1 |-> Blank]
  /\ image' = [c \in (0 .. n - 1) \X (0 .. m - 1) |-> Unpainted]
  /\ overflowed' = (overflowed \/ ~IsInt(n * 4) \/ n * 4 * m > SizeMax)
  /\ UNCHANGED <<kind, format, strayed>>

-----------------------------------------------------------------------------
(* Colours. *)

\* SDL_MapSurfaceRGBA
MapSurfaceRGBA(f, c) ==
  CASE f = "ARGB8888" -> <<B(c), G(c), R(c), A(c)>>
    [] f = "ABGR8888" -> <<R(c), G(c), B(c), A(c)>>
    [] f = "XBGR8888" -> <<R(c), G(c), B(c), Zero>>
    [] f = "RGBA8888" -> <<A(c), B(c), G(c), R(c)>>
    [] f = "BGRA8888" -> <<A(c), R(c), G(c), B(c)>>
    [] f = "RGB565"   -> <<Low565(c), High565(c), Zero, Zero>>
    [] OTHER          -> <<B(c), G(c), R(c), Zero>>

\* SDL_FillSurfaceRect swaps the lowest byte and the third for these.
Swapped == {"XBGR8888", "ABGR8888", "BGRA8888", "BGRX8888"}

\* Mutant: the order in memory of the two formats of three bytes is confused.
BytesFilledBgr(f, v) ==
  CASE BytesPerPixel(f) = 4 -> IF f \in Swapped THEN <<v[3], v[2], v[1], v[4]>> ELSE v
    [] f = "RGB24" -> <<v[1], v[2], v[3]>>
    [] f = "BGR24" -> <<v[3], v[2], v[1]>>
    [] OTHER -> <<v[1], v[2]>>

\* fill32, fill24, fill16: the bytes written for the value v
BytesFilled(f, v) ==
  CASE BytesPerPixel(f) = 4 -> IF f \in Swapped THEN <<v[3], v[2], v[1], v[4]>> ELSE v
    [] f = "RGB24" -> <<v[3], v[2], v[1]>>
    [] f = "BGR24" -> <<v[1], v[2], v[3]>>
    [] OTHER -> <<v[1], v[2]>>

\* The offset at which a fill writes pixel x, y: fill32 and fill16 count the rows
\* in pixels, pitch / 4 and pitch / 2.
OffsetFilled(x, y) == IF bpp = 3 THEN y * pitch + x * 3 ELSE bpp * (y * (pitch \div bpp) + x)

-----------------------------------------------------------------------------
(* Fills. *)

\* Mutant: a rectangle that begins left of the surface keeps its width.
ClipsKeepWidth(from, len, size) ==
  LET x == IF from < 0 THEN 0 ELSE from
  IN {[from |-> x, len |-> IF sum > size THEN size - x ELSE len] : sum \in Computed(x + len)}

\* What the clipping of SDL_FillSurfaceRect may leave, the same in both directions
Clips(from, len, size) ==
  LET x == IF from < 0 THEN 0 ELSE from
      lens == IF from < 0 THEN Computed(len + from) ELSE {len}
  IN UNION {{[from |-> x, len |-> IF sum > size THEN size - x ELSE n] :
               sum \in Computed(x + n)} : n \in lens}

\* The bytes written by the loops of fill32, fill24 and fill16: pixel and byte.  The
\* columns are counted from the corner, the rows up to a sum that is an int.
Writes(across, down, end) ==
  (across.from .. across.from + across.len - 1) \X (down.from .. end - 1) \X (1 .. bpp)

\* The byte of a write of pixel t[1], t[2]
At(t) == OffsetFilled(t[1], t[2]) + t[3] - 1

\* SDL_FillSurfaceRect with the value SDL_MapSurfaceRGBA gives
FillSurfaceRect(x, y, n, m, c) ==
  \E across \in Clips(x, n, wide), down \in Clips(y, m, high) :
  \E end \in Computed(down.from + down.len) :
    LET bytes == BytesFilled(format, MapSurfaceRGBA(format, c))
        writes == Writes(across, down, end)
        Hit(i) == {t \in writes : At(t) = i}
    IN
    /\ kind # "none" /\ bpp \in {2, 3, 4}
    /\ overflowed' = (overflowed \/ ~IsInt(x + n) \/ ~IsInt(y + m))
    /\ pixels' = [i \in DOMAIN pixels |->
                    IF Hit(i) = {} THEN pixels[i] ELSE bytes[(CHOOSE t \in Hit(i) : TRUE)[3]]]
    /\ strayed' = (strayed \/ \E t \in writes : At(t) \notin DOMAIN pixels)
    /\ image' = [p \in Cells |-> IF p[1] \in x .. x + n - 1 /\ p[2] \in y .. y + m - 1
                                 THEN c ELSE image[p]]
    /\ UNCHANGED <<kind, format, wide, high, pitch>>

\* Where SDL_ReadSurfacePixel finds a pixel: it counts the rows in bytes.
OffsetRead(x, y) == y * pitch + x * bpp

\* SDL_ReadSurfacePixel: red, green and blue, for the four formats it knows
ReadSurfacePixel(x, y) ==
  LET p == [k \in 1..4 |-> pixels[OffsetRead(x, y) + k - 1]] IN
  IF format \in {"ARGB8888", "XRGB8888"} THEN <<p[3], p[2], p[1]>> ELSE <<p[1], p[2], p[3]>>

MakeNext ==
  \/ \E n \in Widths, m \in Heights, f \in Formats :
       \/ CreateSurface(n, m, f)
       \/ \E pad \in Pads : CreateSurfaceFrom(n, m, f, n * BytesPerPixel(f) + pad)
  \/ \E n \in Widths, m \in Heights : GetWindowSurface(n, m) \/ ResizeWindow(n, m)

SurfaceNext ==
  \/ MakeNext
  \/ DestroySurface
  \/ \E x, y \in Corners, n, m \in Edges, c \in Colors : FillSurfaceRect(x, y, n, m, c)

SurfaceSpec == SurfaceInit /\ [][SurfaceNext]_surfaceVars

-----------------------------------------------------------------------------
(* Properties. *)

\* What each format means in memory, and the formats this file gets right: for
\* the others SDL_MapSurfaceRGBA and SDL_FillSurfaceRect do not agree on a value.
Layout(f, c) ==
  CASE f = "ARGB8888" -> <<B(c), G(c), R(c), A(c)>>
    [] f = "XRGB8888" -> <<B(c), G(c), R(c), Zero>>
    [] f = "RGBA8888" -> <<A(c), B(c), G(c), R(c)>>
    [] f = "RGB24"    -> <<R(c), G(c), B(c)>>
    [] f = "BGR24"    -> <<B(c), G(c), R(c)>>
    [] f = "RGB565"   -> <<Low565(c), High565(c)>>
Agreed == {"ARGB8888", "XRGB8888", "RGBA8888", "RGB24", "BGR24", "RGB565"}

\* As long as no sum or product of a fill or a resize left the range of its type,
\* no fill writes a byte that is not the surface's, whatever the format, the pitch
\* and the part of the rectangle that is outside, also after the window was resized
\* under the surface (SDL_FillSurfaceRect and the three fills).
FillStaysInside == ~overflowed => ~strayed

\* After any fills that overlap and reach over the edges every pixel holds, in
\* the bytes of its format, the colour of the last rectangle that had it; padding
\* is untouched; and ReadSurfacePixel tells the same colour.  The pitch has to
\* be a whole number of pixels, which fill32 and fill16 take for granted; and no sum
\* or product has overflowed.
SurfaceIsImage ==
  ~overflowed /\ kind # "none" /\ format \in Agreed /\ (bpp = 3 \/ pitch % bpp = 0) =>
    /\ \A p \in Cells, k \in 1 .. bpp :
         pixels[OffsetRead(p[1], p[2]) + k - 1] =
           IF image[p] = Unpainted THEN Blank ELSE Layout(format, image[p])[k]
    /\ \A i \in DOMAIN pixels : i % pitch >= wide * bpp => pixels[i] = Blank
    /\ format \in {"ARGB8888", "XRGB8888"} =>
         \A p \in Cells : image[p] # Unpainted =>
           ReadSurfacePixel(p[1], p[2]) = <<R(image[p]), G(image[p]), B(image[p])>>

\* Whatever its format, its pitch and the rectangles filled, a surface is the
\* image it should be and its fills write nowhere else, until int arithmetic
\* overflows.
SurfacesSound == FillStaysInside /\ SurfaceIsImage

\* Overflow or not, no fill writes outside the surface.  The program does not have
\* this: a rectangle whose right edge is no int is not clipped (SDL_surface.c:202),
\* and a window may be resized to a pitch that is not one (sdlop_dummy.c:75).
FillNeverStrays == ~strayed
===============================================================================
