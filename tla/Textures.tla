------------------------------ MODULE Textures ------------------------------
(***************************************************************************)
(* What the driver holds of the guest's textures.                          *)
(*                                                                         *)
(* Unity defines textures through a GLES3 interface.  On a GLES2 driver    *)
(* there is no immutable storage, no one-channel format and often no       *)
(* compressed one, and with ST_TEXTURE_16BIT the large ones are stored in  *)
(* 16 bits a pixel: so what Unity uploads is rewritten on its way (egl.c,  *)
(* gles3.c, astc_decode.c, etc2_decode.c).                                 *)
(*                                                                         *)
(* Pixels are one of a few payloads, and a level is the payload of its     *)
(* last whole upload and of the last partial one.  A texture is used on    *)
(* one texture unit.                                                       *)
(***************************************************************************)
EXTENDS Naturals

CONSTANTS
    Textures,       \* texture names
    Drivers         \* capabilities and settings: es3, etc2, astc, bits16, room

ASSUME TexturesAssumption ==
    \A v \in Drivers :
        /\ {v.es3, v.etc2, v.astc, v.bits16} \subseteq BOOLEAN
        /\ v.room \in Nat

None == "none"
Levels == {0, 1}
Alignments == {1, 4}
Pixels == {"opaque", "clear"}       \* "clear": some pixel is translucent
Compressed == {"etc2", "astc"}
Formats == {"rgba", "r8"} \cup Compressed

VARIABLES
    driver,             \* a member of Drivers
    bound_texture_2d,
    unpack_alignment,   \* as the guest set it
    raw_alignment,      \* as the driver has it
    record,             \* texture_records: fmt, levels, large, mode, attached
    g_load_state,       \* the ASTC decoder's library
    store,              \* the driver: fmt, base and patch of every level
    wanted,               \* history: the levels as the guest made them
    made                \* history: by storage or images, levels, first upload,
                        \* attached

state == <<bound_texture_2d, unpack_alignment, raw_alignment, record, g_load_state>>
textureVars == <<driver, state, store, wanted, made>>

NoLevel == [fmt |-> None, base |-> None, patch |-> None]
NoLevels == [l \in Levels |-> NoLevel]
NoRecord == [fmt |-> None, levels |-> 0, large |-> FALSE, mode |-> 0, attached |-> FALSE]
NotMade == [by |-> None, levels |-> 0, first |-> None, attached |-> FALSE]

TexturesInit ==
    /\ driver \in Drivers
    /\ bound_texture_2d = None /\ unpack_alignment = 4 /\ raw_alignment = 4
    /\ record = [t \in {} |-> NoRecord] /\ g_load_state = "unknown"
    /\ store = [t \in Textures |-> NoLevels] /\ wanted = store
    /\ made = [t \in Textures |-> NotMade]

-------------------------------------------------------------------------------
(* The driver.  A level takes pixels of its own format only, and reads the *)
(* rows as far apart as its alignment says; rows of 4-byte pixels are where *)
(* either alignment puts them.                                             *)

Takes(fmt, pixels) ==
    fmt \in CASE pixels = "rgba" -> {"rgba8", "rgba4"}
              [] pixels = "la" -> {"la8"}
              [] OTHER -> {pixels}

Read(pixels, data, laid, alignment) ==
    IF data \in Pixels /\ pixels # "rgba" /\ laid # alignment THEN "garbled" ELSE data

\* glTexImage2D and glTexSubImage2D of a level, as they change it.
Defined(fmt, base) == [fmt |-> fmt, base |-> base, patch |-> None]

Updated(level, pixels, full, base) ==
    IF ~Takes(level.fmt, pixels) THEN level
    ELSE IF full THEN Defined(level.fmt, base) ELSE [level EXCEPT !.patch = base]

-------------------------------------------------------------------------------
(* The port's records of the textures.                                     *)

\* find_texture_record with create: the table may be full.
Recorded(t) == t \in DOMAIN record

Found(t) == IF Recorded(t) THEN record[t] ELSE NoRecord

Remember(t, r) ==
    record' = IF Recorded(t) \/ driver.room > 0
              THEN [x \in DOMAIN record \cup {t} |-> IF x = t THEN r ELSE record[x]]
              ELSE record

\* st_gles3_texture_format and the native one-channel format.
StoredAs(f) ==
    IF f = "r8" THEN IF driver.es3 THEN "r8" ELSE "la8" ELSE "rgba8"

Sent(f) == CASE f = "rgba" -> "rgba" [] f = "r8" -> IF driver.es3 THEN "r8" ELSE "la"

Expanded(f, data) == f = "r8" /\ ~driver.es3 /\ data \in Pixels

\* Mutant: the doubled bytes are read under the guest's alignment.
SeenUnderGuests(f, data) ==
    LET laid == IF Expanded(f, data) THEN 1 ELSE unpack_alignment
    IN Read(Sent(f), data, laid, raw_alignment)

\* What the driver reads: on GLES2 the byte of a one-channel pixel is doubled
\* into rows laid tightly, and the alignment is 1 while they go up.
Seen(f, data) ==
    IF Expanded(f, data) THEN Read("la", data, 1, 1)
    ELSE Read(Sent(f), data, unpack_alignment, raw_alignment)

AlignmentAfter(tight) ==
    IF tight /\ unpack_alignment # 1 THEN unpack_alignment ELSE raw_alignment

\* texture_level_is_full
IsFull(t, l, full) == full /\ ~Found(t).attached /\ l < Found(t).levels

Mode(data) == IF data = "opaque" THEN 2 ELSE 1

Compacts(t, l, f, full, data) ==
    /\ driver.bits16 /\ data \in Pixels /\ f = "rgba" /\ Found(t).fmt = "rgba"
    /\ Found(t).mode # 0 \/ (l = 0 /\ Found(t).large)
    /\ IsFull(t, l, full)

\* pack_rgb565 drops the alpha; both are packed tightly, under alignment 1.
Packed(mode, data) ==
    IF mode = 1 THEN Defined("rgba4", data)
    ELSE Defined("rgb565", IF data = "opaque" THEN data ELSE "flat")

-------------------------------------------------------------------------------
(* The guest.  Where the port stores 16 bits it assumes a guest that makes *)
(* mipmaps by glTexStorage2D, fills them from level 0, and puts neither    *)
(* translucent pixels nor parts into a texture that began opaque.          *)

\* The first whole upload of level 0 says what the texture is.
First(t, l, full, data) ==
    IF l = 0 /\ full /\ data \in Pixels /\ made[t].first = None THEN data ELSE made[t].first

Steady(t, l, full, data) ==
    LET first == First(t, l, full, data)
    IN driver.bits16 =>
          /\ first # None
          /\ first = "opaque" => full /\ data = "opaque"

Asked(t, l, f, full, data) ==
    /\ wanted' = [wanted EXCEPT ![t][l] =
                   IF full THEN Defined(f, data) ELSE [@ EXCEPT !.patch = data]]
    /\ made' = [made EXCEPT ![t].first = First(t, l, full, data)]

Keep(t, l, level) == store' = [store EXCEPT ![t][l] = level]

Lost == "lost"

-------------------------------------------------------------------------------
(* The calls.                                                              *)

BindTexture(t) ==
    /\ bound_texture_2d' = t
    /\ UNCHANGED <<driver, unpack_alignment, raw_alignment, record, g_load_state,
                   store, wanted, made>>

PixelStorei(a) ==
    /\ unpack_alignment' = a /\ raw_alignment' = a
    /\ UNCHANGED <<driver, bound_texture_2d, record, g_load_state, store, wanted, made>>

\* The name may be given out again.
DeleteTextures(t) ==
    /\ bound_texture_2d' = IF t = bound_texture_2d THEN None ELSE bound_texture_2d
    /\ record' = [x \in DOMAIN record \ {t} |-> record[x]]
    /\ store' = [store EXCEPT ![t] = NoLevels]
    /\ wanted' = [wanted EXCEPT ![t] = NoLevels]
    /\ made' = [made EXCEPT ![t] = NotMade]
    /\ UNCHANGED <<driver, unpack_alignment, raw_alignment, g_load_state>>

\* glFramebufferTexture2D: a render target is not filled from memory.
AttachTexture(t) ==
    /\ made[t].first = None
    /\ Remember(t, [Found(t) EXCEPT !.attached = TRUE])
    /\ made' = [made EXCEPT ![t].attached = TRUE]
    /\ UNCHANGED <<driver, bound_texture_2d, unpack_alignment, raw_alignment,
                   g_load_state, store, wanted>>

StorageRecord(t, f, n, large) ==
    [fmt |-> f, levels |-> n, large |-> large, mode |-> 0,
     attached |-> Found(t).attached]

\* On GLES2 the chain is allocated by hand, in a format the driver has; a
\* GLES3 driver serves the call itself and the port sees nothing of it, nor of
\* its refusal of a format it lacks, after which there is no level.
TexStorage2D(f, n, large) ==
    LET t == bound_texture_2d
        refused == driver.es3 /\ f \in Compressed /\ ~driver[f]
        kept == IF driver.es3 /\ f \in Compressed THEN f ELSE StoredAs(f)
        chain(fmt) == [l \in Levels |-> IF l < n THEN Defined(fmt, "undef") ELSE NoLevel]
    IN /\ t # None
       /\ made[t].levels = 0
       /\ IF driver.es3 THEN UNCHANGED record
          ELSE Remember(t, StorageRecord(t, f, n, large))
       /\ store' = IF refused THEN store ELSE [store EXCEPT ![t] = chain(kept)]
       /\ wanted' = [wanted EXCEPT ![t] = chain(f)]
       /\ made' = [made EXCEPT ![t].by = "storage", ![t].levels = n]
       /\ UNCHANGED <<driver, bound_texture_2d, unpack_alignment, raw_alignment, g_load_state>>

\* A 2D array has one layer and is a plain texture of the driver, unrecorded.
TexStorage3D(n) ==
    LET t == bound_texture_2d
        chain(fmt) == [l \in Levels |-> IF l < n THEN Defined(fmt, "undef") ELSE NoLevel]
    IN /\ t # None /\ ~driver.es3 /\ made[t] = NotMade
       /\ store' = [store EXCEPT ![t] = chain("rgba8")]
       /\ wanted' = [wanted EXCEPT ![t] = chain("array")]
       /\ made' = [made EXCEPT ![t].by = "storage", ![t].levels = n]
       /\ UNCHANGED <<driver, state>>

TexSubImage3D(l, full, data, layer) ==
    LET t == bound_texture_2d
    IN /\ t # None /\ wanted[t][l].fmt = "array"
       /\ Keep(t, l, IF layer = 0 THEN Updated(store[t][l], "rgba", full, data) ELSE store[t][l])
       /\ IF layer = 0 THEN Asked(t, l, "array", full, data) ELSE UNCHANGED <<wanted, made>>
       /\ UNCHANGED <<driver, state>>

\* A texture made level by level: one level, where 16 bits are in use.
Respecifies(t, l, f) ==
    /\ made[t].by # "storage" /\ (driver.bits16 => l = 0)
    /\ made[t].levels > 0 => \A k \in Levels \ {l} : wanted[t][k].fmt \in {None, Lost, f}

ImageMade(t, l, done) ==
    made' = [made EXCEPT ![t].by = "images", ![t].levels = IF @ <= l THEN l + 1 ELSE @,
                         ![t].first = IF l = 0 /\ done THEN None ELSE @]

TexImage2D(l, f, data, large) ==
    LET t == bound_texture_2d
    IN /\ t # None /\ Respecifies(t, l, f)
       /\ Keep(t, l, Defined(StoredAs(f), Seen(f, data)))
       /\ IF l # 0 THEN UNCHANGED record
          ELSE Remember(t, [Found(t) EXCEPT !.fmt = f, !.large = large, !.mode = 0,
                                            !.levels = IF @ < 1 THEN 1 ELSE @])
       /\ wanted' = [wanted EXCEPT ![t][l] = Defined(f, data)] /\ ImageMade(t, l, TRUE)
       /\ raw_alignment' = AlignmentAfter(Expanded(f, data))
       /\ UNCHANGED <<driver, bound_texture_2d, unpack_alignment, g_load_state>>

TexSubImage2D(l, f, full, data) ==
    LET t == bound_texture_2d
        mode == IF Found(t).mode # 0 THEN Found(t).mode ELSE Mode(data)
        compacts == Compacts(t, l, f, full, data)
    IN /\ t # None /\ wanted[t][l].fmt = f /\ Steady(t, l, full, data)
       /\ IF compacts
          THEN /\ Keep(t, l, Packed(mode, data))
               /\ record' = [record EXCEPT ![t].mode = mode]
          ELSE /\ Keep(t, l, Updated(store[t][l], Sent(f), full, Seen(f, data)))
               /\ UNCHANGED record
       /\ raw_alignment' = AlignmentAfter(compacts \/ Expanded(f, data))
       /\ Asked(t, l, f, full, data)
       /\ UNCHANGED <<driver, bound_texture_2d, unpack_alignment, g_load_state>>

-------------------------------------------------------------------------------
(* Compressed data.  A driver without the format is given decoded pixels.  *)

\* astc_load_library: found or not, once for the whole run.
LoadLibrary(f) ==
    IF f = "astc" /\ ~driver.astc /\ g_load_state = "unknown"
    THEN g_load_state' \in {"loaded", "absent"} ELSE UNCHANGED g_load_state

Decodes(f, data) ==
    data # "broken" /\ (f = "astc" /\ ~driver.astc => g_load_state' = "loaded")

\* Data nobody can decode leaves the guest without a claim on the level.
Claimed(f, data) == IF Decodes(f, data) THEN data ELSE Lost

\* decode_astc's failure defines the level without pixels; that of
\* etc2_decode_rgba leaves the data to a driver that refuses it.
CompressedTexImage2D(l, f, data) ==
    LET t == bound_texture_2d
    IN /\ t # None /\ Respecifies(t, l, f) /\ LoadLibrary(f)
       /\ Keep(t, l, IF driver[f] THEN Defined(f, data)
                     ELSE IF Decodes(f, data) THEN Defined("rgba8", data)
                     ELSE IF f = "astc" THEN Defined("rgba8", "undef") ELSE store[t][l])
       /\ wanted' = [wanted EXCEPT ![t][l] =
                      Defined(IF Decodes(f, data) THEN f ELSE Lost, Claimed(f, data))]
       /\ ImageMade(t, l, Decodes(f, data))
       /\ UNCHANGED <<driver, bound_texture_2d, unpack_alignment, raw_alignment, record>>

PixelsOfPart(f) == IF driver[f] THEN f ELSE "rgba"

CompressedTexSubImage2D(l, f, full, data) ==
    LET t == bound_texture_2d
        updates == driver[f] \/ Decodes(f, data)
    IN /\ t # None /\ wanted[t][l].fmt = f /\ LoadLibrary(f)
       /\ Keep(t, l, IF updates THEN Updated(store[t][l], PixelsOfPart(f), full, data)
                     ELSE store[t][l])
       /\ Asked(t, l, f, full, Claimed(f, data))
       /\ UNCHANGED <<driver, bound_texture_2d, unpack_alignment, raw_alignment, record>>

TexturesNext ==
    \/ \E t \in Textures : BindTexture(t) \/ DeleteTextures(t) \/ AttachTexture(t)
    \/ \E a \in Alignments : PixelStorei(a)
    \/ \E n \in {1, 2} :
          TexStorage3D(n) \/ \E f \in Formats, large \in BOOLEAN : TexStorage2D(f, n, large)
    \/ \E l \in Levels, data \in Pixels :
          \/ \E full \in BOOLEAN, layer \in {0, 1} : TexSubImage3D(l, full, data, layer)
          \/ \E full \in BOOLEAN, f \in Formats \ Compressed : TexSubImage2D(l, f, full, data)
    \/ \E l \in Levels, data \in Pixels \cup {"undef"}, large \in BOOLEAN,
           f \in Formats \ Compressed : TexImage2D(l, f, data, large)
    \/ \E l \in Levels, f \in Compressed, data \in Pixels \cup {"broken"} :
          CompressedTexImage2D(l, f, data)
          \/ \E full \in BOOLEAN : CompressedTexSubImage2D(l, f, full, data)

TexturesSpec == TexturesInit /\ [][TexturesNext]_textureVars

-------------------------------------------------------------------------------
(* Properties.                                                             *)

\* The format that samples as the guest's.
Serves(fmt, f) ==
    fmt \in CASE f \in {"rgba", "array"} -> {"rgba8", "rgb565", "rgba4"}
              [] f = "r8" -> {"la8", "r8"}
              [] OTHER -> {f, "rgba8"}

\* Every level holds the last pixels the guest gave it, whole and partial, in
\* a format that samples as the guest's, whatever they were rewritten to; and
\* a render target is never stored in 16 bits.
LevelsKept ==
    \A t \in Textures, l \in Levels :
        LET w == wanted[t][l]
            s == store[t][l]
        IN /\ w.base \in Pixels => s.base = w.base /\ Serves(s.fmt, w.fmt)
           /\ w.patch \in Pixels => s.patch = w.patch
           /\ driver.room > 0 /\ made[t].attached => s.fmt \notin {"rgb565", "rgba4"}

\* When the guest has filled every level the driver has them in one format:
\* a chain of two formats samples black.
ChainWhole ==
    \A t \in Textures :
        LET chain == {l \in Levels : l < made[t].levels}
        IN (\A l \in chain : wanted[t][l].base \in Pixels) =>
              \A k, l \in chain : store[t][k].fmt = store[t][l].fmt

\* A texture samples as the guest made it.
TexturesServed == LevelsKept /\ ChainWhole
=============================================================================
