------------------------------ MODULE TiledMap ------------------------------
(***************************************************************************)
(* The map of a world (world/src/world, world/src/ecs/components) and what *)
(* tiled_converter makes of it for the clients: the tiles of a layer as 32 *)
(* bit numbers, compressed, in base64.                                     *)
(***************************************************************************)
EXTENDS Naturals, Sequences

CONSTANTS
    Compressed(_),     \* LZ4_compress_default: the bytes that it makes of bytes
    Decompressed(_)    \* LZ4_decompress_safe, with which a client gets them back

\* The tilesets and layers of a map; a tile of a layer is its tile_id, 16 bits.
Tileset(tile, width, height) == [tile_width |-> tile, tile_height |-> tile,
                                 width |-> width, height |-> height]
Layer(tiles, width, height) == [tiles |-> tiles, width |-> width, height |-> height]

\* world::load_from_database: every column of the layer has the tiles 1 .. height, as uint16_t.
Loaded(width, height) ==
    [tilesets |-> <<Tileset(64, 1536, 2560)>>,
     layers |-> <<Layer([k \in 1 .. width * height |-> (((k - 1) % height) + 1) % 65536],
                        width, height)>>]

-----------------------------------------------------------------------------
\* A number as the four bytes of a uint32_t on a little endian machine.
Bytes(n) == <<n % 256, (n \div 256) % 256, 0, 0>>
TileBytes(layer) ==
    [b \in 1 .. 4 * Len(layer.tiles) |->
        Bytes(layer.tiles[((b - 1) \div 4) + 1])[((b - 1) % 4) + 1]]

\* The characters of base64 stand for 0 .. 63; Pad is the sign '='.
Pad == 64

\* Byte k of a string that is filled with zeros.
At(bytes, k) == IF k <= Len(bytes) THEN bytes[k] ELSE 0

\* The six bits of character s.
Sextet(bytes, s) ==
    LET g == 3 * ((s - 1) \div 4)
    IN  CASE s % 4 = 1 -> At(bytes, g + 1) \div 4
          [] s % 4 = 2 -> (At(bytes, g + 1) % 4) * 16 + At(bytes, g + 2) \div 16
          [] s % 4 = 3 -> (At(bytes, g + 2) % 16) * 4 + At(bytes, g + 3) \div 64
          [] s % 4 = 0 -> At(bytes, g + 3) % 64

\* Mutant: one character too few for a last group that is not full.
CharactersTooFew(n) == (4 * n) \div 3

\* How many characters n bytes take: one more than there are bytes in the last group.
Characters(n) == (4 * n + 2) \div 3

\* base64_encode: four characters for three bytes, the last ones padded.
Base64(bytes) ==
    [s \in 1 .. 4 * ((Len(bytes) + 2) \div 3) |->
        IF s <= Characters(Len(bytes)) THEN Sextet(bytes, s) ELSE Pad]

\* How many characters come before the first sign that is not one of base64's.
Readable(chars) ==
    CHOOSE n \in 0 .. Len(chars) :
        /\ \A k \in 1 .. n : chars[k] # Pad
        /\ n = Len(chars) \/ chars[n + 1] = Pad

\* base64_decode: as many bytes as the characters before the padding make.
Decoded(chars) ==
    LET text == SubSeq(chars, 1, Readable(chars))
        byte(b) ==
            LET g == 4 * ((b - 1) \div 3)
            IN  CASE b % 3 = 1 -> At(text, g + 1) * 4 + At(text, g + 2) \div 16
                  [] b % 3 = 2 -> (At(text, g + 2) % 16) * 16 + At(text, g + 3) \div 4
                  [] b % 3 = 0 -> (At(text, g + 3) % 4) * 64 + At(text, g + 4)
    IN  [b \in 1 .. (3 * Len(text)) \div 4 |-> byte(b)]

\* convert_map_to_json.
Json(map) ==
    [tilecounts |-> [k \in DOMAIN map.tilesets |->
        LET t == map.tilesets[k]
        IN  (t.height \div t.tile_height) * (t.width \div t.tile_width)],
     layers |-> [k \in DOMAIN map.layers |->
        [width |-> map.layers[k].width, height |-> map.layers[k].height,
         data |-> Base64(Compressed(TileBytes(map.layers[k])))]]]

\* The numbers that a reader finds in the data of a layer.
TilesIn(data) ==
    LET bytes == Decompressed(Decoded(data))
    IN  [k \in 1 .. Len(bytes) \div 4 |-> bytes[4 * k - 3] + 256 * bytes[4 * k - 2]]

=============================================================================
