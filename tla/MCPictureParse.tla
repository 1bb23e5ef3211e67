--------------------------- MODULE MCPictureParse ---------------------------
(* Layouts of a picture of two lines of two CTUs: raster scan slices, one  *)
(* of which crosses the end of a line, and slices in columns of tiles.     *)
EXTENDS PictureParse

Raster  == <<<<0>>, <<1, 2>>, <<3>>>>
Columns == <<<<0, 2>>, <<1>>, <<3>>>>

MCSliceMaps == {Raster, Columns}
=============================================================================
