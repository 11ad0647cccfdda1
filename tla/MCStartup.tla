---------------------------- MODULE MCStartup ----------------------------
(* Instances of Startup for TLC. *)
EXTENDS Startup

Line(indent, name, kind, value, size, cr) ==
  [indent |-> indent, name |-> name, kind |-> kind, value |-> value,
   size |-> size, cr |-> cr]

\* Empty and blank lines, comments, assignments good and bad.  Sizes are such
\* that the buffer is kept, filled exactly and resized, and that files end
\* anywhere in a page.
MCLines ==
  { Line(0, "", "none", 0, 0, 0),
    Line(0, "", "none", 0, 0, 1),
    Line(1, "", "none", 0, 0, 1),
    Line(0, "#", "none", 0, 3, 0),
    Line(1, "#", "none", 0, 3, 0),
    Line(0, "LocalPort", "value", 5, 2, 1),
    Line(0, "LocalPort", "value", -1, 2, 0),
    Line(1, "LocalPort", "value", 21, 4, 0),
    Line(0, "LocalPort", "junk", 0, 3, 0),
    Line(0, "PasvPortStart", "value", 9, 4, 0),
    Line(0, "PasvPortEnd", "value", 8, 3, 0),
    Line(0, "AllowAnonymous", "value", TRUE, 3, 0),
    Line(0, "AllowAnonymous", "junk", FALSE, 4, 0),
    Line(0, "AnonRootDir", "value", "/pub", 2, 0),
    Line(0, "AnonRootDir", "blank", "", 1, 0),
    Line(0, "NoSuchOption", "value", 0, 2, 0) }

\* Commands that are not in order, and more than fit twice.
MCCommandList == <<1, 2, 4, 3, 5>>

=============================================================================
