\* Four columns and five lines of four pixel rows each.  shell_scroll_up takes the
\* pitch for 1, so that it is wrong by the same factor of 4 as in the code.
CONSTANTS
    fb_width = 4
    fb_height = 20
    fb_pitch = 4
    char_width = 1
    line_height = 4
    Lines <- MCLines
    MaxEarly = 2
SPECIFICATION Spec
INVARIANTS TypeOK CursorInside LineShown LegibleUntilScroll
PROPERTY OutputStays
