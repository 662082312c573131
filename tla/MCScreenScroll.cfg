CONSTANTS
    fb_width = 4
    fb_height = 20
    fb_pitch = 4
    char_width = 1
    line_height = 4
    Lines <- MCLines
    MaxEarly = 2
SPECIFICATION Spec
INVARIANT OutputLegible
