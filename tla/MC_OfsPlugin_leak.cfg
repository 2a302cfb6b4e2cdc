\* Two native file objects, each wrapped or raw; two error texts.
CONSTANTS
    f1 = f1
    f2 = f2
    e1 = e1
    e2 = e2
    Files = {f1, f2}
    ErrTexts = {e1, e2}
SPECIFICATION Spec

INVARIANT WrapperReleasesNative

