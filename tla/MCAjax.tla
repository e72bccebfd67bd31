-------------------------------- MODULE MCAjax --------------------------------
EXTENDS Ajax

Set(type, async, timeout, global, beforeSend) ==
  [type |-> type, async |-> async, timeout |-> timeout, global |-> global, beforeSend |-> beforeSend]

MCSettings == {Set("xhr", TRUE, TRUE, TRUE, TRUE), Set("xhr", TRUE, TRUE, TRUE, FALSE),
               Set("xhr", FALSE, FALSE, TRUE, FALSE), Set("xhr", TRUE, FALSE, FALSE, TRUE),
               Set("jsonp", TRUE, TRUE, TRUE, FALSE), Set("none", TRUE, FALSE, TRUE, FALSE)}
===============================================================================
